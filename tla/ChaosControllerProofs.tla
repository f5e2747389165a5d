------------------------ MODULE ChaosControllerProofs ------------------------
(***************************************************************************)
(* Proofs about EventHub, ChaosCluster and ChaosController: any browsers,  *)
(* any capacity of their queues, any actions and scenarios, any number of  *)
(* runs and of pods that a service should have.                            *)
(*                                                                         *)
(* First the hub.  Then the cluster: what all scripts have in common; the  *)
(* runs, in any environment (RunsInv); the metrics (ManualInv) and the     *)
(* pods (PodsInv) as long as runs are triggered by hand only; how many     *)
(* pods there are, in any environment.                                     *)
(***************************************************************************)
EXTENDS ChaosController, FunctionTheorems, FiniteSetTheorems, SequenceTheorems, TLAPS

(* What is ever published: a snapshot or another event.                    *)
Events == (SUBSET Services) \cup {Other}

Stream == [at : Stations, hubbed : BOOLEAN, queue : Seq(Events),
           screen : Events \cup {None}, latest : Events \cup {None}]

(* A queue in the hub ends, snapshots only, with the latest one, as long   *)
(* as its stream is not open yet; then it may have been read.              *)
Waits(x) ==
    x.hubbed = TRUE /\ x.latest # None =>
        /\ x.at \in {"subscribed", "greeted"} => LastWaiting(x.queue, x.latest)
        /\ x.at = "open" => \/ LastWaiting(x.queue, x.latest)
                            \/ NoneWaiting(x.queue) /\ x.screen = x.latest

GoodStream(x) == x \in Stream /\ Len(x.queue) <= Capacity /\ Waits(x)

HubInv == stream \in [Streams -> Stream] /\ \A s \in Streams : GoodStream(stream[s])

-----------------------------------------------------------------------------
LEMMA AppendWaiting ==
    ASSUME NEW queue \in Seq(Events), NEW event \in Events
    PROVE  /\ event # Other => LastWaiting(Append(queue, event), event)
           /\ event = Other => \A snapshot :
                LastWaiting(queue, snapshot) => LastWaiting(Append(queue, event), snapshot)
           /\ event = Other /\ NoneWaiting(queue) => NoneWaiting(Append(queue, event))
<1> DEFINE long == Append(queue, event)
<1>1. /\ Len(queue) \in Nat /\ DOMAIN queue = 1..Len(queue)
      /\ DOMAIN long = 1..(Len(queue) + 1)
      /\ \A i \in DOMAIN queue : long[i] = queue[i]
      /\ long[Len(queue) + 1] = event
  BY AppendProperties
<1> HIDE DEF long
<1>2. event # Other => LastWaiting(long, event)
  BY <1>1 DEF LastWaiting
<1>3. ASSUME event = Other, NEW snapshot, LastWaiting(queue, snapshot)
      PROVE  LastWaiting(long, snapshot)
  <2>1. PICK i \in DOMAIN queue :
           queue[i] = snapshot /\ \A j \in DOMAIN queue : j > i => queue[j] = Other
    BY <1>3 DEF LastWaiting
  <2>2. i \in DOMAIN long /\ long[i] = snapshot
    BY <1>1, <2>1
  <2>3. \A j \in DOMAIN long : j > i => long[j] = Other
    BY <1>1, <1>3, <2>1
  <2>4. QED
    BY <1>3, <2>2, <2>3 DEF LastWaiting
<1>4. event = Other /\ NoneWaiting(queue) => NoneWaiting(long)
  BY <1>1 DEF NoneWaiting
<1>5. QED
  BY <1>2, <1>3, <1>4 DEF long

LEMMA TailWaiting ==
    ASSUME NEW queue \in Seq(Events), queue # << >>
    PROVE  /\ \A snapshot : LastWaiting(queue, snapshot) =>
                \/ LastWaiting(Tail(queue), snapshot)
                \/ NoneWaiting(Tail(queue)) /\ Head(queue) = snapshot /\ snapshot # Other
           /\ NoneWaiting(queue) => NoneWaiting(Tail(queue)) /\ Head(queue) = Other
<1> DEFINE short == Tail(queue)
<1>1. /\ Len(queue) \in Nat \ {0} /\ DOMAIN queue = 1..Len(queue)
      /\ DOMAIN short = 1..(Len(queue) - 1)
      /\ \A i \in DOMAIN short : short[i] = queue[i + 1]
      /\ Head(queue) = queue[1]
  BY HeadTailProperties, EmptySeq
<1> HIDE DEF short
<1>2. ASSUME NEW snapshot, LastWaiting(queue, snapshot)
      PROVE  \/ LastWaiting(short, snapshot)
             \/ NoneWaiting(short) /\ Head(queue) = snapshot /\ snapshot # Other
  <2>1. PICK i \in DOMAIN queue :
           queue[i] = snapshot /\ \A j \in DOMAIN queue : j > i => queue[j] = Other
    BY <1>2 DEF LastWaiting
  <2>2. CASE i = 1
    BY <1>1, <1>2, <2>1, <2>2 DEF NoneWaiting, LastWaiting
  <2>3. CASE i # 1
    <3>1. i - 1 \in DOMAIN short /\ short[i - 1] = snapshot
      BY <1>1, <2>1, <2>3
    <3>2. \A j \in DOMAIN short : j > i - 1 => short[j] = Other
      BY <1>1, <2>1
    <3>3. QED
      BY <1>2, <3>1, <3>2 DEF LastWaiting
  <2>4. QED
    BY <2>2, <2>3
<1>3. NoneWaiting(queue) => NoneWaiting(short) /\ Head(queue) = Other
  BY <1>1 DEF NoneWaiting
<1>4. QED
  BY <1>2, <1>3 DEF short
-----------------------------------------------------------------------------
LEMMA EmptyStream == GoodStream(NoStream)
<1>1. << >> \in Seq(Events) /\ Len(<< >>) = 0
  BY EmptySeq
<1>2. QED
  BY <1>1, HubAssumption DEF GoodStream, Stream, Stations, Waits, NoStream

LEMMA HearWell ==
    ASSUME NEW x \in Stream, GoodStream(x), x.hubbed = TRUE, NEW event \in Events
    PROVE  GoodStream(PutNowait(x, event))
<1> DEFINE long == Append(x.queue, event)
           last == IF event = Other THEN x.latest ELSE event
           y == [x EXCEPT !.latest = last, !.queue = long]
<1>1. /\ x.queue \in Seq(Events) /\ x.at \in Stations /\ x.hubbed \in BOOLEAN
      /\ x.screen \in Events \cup {None} /\ x.latest \in Events \cup {None}
      /\ Len(x.queue) \in Nat
  BY LenProperties DEF Stream
<1>2. long \in Seq(Events) /\ Len(long) = Len(x.queue) + 1
  BY <1>1, AppendProperties
<1>3. CASE Len(x.queue) < Capacity
  <2>1. PutNowait(x, event) = y
    BY <1>3 DEF PutNowait, Heard, Stream
  <2>2. /\ y.at = x.at /\ y.hubbed = x.hubbed /\ y.queue = long
        /\ y.screen = x.screen /\ y.latest = last
    BY DEF Stream
  <2>3. y \in Stream
    BY <1>1, <1>2 DEF Stream
  <2>4. Len(long) <= Capacity
    BY <1>1, <1>2, <1>3, HubAssumption
  <2>5. ASSUME last # None, x.at \in {"subscribed", "greeted"}
        PROVE  LastWaiting(long, last)
    BY <1>1, <2>5, AppendWaiting DEF GoodStream, Waits
  <2>6. ASSUME last # None, x.at = "open"
        PROVE  LastWaiting(long, last) \/ (NoneWaiting(long) /\ x.screen = last)
    BY <1>1, <2>6, AppendWaiting DEF GoodStream, Waits
  <2>7. Waits(y)
    BY <2>2, <2>5, <2>6 DEF Waits
  <2>8. QED
    BY <2>1, <2>2, <2>3, <2>4, <2>7 DEF GoodStream
<1>4. CASE ~(Len(x.queue) < Capacity) /\ x.at \in {"left", "lost"}
  BY <1>4, EmptyStream DEF PutNowait
<1>5. CASE ~(Len(x.queue) < Capacity) /\ x.at \notin {"left", "lost"}
  <2>1. PutNowait(x, event) = [x EXCEPT !.hubbed = FALSE]
    BY <1>5 DEF PutNowait
  <2>2. QED
    BY <1>1, <2>1 DEF GoodStream, Stream, Waits
<1>6. QED
  BY <1>3, <1>4, <1>5

LEMMA HubStart == HubInit => HubInv
<1>1. NoStream \in Stream
  BY EmptyStream DEF GoodStream
<1>2. QED
  BY <1>1, EmptyStream DEF HubInit, HubInv

LEMMA EmitKeeps ==
    ASSUME HubInv, NEW event \in Events, Emit(event)
    PROVE  HubInv'
<1>1. \A s \in Streams : GoodStream(stream'[s])
  BY HearWell DEF HubInv, Emit, GoodStream
<1>2. stream' \in [Streams -> Stream]
  BY <1>1 DEF Emit, GoodStream
<1>3. QED
  BY <1>1, <1>2 DEF HubInv

LEMMA BrowsersKeep ==
    ASSUME HubInv, NEW snapshot \in Events, HubNext(snapshot)
    PROVE  HubInv'
<1>1. ASSUME NEW s \in Streams, NEW y, GoodStream(y), stream' = [stream EXCEPT ![s] = y]
      PROVE  HubInv'
  <2>1. y \in Stream
    BY <1>1 DEF GoodStream
  <2>2. QED
    BY <1>1, <2>1 DEF HubInv
<1>2. PICK s \in Streams : \/ Subscribe(s) \/ Greet(s, snapshot) \/ Listen(s)
                           \/ Deliver(s) \/ Leave(s) \/ Unsubscribe(s)
  BY DEF HubNext
<1> DEFINE x == stream[s]
<1>3. x \in Stream /\ GoodStream(x)
  BY DEF HubInv
<1>4. /\ x.queue \in Seq(Events) /\ x.at \in Stations /\ x.hubbed \in BOOLEAN
      /\ x.screen \in Events \cup {None} /\ x.latest \in Events \cup {None}
      /\ Len(x.queue) \in Nat /\ Len(x.queue) <= Capacity
  BY <1>3, LenProperties DEF Stream, GoodStream
<1>5. stream \in [Streams -> Stream]
  BY DEF HubInv
<1>6. CASE Subscribe(s)
  <2> DEFINE y == [NoStream EXCEPT !.at = "subscribed", !.hubbed = TRUE]
  <2>1. GoodStream(y)
    <3>1. NoStream \in Stream /\ GoodStream(NoStream)
      BY EmptyStream DEF GoodStream
    <3>2. NoStream.latest = None /\ NoStream.queue = << >>
      BY DEF NoStream
    <3>3. /\ y.at = "subscribed" /\ y.queue = << >> /\ y.latest = None
          /\ y \in Stream
      BY <3>1, <3>2 DEF Stream, Stations
    <3>4. QED
      BY <3>1, <3>2, <3>3 DEF GoodStream, Waits
  <2>2. stream' = [stream EXCEPT ![s] = y]
    BY <1>6 DEF Subscribe
  <2>3. QED
    BY <1>1, <2>1, <2>2
<1>7. CASE Greet(s, snapshot)
  <2> DEFINE y == [x EXCEPT !.at = "greeted", !.screen = snapshot]
  <2>1. x.at = "subscribed" /\ stream' = [stream EXCEPT ![s] = y]
    BY <1>5, <1>7 DEF Greet, Stream
  <2>2. /\ y.at = "greeted" /\ y.hubbed = x.hubbed /\ y.queue = x.queue
        /\ y.screen = snapshot /\ y.latest = x.latest /\ y \in Stream
    BY <1>4, <1>3 DEF Stream, Stations
  <2>3. GoodStream(y)
    BY <1>3, <1>4, <2>1, <2>2 DEF GoodStream, Waits
  <2>4. QED
    BY <1>1, <2>1, <2>3
<1>8. CASE Listen(s)
  <2> DEFINE y == [x EXCEPT !.at = "open"]
  <2>1. x.at = "greeted" /\ stream' = [stream EXCEPT ![s] = y]
    BY <1>5, <1>8 DEF Listen, Stream
  <2>2. /\ y.at = "open" /\ y.hubbed = x.hubbed /\ y.queue = x.queue
        /\ y.screen = x.screen /\ y.latest = x.latest /\ y \in Stream
    BY <1>4, <1>3 DEF Stream, Stations
  <2>3. GoodStream(y)
    BY <1>3, <1>4, <2>1, <2>2 DEF GoodStream, Waits
  <2>4. QED
    BY <1>1, <2>1, <2>3
<1>9. CASE Deliver(s)
  <2> DEFINE shown == IF Head(x.queue) = Other THEN x.screen ELSE Head(x.queue)
             y == [x EXCEPT !.queue = Tail(x.queue), !.screen = shown]
  <2>1. /\ x.at = "open" /\ x.queue # << >>
        /\ stream' = [stream EXCEPT ![s] = y]
    BY <1>5, <1>9 DEF Deliver, Stream
  <2>2. /\ Tail(x.queue) \in Seq(Events) /\ Len(Tail(x.queue)) = Len(x.queue) - 1
        /\ Head(x.queue) \in Events
    BY <1>4, <2>1, HeadTailProperties
  <2>3. /\ y.at = "open" /\ y.hubbed = x.hubbed /\ y.queue = Tail(x.queue)
        /\ y.screen = shown /\ y.latest = x.latest /\ y \in Stream
    BY <1>4, <1>3, <2>1, <2>2 DEF Stream
  <2>4. ASSUME x.hubbed = TRUE, x.latest # None
        PROVE  LastWaiting(y.queue, x.latest) \/ (NoneWaiting(y.queue) /\ y.screen = x.latest)
    <3>1. LastWaiting(x.queue, x.latest) \/ (NoneWaiting(x.queue) /\ x.screen = x.latest)
      BY <1>3, <2>1, <2>4 DEF GoodStream, Waits
    <3>2. QED
      BY <1>4, <2>1, <2>3, <3>1, TailWaiting
  <2>5. Waits(y)
    BY <2>3, <2>4 DEF Waits
  <2>6. Len(y.queue) <= Capacity
    BY <1>4, <2>2, <2>3, HubAssumption
  <2>7. QED
    BY <1>1, <2>1, <2>3, <2>5, <2>6 DEF GoodStream
<1>10. CASE Leave(s)
  <2> DEFINE gone == [x EXCEPT !.at = IF x.at = "open" THEN "left" ELSE "lost",
                               !.screen = None, !.latest = None]
  <2>1. \/ stream' = [stream EXCEPT ![s] = NoStream]
        \/ stream' = [stream EXCEPT ![s] = gone]
    BY <1>4, <1>5, <1>10 DEF Leave
  <2>2. GoodStream(gone)
    BY <1>3, <1>4 DEF GoodStream, Stream, Stations, Waits
  <2>3. QED
    BY <1>1, <2>1, <2>2, EmptyStream
<1>11. CASE Unsubscribe(s)
  BY <1>1, <1>11, EmptyStream DEF Unsubscribe
<1>12. QED
  BY <1>2, <1>6, <1>7, <1>8, <1>9, <1>10, <1>11
-----------------------------------------------------------------------------
(* The hub in the controller: it publishes snapshots of the cluster and    *)
(* events without one.                                                     *)
LEMMA HubStep ==
    ASSUME HubInv, [ControllerNext]_controllerVars
    PROVE  HubInv'
<1>1. Snapshot \in Events /\ Other \in Events
  <2>1. Snapshot \in SUBSET Services
    BY DEF Snapshot
  <2>2. QED
    BY <2>1 DEF Events
<1>2. CASE \E event \in Events : Emit(event)
  BY <1>2, EmitKeeps
<1>3. CASE HubNext(Snapshot)
  BY <1>1, <1>3, BrowsersKeep
<1>4. CASE UNCHANGED stream
  BY <1>4 DEF HubInv
<1>5. \/ \E event \in Events : Emit(event)
      \/ HubNext(Snapshot)
      \/ UNCHANGED stream
  <2>1. ASSUME NEW r \in Runs, Narrated(r) \/ Narrate(r)
        PROVE  (\E event \in Events : Emit(event)) \/ UNCHANGED stream
    BY <1>1, <2>1 DEF Narrated, Narrate
  <2>2. CASE Poll
    BY <1>1, <2>2 DEF Poll
  <2>3. CASE Browse
    BY <2>3 DEF Browse
  <2>4. QED
    BY <2>1, <2>2, <2>3 DEF ControllerNext, controllerVars
<1>6. QED
  BY <1>2, <1>3, <1>4, <1>5

LEMMA HubInvariance == ControllerSpec => []HubInv
<1>1. ControllerInit => HubInv
  BY HubStart DEF ControllerInit
<1>2. QED
  BY <1>1, HubStep, PTL DEF ControllerSpec

(* No stream that is in the hub has lost a snapshot: what a browser shows  *)
(* is as new as what it has read, and the newest waits for it.             *)
THEOREM SubscribersMissNothing == ControllerSpec => []StreamsMissNothing
<1>1. HubInv => StreamsMissNothing
  BY DEF HubInv, GoodStream, Waits, StreamsMissNothing
<1>2. QED
  BY <1>1, HubInvariance, PTL

(* A queue never holds more than its capacity.                             *)
THEOREM QueuesAreBounded == ControllerSpec => []HubTypeOK
<1>1. HubInv => HubTypeOK
  BY DEF HubInv, GoodStream, Stream, HubTypeOK
<1>2. QED
  BY <1>1, HubInvariance, PTL

-----------------------------------------------------------------------------
(* The scripts.                                                            *)

(* What a step of a script does: an effect of the kind op on service x.    *)
Has(step, op, x, m) == \E e \in step : e.op = op /\ x \in e.on /\ e.metric = m

Raises(step, x, m) ==
    Has(step, "raise", x, m) \/ Has(step, "assign", x, m) \/ Has(step, "raise_anew", x, m)
Clears(step, x, m) ==
    \/ Has(step, "lower", x, m) \/ Has(step, "divide", x, m)
    \/ Has(step, "restore", x, m) \/ Has(step, "reset", x, m)

(* What all scripts have in common: what they make sick gets well, what    *)
(* they raise they clear, they divide only what they have just raised, and *)
(* they save a metric before they change it.                               *)
SickGetsWell(sc) ==
    \A n \in 1..Len(sc), x \in Services : Has(sc[n], "sick", x, "none") =>
        \E k \in (n + 1)..Len(sc) :
            Has(sc[k], "well", x, "none") /\ ~Has(sc[k], "sick", x, "none")
RaisedIsCleared(sc) ==
    \A n \in 1..Len(sc), x \in Services, m \in Metrics : Raises(sc[n], x, m) =>
        \E k \in (n + 1)..Len(sc) : Clears(sc[k], x, m) /\ ~Raises(sc[k], x, m)
DividesWhatItRaised(sc) ==
    \A n \in 1..Len(sc), x \in Services, m \in Metrics : Has(sc[n], "divide", x, m) =>
        /\ m = "latency"
        /\ \E k \in 1..(n - 1) :
             /\ Raises(sc[k], x, m) /\ ~Clears(sc[k], x, m)
             /\ \A j \in (k + 1)..(n - 1) : ~Raises(sc[j], x, m) /\ ~Clears(sc[j], x, m)
SavesFirst(sc) ==
    \A n \in 1..Len(sc), x \in Services, m \in Metrics : Has(sc[n], "save", x, m) =>
        \A k \in 1..(n - 1) : ~Raises(sc[k], x, m) /\ ~Clears(sc[k], x, m)
WellBehaved(sc) ==
    /\ Len(sc) \in Nat
    /\ SickGetsWell(sc) /\ RaisedIsCleared(sc)
    /\ DividesWhatItRaised(sc) /\ SavesFirst(sc)

MetricIdle(step, x, m) ==
    /\ ~Raises(step, x, m) /\ ~Clears(step, x, m)
    /\ ~Has(step, "divide", x, m) /\ ~Has(step, "save", x, m)
HealthIdle(step, x) == ~Has(step, "sick", x, "none") /\ ~Has(step, "well", x, "none")

(* Script by script.                                                       *)
LEMMA KillPodBehaves == ASSUME NEW s \in Services PROVE WellBehaved(KillPod(s))
<1> DEFINE sc == KillPod(s)
<1>1. /\ Len(sc) = 6
      /\ sc[1] = {Pick(s)}
      /\ sc[2] = {Terminate(s)}
      /\ sc[3] = {Unready(s), Sick({s}), Save({s}, "latency"),
                  Save({s}, "errors"), Raise({s}, "latency"),
                  Assign({s}, "errors")}
      /\ sc[4] = {Add(s)}
      /\ sc[5] = {Replace(s)}
      /\ sc[6] = {Restore({s}, "latency"), Restore({s}, "errors"), Well({s})}
  BY DEF KillPod
<1> HIDE DEF sc
<1>2. ASSUME NEW x \in Services, NEW m \in Metrics, NEW n \in 1..6
      PROVE  /\ Raises(sc[n], x, m) <=> n = 3 /\ x = s
             /\ Clears(sc[n], x, m) <=> n = 6 /\ x = s
             /\ Has(sc[n], "save", x, m) <=> n = 3 /\ x = s
             /\ Has(sc[n], "sick", x, "none") <=> n = 3 /\ x = s
             /\ Has(sc[n], "well", x, "none") <=> n = 6 /\ x = s
             /\ ~Has(sc[n], "divide", x, m)
  <2>1. /\ MetricIdle(sc[1], x, m) /\ HealthIdle(sc[1], x)
        /\ MetricIdle(sc[2], x, m) /\ HealthIdle(sc[2], x)
        /\ Raises(sc[3], x, m) <=> x = s
        /\ Has(sc[3], "save", x, m) <=> x = s
        /\ Has(sc[3], "sick", x, "none") <=> x = s
        /\ ~Clears(sc[3], x, m) /\ ~Has(sc[3], "divide", x, m)
        /\ ~Has(sc[3], "well", x, "none")
        /\ MetricIdle(sc[4], x, m) /\ HealthIdle(sc[4], x)
        /\ MetricIdle(sc[5], x, m) /\ HealthIdle(sc[5], x)
        /\ Clears(sc[6], x, m) <=> x = s
        /\ Has(sc[6], "well", x, "none") <=> x = s
        /\ ~Raises(sc[6], x, m) /\ ~Has(sc[6], "divide", x, m)
        /\ ~Has(sc[6], "save", x, m) /\ ~Has(sc[6], "sick", x, "none")
    BY <1>1 DEF MetricIdle, HealthIdle, Has, Raises, Clears, Metrics, Effect,
         Pick, OnService, Terminate, Unready, Sick, Save, OnMetric, Raise,
         Assign, Add, Replace, Restore, Well
  <2>2. n = 1 \/ n = 2 \/ n = 3 \/ n = 4 \/ n = 5 \/ n = 6
    OBVIOUS
  <2>3. QED
    BY <2>1, <2>2 DEF MetricIdle, HealthIdle
<1>3. SickGetsWell(sc)
  <2>1. "latency" \in Metrics
    BY DEF Metrics
  <2>2. QED
    BY <1>1, <1>2, <2>1 DEF SickGetsWell
<1>4. RaisedIsCleared(sc)
  BY <1>1, <1>2 DEF RaisedIsCleared
<1>5. DividesWhatItRaised(sc)
  BY <1>1, <1>2 DEF DividesWhatItRaised
<1>6. SavesFirst(sc)
  BY <1>1, <1>2 DEF SavesFirst
<1>7. QED
  BY <1>1, <1>3, <1>4, <1>5, <1>6 DEF WellBehaved, sc

LEMMA CpuPressureBehaves ==
    ASSUME NEW s \in Services PROVE WellBehaved(CpuPressure(s))
<1> DEFINE sc == CpuPressure(s)
<1>1. /\ Len(sc) = 7
      /\ sc[1] = {Raise({s}, "latency")}
      /\ sc[2] = {Raise({s}, "latency")}
      /\ sc[3] = {Add(s)}
      /\ sc[4] = {Add(s)}
      /\ sc[5] = {StartLastTwo(s)}
      /\ sc[6] = {Lower({s}, "latency")}
      /\ sc[7] = {Lower({s}, "latency")}
  BY DEF CpuPressure
<1> HIDE DEF sc
<1>2. ASSUME NEW x \in Services, NEW m \in Metrics, NEW n \in 1..7
      PROVE  /\ Raises(sc[n], x, m) <=>
                \/ n = 1 /\ x = s /\ m = "latency"
                \/ n = 2 /\ x = s /\ m = "latency"
             /\ Clears(sc[n], x, m) <=>
                \/ n = 6 /\ x = s /\ m = "latency"
                \/ n = 7 /\ x = s /\ m = "latency"
             /\ ~Has(sc[n], "divide", x, m) /\ ~Has(sc[n], "save", x, m)
             /\ HealthIdle(sc[n], x)
  <2>1. /\ Raises(sc[1], x, m) <=> x = s /\ m = "latency"
        /\ ~Clears(sc[1], x, m) /\ ~Has(sc[1], "divide", x, m)
        /\ ~Has(sc[1], "save", x, m) /\ HealthIdle(sc[1], x)
    BY <1>1 DEF MetricIdle, HealthIdle, Has, Raises, Clears, Metrics, Effect,
         Raise, OnMetric
  <2>2. /\ Raises(sc[2], x, m) <=> x = s /\ m = "latency"
        /\ ~Clears(sc[2], x, m) /\ ~Has(sc[2], "divide", x, m)
        /\ ~Has(sc[2], "save", x, m) /\ HealthIdle(sc[2], x)
    BY <1>1 DEF MetricIdle, HealthIdle, Has, Raises, Clears, Metrics, Effect,
         Raise, OnMetric
  <2>3. /\ MetricIdle(sc[3], x, m) /\ HealthIdle(sc[3], x)
    BY <1>1 DEF MetricIdle, HealthIdle, Has, Raises, Clears, Metrics, Effect,
         Add, OnService
  <2>4. /\ MetricIdle(sc[4], x, m) /\ HealthIdle(sc[4], x)
    BY <1>1 DEF MetricIdle, HealthIdle, Has, Raises, Clears, Metrics, Effect,
         Add, OnService
  <2>5. /\ MetricIdle(sc[5], x, m) /\ HealthIdle(sc[5], x)
    BY <1>1 DEF MetricIdle, HealthIdle, Has, Raises, Clears, Metrics, Effect,
         StartLastTwo, OnService
  <2>6. /\ Clears(sc[6], x, m) <=> x = s /\ m = "latency"
        /\ ~Raises(sc[6], x, m) /\ ~Has(sc[6], "divide", x, m)
        /\ ~Has(sc[6], "save", x, m) /\ HealthIdle(sc[6], x)
    BY <1>1 DEF MetricIdle, HealthIdle, Has, Raises, Clears, Metrics, Effect,
         Lower, OnMetric
  <2>7. /\ Clears(sc[7], x, m) <=> x = s /\ m = "latency"
        /\ ~Raises(sc[7], x, m) /\ ~Has(sc[7], "divide", x, m)
        /\ ~Has(sc[7], "save", x, m) /\ HealthIdle(sc[7], x)
    BY <1>1 DEF MetricIdle, HealthIdle, Has, Raises, Clears, Metrics, Effect,
         Lower, OnMetric
  <2>8. n = 1 \/ n = 2 \/ n = 3 \/ n = 4 \/ n = 5 \/ n = 6 \/ n = 7
    OBVIOUS
  <2>9. QED
    BY <2>1, <2>2, <2>3, <2>4, <2>5, <2>6, <2>7, <2>8 DEF MetricIdle, HealthIdle
<1>3. SickGetsWell(sc)
  <2>1. "latency" \in Metrics
    BY DEF Metrics
  <2>2. QED
    BY <1>1, <1>2, <2>1 DEF SickGetsWell, HealthIdle
<1>4. RaisedIsCleared(sc)
  BY <1>1, <1>2 DEF RaisedIsCleared
<1>5. DividesWhatItRaised(sc)
  BY <1>1, <1>2 DEF DividesWhatItRaised
<1>6. SavesFirst(sc)
  BY <1>1, <1>2 DEF SavesFirst
<1>7. QED
  BY <1>1, <1>3, <1>4, <1>5, <1>6 DEF WellBehaved, sc

LEMMA NetworkPartitionBehaves ==
    ASSUME NEW s \in Services PROVE WellBehaved(NetworkPartition(s))
<1> DEFINE sc == NetworkPartition(s)
<1>1. /\ Len(sc) = 2
      /\ sc[1] = {Save({s}, "errors"), Save({s}, "latency"), Sick({s}),
                  Assign({s}, "errors"), Assign({s}, "latency")}
      /\ sc[2] = {Restore({s}, "errors"), Restore({s}, "latency"), Well({s})}
  BY DEF NetworkPartition
<1> HIDE DEF sc
<1>2. ASSUME NEW x \in Services, NEW m \in Metrics, NEW n \in 1..2
      PROVE  /\ Raises(sc[n], x, m) <=> n = 1 /\ x = s
             /\ Clears(sc[n], x, m) <=> n = 2 /\ x = s
             /\ Has(sc[n], "save", x, m) <=> n = 1 /\ x = s
             /\ Has(sc[n], "sick", x, "none") <=> n = 1 /\ x = s
             /\ Has(sc[n], "well", x, "none") <=> n = 2 /\ x = s
             /\ ~Has(sc[n], "divide", x, m)
  <2>1. /\ Raises(sc[1], x, m) <=> x = s
        /\ Has(sc[1], "save", x, m) <=> x = s
        /\ Has(sc[1], "sick", x, "none") <=> x = s
        /\ ~Clears(sc[1], x, m) /\ ~Has(sc[1], "divide", x, m)
        /\ ~Has(sc[1], "well", x, "none")
        /\ Clears(sc[2], x, m) <=> x = s
        /\ Has(sc[2], "well", x, "none") <=> x = s
        /\ ~Raises(sc[2], x, m) /\ ~Has(sc[2], "divide", x, m)
        /\ ~Has(sc[2], "save", x, m) /\ ~Has(sc[2], "sick", x, "none")
    BY <1>1 DEF MetricIdle, HealthIdle, Has, Raises, Clears, Metrics, Effect,
         Save, OnMetric, Sick, OnService, Assign, Restore, Well
  <2>2. n = 1 \/ n = 2
    OBVIOUS
  <2>3. QED
    BY <2>1, <2>2
<1>3. SickGetsWell(sc)
  <2>1. "latency" \in Metrics
    BY DEF Metrics
  <2>2. QED
    BY <1>1, <1>2, <2>1 DEF SickGetsWell
<1>4. RaisedIsCleared(sc)
  BY <1>1, <1>2 DEF RaisedIsCleared
<1>5. DividesWhatItRaised(sc)
  BY <1>1, <1>2 DEF DividesWhatItRaised
<1>6. SavesFirst(sc)
  BY <1>1, <1>2 DEF SavesFirst
<1>7. QED
  BY <1>1, <1>3, <1>4, <1>5, <1>6 DEF WellBehaved, sc

LEMMA ApiErrorsBehaves ==
    ASSUME NEW S \in SUBSET Services PROVE WellBehaved(ApiErrors(S))
<1> DEFINE sc == ApiErrors(S)
<1>1. /\ Len(sc) = 2
      /\ sc[1] = {Sick(S), Save(S, "errors"), Assign(S, "errors")}
      /\ sc[2] = {Restore(S, "errors"), Well(S)}
  BY DEF ApiErrors
<1> HIDE DEF sc
<1>2. ASSUME NEW x \in Services, NEW m \in Metrics, NEW n \in 1..2
      PROVE  /\ Raises(sc[n], x, m) <=> n = 1 /\ x \in S /\ m = "errors"
             /\ Clears(sc[n], x, m) <=> n = 2 /\ x \in S /\ m = "errors"
             /\ Has(sc[n], "save", x, m) <=> n = 1 /\ x \in S /\ m = "errors"
             /\ Has(sc[n], "sick", x, "none") <=> n = 1 /\ x \in S
             /\ Has(sc[n], "well", x, "none") <=> n = 2 /\ x \in S
             /\ ~Has(sc[n], "divide", x, m)
  <2>1. /\ Raises(sc[1], x, m) <=> x \in S /\ m = "errors"
        /\ Has(sc[1], "save", x, m) <=> x \in S /\ m = "errors"
        /\ Has(sc[1], "sick", x, "none") <=> x \in S
        /\ ~Clears(sc[1], x, m) /\ ~Has(sc[1], "divide", x, m)
        /\ ~Has(sc[1], "well", x, "none")
        /\ Clears(sc[2], x, m) <=> x \in S /\ m = "errors"
        /\ Has(sc[2], "well", x, "none") <=> x \in S
        /\ ~Raises(sc[2], x, m) /\ ~Has(sc[2], "divide", x, m)
        /\ ~Has(sc[2], "save", x, m) /\ ~Has(sc[2], "sick", x, "none")
    BY <1>1 DEF MetricIdle, HealthIdle, Has, Raises, Clears, Metrics, Effect,
         Sick, OnService, Save, OnMetric, Assign, Restore, Well
  <2>2. n = 1 \/ n = 2
    OBVIOUS
  <2>3. QED
    BY <2>1, <2>2
<1>3. SickGetsWell(sc)
  <2>1. "latency" \in Metrics
    BY DEF Metrics
  <2>2. QED
    BY <1>1, <1>2, <2>1 DEF SickGetsWell
<1>4. RaisedIsCleared(sc)
  BY <1>1, <1>2 DEF RaisedIsCleared
<1>5. DividesWhatItRaised(sc)
  BY <1>1, <1>2 DEF DividesWhatItRaised
<1>6. SavesFirst(sc)
  BY <1>1, <1>2 DEF SavesFirst
<1>7. QED
  BY <1>1, <1>3, <1>4, <1>5, <1>6 DEF WellBehaved, sc

LEMMA RegionOutageBehaves == WellBehaved(RegionOutage)
<1> DEFINE sc == RegionOutage
<1>1. /\ Len(sc) = 2
      /\ sc[1] = {Cut(Services), Sick(Services), Raise(Services, "latency")}
      /\ sc[2] = {Refill(Services), Well(Services), Divide(Services, "latency")}
  BY DEF RegionOutage
<1> HIDE DEF sc
<1>2. ASSUME NEW x \in Services, NEW m \in Metrics, NEW n \in 1..2
      PROVE  /\ Raises(sc[n], x, m) <=> n = 1 /\ m = "latency"
             /\ Clears(sc[n], x, m) <=> n = 2 /\ m = "latency"
             /\ Has(sc[n], "divide", x, m) <=> n = 2 /\ m = "latency"
             /\ Has(sc[n], "sick", x, "none") <=> n = 1
             /\ Has(sc[n], "well", x, "none") <=> n = 2
             /\ ~Has(sc[n], "save", x, m)
  <2>1. /\ Raises(sc[1], x, m) <=> m = "latency"
        /\ ~Clears(sc[1], x, m) /\ ~Has(sc[1], "divide", x, m)
        /\ ~Has(sc[1], "save", x, m) /\ Has(sc[1], "sick", x, "none")
        /\ ~Has(sc[1], "well", x, "none")
        /\ Clears(sc[2], x, m) <=> m = "latency"
        /\ Has(sc[2], "divide", x, m) <=> m = "latency"
        /\ ~Raises(sc[2], x, m) /\ ~Has(sc[2], "save", x, m)
        /\ ~Has(sc[2], "sick", x, "none") /\ Has(sc[2], "well", x, "none")
    BY <1>1 DEF MetricIdle, HealthIdle, Has, Raises, Clears, Metrics, Effect,
         Cut, OnService, Sick, Raise, OnMetric, Refill, Well, Divide
  <2>2. n = 1 \/ n = 2
    OBVIOUS
  <2>3. QED
    BY <2>1, <2>2
<1>3. SickGetsWell(sc)
  <2>1. "latency" \in Metrics
    BY DEF Metrics
  <2>2. QED
    BY <1>1, <1>2, <2>1 DEF SickGetsWell
<1>4. RaisedIsCleared(sc)
  BY <1>1, <1>2 DEF RaisedIsCleared
<1>5. DividesWhatItRaised(sc)
  BY <1>1, <1>2 DEF DividesWhatItRaised
<1>6. SavesFirst(sc)
  BY <1>1, <1>2 DEF SavesFirst
<1>7. QED
  BY <1>1, <1>3, <1>4, <1>5, <1>6 DEF WellBehaved, sc

LEMMA RedisFailureBehaves == WellBehaved(RedisFailure)
<1> DEFINE sc == RedisFailure
<1>1. /\ Len(sc) = 2
      /\ sc[1] = {Save(Services, "latency"), Raise(Services, "latency")}
      /\ sc[2] = {Restore(Services, "latency")}
  BY DEF RedisFailure
<1> HIDE DEF sc
<1>2. ASSUME NEW x \in Services, NEW m \in Metrics, NEW n \in 1..2
      PROVE  /\ Raises(sc[n], x, m) <=> n = 1 /\ m = "latency"
             /\ Clears(sc[n], x, m) <=> n = 2 /\ m = "latency"
             /\ Has(sc[n], "save", x, m) <=> n = 1 /\ m = "latency"
             /\ ~Has(sc[n], "divide", x, m) /\ HealthIdle(sc[n], x)
  <2>1. /\ Raises(sc[1], x, m) <=> m = "latency"
        /\ Has(sc[1], "save", x, m) <=> m = "latency"
        /\ ~Clears(sc[1], x, m) /\ ~Has(sc[1], "divide", x, m)
        /\ HealthIdle(sc[1], x)
        /\ Clears(sc[2], x, m) <=> m = "latency"
        /\ ~Raises(sc[2], x, m) /\ ~Has(sc[2], "divide", x, m)
        /\ ~Has(sc[2], "save", x, m) /\ HealthIdle(sc[2], x)
    BY <1>1 DEF MetricIdle, HealthIdle, Has, Raises, Clears, Metrics, Effect,
         Save, OnMetric, Raise, Restore
  <2>2. n = 1 \/ n = 2
    OBVIOUS
  <2>3. QED
    BY <2>1, <2>2 DEF MetricIdle, HealthIdle
<1>3. SickGetsWell(sc)
  <2>1. "latency" \in Metrics
    BY DEF Metrics
  <2>2. QED
    BY <1>1, <1>2, <2>1 DEF SickGetsWell, HealthIdle
<1>4. RaisedIsCleared(sc)
  BY <1>1, <1>2 DEF RaisedIsCleared
<1>5. DividesWhatItRaised(sc)
  BY <1>1, <1>2 DEF DividesWhatItRaised
<1>6. SavesFirst(sc)
  BY <1>1, <1>2 DEF SavesFirst
<1>7. QED
  BY <1>1, <1>3, <1>4, <1>5, <1>6 DEF WellBehaved, sc

LEMMA DbFailureBehaves == WellBehaved(DbFailure)
<1> DEFINE sc == DbFailure
<1>1. /\ Len(sc) = 2
      /\ sc[1] = {Save({"user-service", "task-service"}, "latency"),
                  Save({"user-service", "task-service"}, "errors"),
                  Sick({"user-service", "task-service"}),
                  Assign({"user-service", "task-service"}, "errors"),
                  Raise({"user-service", "task-service"}, "latency")}
      /\ sc[2] = {Well({"user-service", "task-service"}),
                  Restore({"user-service", "task-service"}, "latency"),
                  Restore({"user-service", "task-service"}, "errors")}
  BY DEF DbFailure
<1> HIDE DEF sc
<1>2. ASSUME NEW x \in Services, NEW m \in Metrics, NEW n \in 1..2
      PROVE  /\ Raises(sc[n], x, m) <=> n = 1 /\ x \in {"user-service", "task-service"}
             /\ Clears(sc[n], x, m) <=> n = 2 /\ x \in {"user-service", "task-service"}
             /\ Has(sc[n], "save", x, m) <=> n = 1 /\ x \in {"user-service", "task-service"}
             /\ Has(sc[n], "sick", x, "none") <=> n = 1 /\ x \in {"user-service", "task-service"}
             /\ Has(sc[n], "well", x, "none") <=> n = 2 /\ x \in {"user-service", "task-service"}
             /\ ~Has(sc[n], "divide", x, m)
  <2>1. /\ Raises(sc[1], x, m) <=> x \in {"user-service", "task-service"}
        /\ Has(sc[1], "save", x, m) <=> x \in {"user-service", "task-service"}
        /\ Has(sc[1], "sick", x, "none") <=> x \in {"user-service", "task-service"}
        /\ ~Clears(sc[1], x, m) /\ ~Has(sc[1], "divide", x, m)
        /\ ~Has(sc[1], "well", x, "none")
        /\ Clears(sc[2], x, m) <=> x \in {"user-service", "task-service"}
        /\ Has(sc[2], "well", x, "none") <=> x \in {"user-service", "task-service"}
        /\ ~Raises(sc[2], x, m) /\ ~Has(sc[2], "divide", x, m)
        /\ ~Has(sc[2], "save", x, m) /\ ~Has(sc[2], "sick", x, "none")
    BY <1>1 DEF MetricIdle, HealthIdle, Has, Raises, Clears, Metrics, Effect,
         Save, OnMetric, Sick, OnService, Assign, Raise, Well, Restore
  <2>2. n = 1 \/ n = 2
    OBVIOUS
  <2>3. QED
    BY <2>1, <2>2
<1>3. SickGetsWell(sc)
  <2>1. "latency" \in Metrics
    BY DEF Metrics
  <2>2. QED
    BY <1>1, <1>2, <2>1 DEF SickGetsWell
<1>4. RaisedIsCleared(sc)
  BY <1>1, <1>2 DEF RaisedIsCleared
<1>5. DividesWhatItRaised(sc)
  BY <1>1, <1>2 DEF DividesWhatItRaised
<1>6. SavesFirst(sc)
  BY <1>1, <1>2 DEF SavesFirst
<1>7. QED
  BY <1>1, <1>3, <1>4, <1>5, <1>6 DEF WellBehaved, sc

LEMMA SlowNetworkBehaves == WellBehaved(SlowNetwork)
<1> DEFINE sc == SlowNetwork
<1>1. /\ Len(sc) = 3
      /\ sc[1] = {Save(Services, "latency"), Raise(Services, "latency")}
      /\ sc[2] = {Raise(Services, "errors")}
      /\ sc[3] = {Restore(Services, "latency"), Lower(Services, "errors")}
  BY DEF SlowNetwork
<1> HIDE DEF sc
<1>2. ASSUME NEW x \in Services, NEW m \in Metrics, NEW n \in 1..3
      PROVE  /\ Raises(sc[n], x, m) <=>
                \/ n = 1 /\ m = "latency"
                \/ n = 2 /\ m = "errors"
             /\ Clears(sc[n], x, m) <=> n = 3
             /\ Has(sc[n], "save", x, m) <=> n = 1 /\ m = "latency"
             /\ ~Has(sc[n], "divide", x, m) /\ HealthIdle(sc[n], x)
  <2>1. /\ Raises(sc[1], x, m) <=> m = "latency"
        /\ Has(sc[1], "save", x, m) <=> m = "latency"
        /\ ~Clears(sc[1], x, m) /\ ~Has(sc[1], "divide", x, m)
        /\ HealthIdle(sc[1], x)
        /\ Raises(sc[2], x, m) <=> m = "errors"
        /\ ~Clears(sc[2], x, m) /\ ~Has(sc[2], "divide", x, m)
        /\ ~Has(sc[2], "save", x, m) /\ HealthIdle(sc[2], x)
        /\ ~Raises(sc[3], x, m) /\ Clears(sc[3], x, m)
        /\ ~Has(sc[3], "divide", x, m) /\ ~Has(sc[3], "save", x, m)
        /\ HealthIdle(sc[3], x)
    BY <1>1 DEF MetricIdle, HealthIdle, Has, Raises, Clears, Metrics, Effect,
         Save, OnMetric, Raise, Restore, Lower
  <2>2. n = 1 \/ n = 2 \/ n = 3
    OBVIOUS
  <2>3. QED
    BY <2>1, <2>2 DEF MetricIdle, HealthIdle
<1>3. SickGetsWell(sc)
  <2>1. "latency" \in Metrics
    BY DEF Metrics
  <2>2. QED
    BY <1>1, <1>2, <2>1 DEF SickGetsWell, HealthIdle
<1>4. RaisedIsCleared(sc)
  BY <1>1, <1>2 DEF RaisedIsCleared
<1>5. DividesWhatItRaised(sc)
  BY <1>1, <1>2 DEF DividesWhatItRaised
<1>6. SavesFirst(sc)
  BY <1>1, <1>2 DEF SavesFirst
<1>7. QED
  BY <1>1, <1>3, <1>4, <1>5, <1>6 DEF WellBehaved, sc

LEMMA MemoryLeakBehaves ==
    ASSUME NEW s \in Services PROVE WellBehaved(MemoryLeak(s))
<1> DEFINE sc == MemoryLeak(s)
<1>1. /\ Len(sc) = 5
      /\ sc[1] = {Pick(s)}
      /\ sc[2] = {Save({s}, "latency"), Raise({s}, "latency")}
      /\ sc[3] = {Stop(s), Sick({s})}
      /\ sc[4] = {Add(s)}
      /\ sc[5] = {Replace(s), Restore({s}, "latency"), Well({s})}
  BY DEF MemoryLeak
<1> HIDE DEF sc
<1>2. ASSUME NEW x \in Services, NEW m \in Metrics, NEW n \in 1..5
      PROVE  /\ Raises(sc[n], x, m) <=> n = 2 /\ x = s /\ m = "latency"
             /\ Clears(sc[n], x, m) <=> n = 5 /\ x = s /\ m = "latency"
             /\ Has(sc[n], "save", x, m) <=> n = 2 /\ x = s /\ m = "latency"
             /\ Has(sc[n], "sick", x, "none") <=> n = 3 /\ x = s
             /\ Has(sc[n], "well", x, "none") <=> n = 5 /\ x = s
             /\ ~Has(sc[n], "divide", x, m)
  <2>1. /\ MetricIdle(sc[1], x, m) /\ HealthIdle(sc[1], x)
        /\ Raises(sc[2], x, m) <=> x = s /\ m = "latency"
        /\ Has(sc[2], "save", x, m) <=> x = s /\ m = "latency"
        /\ ~Clears(sc[2], x, m) /\ ~Has(sc[2], "divide", x, m)
        /\ HealthIdle(sc[2], x)
        /\ Has(sc[3], "sick", x, "none") <=> x = s
        /\ MetricIdle(sc[3], x, m) /\ ~Has(sc[3], "well", x, "none")
        /\ MetricIdle(sc[4], x, m) /\ HealthIdle(sc[4], x)
        /\ Clears(sc[5], x, m) <=> x = s /\ m = "latency"
        /\ Has(sc[5], "well", x, "none") <=> x = s
        /\ ~Raises(sc[5], x, m) /\ ~Has(sc[5], "divide", x, m)
        /\ ~Has(sc[5], "save", x, m) /\ ~Has(sc[5], "sick", x, "none")
    BY <1>1 DEF MetricIdle, HealthIdle, Has, Raises, Clears, Metrics, Effect,
         Pick, OnService, Save, OnMetric, Raise, Stop, Sick, Add, Replace,
         Restore, Well
  <2>2. n = 1 \/ n = 2 \/ n = 3 \/ n = 4 \/ n = 5
    OBVIOUS
  <2>3. QED
    BY <2>1, <2>2 DEF MetricIdle, HealthIdle
<1>3. SickGetsWell(sc)
  <2>1. "latency" \in Metrics
    BY DEF Metrics
  <2>2. QED
    BY <1>1, <1>2, <2>1 DEF SickGetsWell
<1>4. RaisedIsCleared(sc)
  BY <1>1, <1>2 DEF RaisedIsCleared
<1>5. DividesWhatItRaised(sc)
  BY <1>1, <1>2 DEF DividesWhatItRaised
<1>6. SavesFirst(sc)
  BY <1>1, <1>2 DEF SavesFirst
<1>7. QED
  BY <1>1, <1>3, <1>4, <1>5, <1>6 DEF WellBehaved, sc

LEMMA DnsFailureBehaves == WellBehaved(DnsFailure)
<1> DEFINE sc == DnsFailure
<1>1. /\ Len(sc) = 2
      /\ sc[1] = {Raise(Services, "errors")}
      /\ sc[2] = {Lower(Services, "errors")}
  BY DEF DnsFailure
<1> HIDE DEF sc
<1>2. ASSUME NEW x \in Services, NEW m \in Metrics, NEW n \in 1..2
      PROVE  /\ Raises(sc[n], x, m) <=> n = 1 /\ m = "errors"
             /\ Clears(sc[n], x, m) <=> n = 2 /\ m = "errors"
             /\ ~Has(sc[n], "divide", x, m) /\ ~Has(sc[n], "save", x, m)
             /\ HealthIdle(sc[n], x)
  <2>1. /\ Raises(sc[1], x, m) <=> m = "errors"
        /\ ~Clears(sc[1], x, m) /\ ~Has(sc[1], "divide", x, m)
        /\ ~Has(sc[1], "save", x, m) /\ HealthIdle(sc[1], x)
        /\ Clears(sc[2], x, m) <=> m = "errors"
        /\ ~Raises(sc[2], x, m) /\ ~Has(sc[2], "divide", x, m)
        /\ ~Has(sc[2], "save", x, m) /\ HealthIdle(sc[2], x)
    BY <1>1 DEF MetricIdle, HealthIdle, Has, Raises, Clears, Metrics, Effect,
         Raise, OnMetric, Lower
  <2>2. n = 1 \/ n = 2
    OBVIOUS
  <2>3. QED
    BY <2>1, <2>2 DEF MetricIdle, HealthIdle
<1>3. SickGetsWell(sc)
  <2>1. "latency" \in Metrics
    BY DEF Metrics
  <2>2. QED
    BY <1>1, <1>2, <2>1 DEF SickGetsWell, HealthIdle
<1>4. RaisedIsCleared(sc)
  BY <1>1, <1>2 DEF RaisedIsCleared
<1>5. DividesWhatItRaised(sc)
  BY <1>1, <1>2 DEF DividesWhatItRaised
<1>6. SavesFirst(sc)
  BY <1>1, <1>2 DEF SavesFirst
<1>7. QED
  BY <1>1, <1>3, <1>4, <1>5, <1>6 DEF WellBehaved, sc

LEMMA CascadingFailureBehaves == WellBehaved(CascadingFailure)
<1> DEFINE sc == CascadingFailure
<1>1. /\ Len(sc) = 4
      /\ sc[1] = {Sick({"user-service"}), Assign({"user-service"}, "errors"),
                  Raise({"user-service"}, "latency")}
      /\ sc[2] = {Assign({"task-service"}, "errors"),
                  Raise({"task-service"}, "latency")}
      /\ sc[3] = {Assign({"api-gateway"}, "errors")}
      /\ sc[4] = {Well({"user-service"}),
                  Divide({"user-service", "task-service"}, "latency"),
                  Reset({"user-service", "task-service", "api-gateway"}, "errors")}
  BY DEF CascadingFailure
<1> HIDE DEF sc
<1>2. ASSUME NEW x \in Services, NEW m \in Metrics, NEW n \in 1..4
      PROVE  /\ Raises(sc[n], x, m) <=>
                \/ n = 1 /\ x = "user-service"
                \/ n = 2 /\ x = "task-service"
                \/ n = 3 /\ x = "api-gateway" /\ m = "errors"
             /\ Clears(sc[n], x, m) <=> n = 4 /\ ((x \in {"user-service", "task-service"} /\ m = "latency") \/ (x \in {"user-service", "task-service", "api-gateway"} /\ m = "errors"))
             /\ Has(sc[n], "divide", x, m) <=> n = 4 /\ x \in {"user-service", "task-service"} /\ m = "latency"
             /\ Has(sc[n], "sick", x, "none") <=> n = 1 /\ x = "user-service"
             /\ Has(sc[n], "well", x, "none") <=> n = 4 /\ x = "user-service"
             /\ ~Has(sc[n], "save", x, m)
  <2>1. /\ Raises(sc[1], x, m) <=> x = "user-service"
        /\ Has(sc[1], "sick", x, "none") <=> x = "user-service"
        /\ ~Clears(sc[1], x, m) /\ ~Has(sc[1], "divide", x, m)
        /\ ~Has(sc[1], "save", x, m) /\ ~Has(sc[1], "well", x, "none")
        /\ Raises(sc[2], x, m) <=> x = "task-service"
        /\ ~Clears(sc[2], x, m) /\ ~Has(sc[2], "divide", x, m)
        /\ ~Has(sc[2], "save", x, m) /\ HealthIdle(sc[2], x)
        /\ Raises(sc[3], x, m) <=> x = "api-gateway" /\ m = "errors"
        /\ ~Clears(sc[3], x, m) /\ ~Has(sc[3], "divide", x, m)
        /\ ~Has(sc[3], "save", x, m) /\ HealthIdle(sc[3], x)
        /\ Clears(sc[4], x, m) <=> (x \in {"user-service", "task-service"} /\ m = "latency") \/ (x \in {"user-service", "task-service", "api-gateway"} /\ m = "errors")
        /\ Has(sc[4], "divide", x, m) <=> x \in {"user-service", "task-service"} /\ m = "latency"
        /\ Has(sc[4], "well", x, "none") <=> x = "user-service"
        /\ ~Raises(sc[4], x, m) /\ ~Has(sc[4], "save", x, m)
        /\ ~Has(sc[4], "sick", x, "none")
    BY <1>1 DEF MetricIdle, HealthIdle, Has, Raises, Clears, Metrics, Effect,
         Sick, OnService, Assign, OnMetric, Raise, Well, Divide, Reset
  <2>2. n = 1 \/ n = 2 \/ n = 3 \/ n = 4
    OBVIOUS
  <2>3. QED
    BY <2>1, <2>2 DEF MetricIdle, HealthIdle
<1>3. SickGetsWell(sc)
  <2>1. "latency" \in Metrics
    BY DEF Metrics
  <2>2. QED
    BY <1>1, <1>2, <2>1 DEF SickGetsWell
<1>4. RaisedIsCleared(sc)
  <2>1. ASSUME NEW n \in 1..4, NEW x \in Services, NEW m \in Metrics,
               Raises(sc[n], x, m)
        PROVE  n < 4 /\ Clears(sc[4], x, m) /\ ~Raises(sc[4], x, m)
    BY <1>2, <2>1 DEF Metrics
  <2>2. Len(sc) = 4
    BY <1>1
  <2>3. ASSUME NEW n \in 1..4 PROVE n < 4 => 4 \in (n + 1)..4
    OBVIOUS
  <2>4. QED
    BY <2>1, <2>2, <2>3 DEF RaisedIsCleared
<1>5. DividesWhatItRaised(sc)
  BY <1>1, <1>2 DEF DividesWhatItRaised
<1>6. SavesFirst(sc)
  BY <1>1, <1>2 DEF SavesFirst
<1>7. QED
  BY <1>1, <1>3, <1>4, <1>5, <1>6 DEF WellBehaved, sc

LEMMA DiskFullBehaves ==
    ASSUME NEW s \in Services PROVE WellBehaved(DiskFull(s))
<1> DEFINE sc == DiskFull(s)
<1>1. /\ Len(sc) = 5
      /\ sc[1] = {Pick(s)}
      /\ sc[2] = {Save({s}, "errors"), Assign({s}, "errors")}
      /\ sc[3] = {Stop(s), Sick({s})}
      /\ sc[4] = {Add(s)}
      /\ sc[5] = {Replace(s), Restore({s}, "errors"), Well({s})}
  BY DEF DiskFull
<1> HIDE DEF sc
<1>2. ASSUME NEW x \in Services, NEW m \in Metrics, NEW n \in 1..5
      PROVE  /\ Raises(sc[n], x, m) <=> n = 2 /\ x = s /\ m = "errors"
             /\ Clears(sc[n], x, m) <=> n = 5 /\ x = s /\ m = "errors"
             /\ Has(sc[n], "save", x, m) <=> n = 2 /\ x = s /\ m = "errors"
             /\ Has(sc[n], "sick", x, "none") <=> n = 3 /\ x = s
             /\ Has(sc[n], "well", x, "none") <=> n = 5 /\ x = s
             /\ ~Has(sc[n], "divide", x, m)
  <2>1. /\ MetricIdle(sc[1], x, m) /\ HealthIdle(sc[1], x)
        /\ Raises(sc[2], x, m) <=> x = s /\ m = "errors"
        /\ Has(sc[2], "save", x, m) <=> x = s /\ m = "errors"
        /\ ~Clears(sc[2], x, m) /\ ~Has(sc[2], "divide", x, m)
        /\ HealthIdle(sc[2], x)
        /\ Has(sc[3], "sick", x, "none") <=> x = s
        /\ MetricIdle(sc[3], x, m) /\ ~Has(sc[3], "well", x, "none")
        /\ MetricIdle(sc[4], x, m) /\ HealthIdle(sc[4], x)
        /\ Clears(sc[5], x, m) <=> x = s /\ m = "errors"
        /\ Has(sc[5], "well", x, "none") <=> x = s
        /\ ~Raises(sc[5], x, m) /\ ~Has(sc[5], "divide", x, m)
        /\ ~Has(sc[5], "save", x, m) /\ ~Has(sc[5], "sick", x, "none")
    BY <1>1 DEF MetricIdle, HealthIdle, Has, Raises, Clears, Metrics, Effect,
         Pick, OnService, Save, OnMetric, Assign, Stop, Sick, Add, Replace,
         Restore, Well
  <2>2. n = 1 \/ n = 2 \/ n = 3 \/ n = 4 \/ n = 5
    OBVIOUS
  <2>3. QED
    BY <2>1, <2>2 DEF MetricIdle, HealthIdle
<1>3. SickGetsWell(sc)
  <2>1. "latency" \in Metrics
    BY DEF Metrics
  <2>2. QED
    BY <1>1, <1>2, <2>1 DEF SickGetsWell
<1>4. RaisedIsCleared(sc)
  BY <1>1, <1>2 DEF RaisedIsCleared
<1>5. DividesWhatItRaised(sc)
  BY <1>1, <1>2 DEF DividesWhatItRaised
<1>6. SavesFirst(sc)
  BY <1>1, <1>2 DEF SavesFirst
<1>7. QED
  BY <1>1, <1>3, <1>4, <1>5, <1>6 DEF WellBehaved, sc

LEMMA GcPauseBehaves == ASSUME NEW s \in Services PROVE WellBehaved(GcPause(s))
<1> DEFINE sc == GcPause(s)
<1>1. /\ Len(sc) = 3
      /\ sc[1] = {Save({s}, "latency"), Raise({s}, "latency")}
      /\ sc[2] = {RaiseAnew({s}, "latency")}
      /\ sc[3] = {Restore({s}, "latency")}
  BY DEF GcPause
<1> HIDE DEF sc
<1>2. ASSUME NEW x \in Services, NEW m \in Metrics, NEW n \in 1..3
      PROVE  /\ Raises(sc[n], x, m) <=>
                \/ n = 1 /\ x = s /\ m = "latency"
                \/ n = 2 /\ x = s /\ m = "latency"
             /\ Clears(sc[n], x, m) <=> n = 3 /\ x = s /\ m = "latency"
             /\ Has(sc[n], "save", x, m) <=> n = 1 /\ x = s /\ m = "latency"
             /\ ~Has(sc[n], "divide", x, m) /\ HealthIdle(sc[n], x)
  <2>1. /\ Raises(sc[1], x, m) <=> x = s /\ m = "latency"
        /\ Has(sc[1], "save", x, m) <=> x = s /\ m = "latency"
        /\ ~Clears(sc[1], x, m) /\ ~Has(sc[1], "divide", x, m)
        /\ HealthIdle(sc[1], x)
    BY <1>1 DEF MetricIdle, HealthIdle, Has, Raises, Clears, Metrics, Effect,
         Save, OnMetric, Raise
  <2>2. /\ Raises(sc[2], x, m) <=> x = s /\ m = "latency"
        /\ ~Clears(sc[2], x, m) /\ ~Has(sc[2], "divide", x, m)
        /\ ~Has(sc[2], "save", x, m) /\ HealthIdle(sc[2], x)
    BY <1>1 DEF MetricIdle, HealthIdle, Has, Raises, Clears, Metrics, Effect,
         RaiseAnew, OnMetric
  <2>3. /\ Clears(sc[3], x, m) <=> x = s /\ m = "latency"
        /\ ~Raises(sc[3], x, m) /\ ~Has(sc[3], "divide", x, m)
        /\ ~Has(sc[3], "save", x, m) /\ HealthIdle(sc[3], x)
    BY <1>1 DEF MetricIdle, HealthIdle, Has, Raises, Clears, Metrics, Effect,
         Restore, OnMetric
  <2>4. n = 1 \/ n = 2 \/ n = 3
    OBVIOUS
  <2>5. QED
    BY <2>1, <2>2, <2>3, <2>4 DEF MetricIdle, HealthIdle
<1>3. SickGetsWell(sc)
  <2>1. "latency" \in Metrics
    BY DEF Metrics
  <2>2. QED
    BY <1>1, <1>2, <2>1 DEF SickGetsWell, HealthIdle
<1>4. RaisedIsCleared(sc)
  BY <1>1, <1>2 DEF RaisedIsCleared
<1>5. DividesWhatItRaised(sc)
  BY <1>1, <1>2 DEF DividesWhatItRaised
<1>6. SavesFirst(sc)
  BY <1>1, <1>2 DEF SavesFirst
<1>7. QED
  BY <1>1, <1>3, <1>4, <1>5, <1>6 DEF WellBehaved, sc

LEMMA ThunderingHerdBehaves == WellBehaved(ThunderingHerd)
<1> DEFINE sc == ThunderingHerd
<1>1. /\ Len(sc) = 4
      /\ sc[1] = {Save({"user-service"}, "errors"),
                  Assign({"user-service"}, "errors")}
      /\ sc[2] = {Restore({"user-service"}, "errors")}
      /\ sc[3] = {Assign({"user-service"}, "errors"),
                  Raise({"user-service", "api-gateway"}, "latency")}
      /\ sc[4] = {Restore({"user-service"}, "errors"),
                  Divide({"user-service", "api-gateway"}, "latency")}
  BY DEF ThunderingHerd
<1> HIDE DEF sc
<1>2. ASSUME NEW x \in Services, NEW m \in Metrics, NEW n \in 1..4
      PROVE  /\ Raises(sc[n], x, m) <=>
                \/ n = 1 /\ x = "user-service" /\ m = "errors"
                \/ n = 3 /\ ((x = "user-service" /\ m = "errors") \/ (x \in {"user-service", "api-gateway"} /\ m = "latency"))
             /\ Clears(sc[n], x, m) <=>
                \/ n = 2 /\ x = "user-service" /\ m = "errors"
                \/ n = 4 /\ ((x = "user-service" /\ m = "errors") \/ (x \in {"user-service", "api-gateway"} /\ m = "latency"))
             /\ Has(sc[n], "divide", x, m) <=> n = 4 /\ x \in {"user-service", "api-gateway"} /\ m = "latency"
             /\ Has(sc[n], "save", x, m) <=> n = 1 /\ x = "user-service" /\ m = "errors"
             /\ HealthIdle(sc[n], x)
  <2>1. /\ Raises(sc[1], x, m) <=> x = "user-service" /\ m = "errors"
        /\ Has(sc[1], "save", x, m) <=> x = "user-service" /\ m = "errors"
        /\ ~Clears(sc[1], x, m) /\ ~Has(sc[1], "divide", x, m)
        /\ HealthIdle(sc[1], x)
        /\ Clears(sc[2], x, m) <=> x = "user-service" /\ m = "errors"
        /\ ~Raises(sc[2], x, m) /\ ~Has(sc[2], "divide", x, m)
        /\ ~Has(sc[2], "save", x, m) /\ HealthIdle(sc[2], x)
        /\ Raises(sc[3], x, m) <=> (x = "user-service" /\ m = "errors") \/ (x \in {"user-service", "api-gateway"} /\ m = "latency")
        /\ ~Clears(sc[3], x, m) /\ ~Has(sc[3], "divide", x, m)
        /\ ~Has(sc[3], "save", x, m) /\ HealthIdle(sc[3], x)
        /\ Clears(sc[4], x, m) <=> (x = "user-service" /\ m = "errors") \/ (x \in {"user-service", "api-gateway"} /\ m = "latency")
        /\ Has(sc[4], "divide", x, m) <=> x \in {"user-service", "api-gateway"} /\ m = "latency"
        /\ ~Raises(sc[4], x, m) /\ ~Has(sc[4], "save", x, m)
        /\ HealthIdle(sc[4], x)
    BY <1>1 DEF MetricIdle, HealthIdle, Has, Raises, Clears, Metrics, Effect,
         Save, OnMetric, Assign, Restore, Raise, Divide
  <2>2. n = 1 \/ n = 2 \/ n = 3 \/ n = 4
    OBVIOUS
  <2>3. QED
    BY <2>1, <2>2 DEF MetricIdle, HealthIdle
<1>3. SickGetsWell(sc)
  <2>1. "latency" \in Metrics
    BY DEF Metrics
  <2>2. QED
    BY <1>1, <1>2, <2>1 DEF SickGetsWell, HealthIdle
<1>4. RaisedIsCleared(sc)
  BY <1>1, <1>2 DEF RaisedIsCleared
<1>5. DividesWhatItRaised(sc)
  BY <1>1, <1>2 DEF DividesWhatItRaised
<1>6. SavesFirst(sc)
  BY <1>1, <1>2 DEF SavesFirst
<1>7. QED
  BY <1>1, <1>3, <1>4, <1>5, <1>6 DEF WellBehaved, sc

LEMMA NoisyNeighborBehaves == WellBehaved(NoisyNeighbor)
<1> DEFINE sc == NoisyNeighbor
<1>1. /\ Len(sc) = 2
      /\ sc[1] = {Save({"task-service", "notification-service"}, "latency"),
                  Raise({"task-service", "notification-service"}, "latency")}
      /\ sc[2] = {Restore({"task-service", "notification-service"}, "latency")}
  BY DEF NoisyNeighbor
<1> HIDE DEF sc
<1>2. ASSUME NEW x \in Services, NEW m \in Metrics, NEW n \in 1..2
      PROVE  /\ Raises(sc[n], x, m) <=> n = 1 /\ x \in {"task-service", "notification-service"} /\ m = "latency"
             /\ Clears(sc[n], x, m) <=> n = 2 /\ x \in {"task-service", "notification-service"} /\ m = "latency"
             /\ Has(sc[n], "save", x, m) <=> n = 1 /\ x \in {"task-service", "notification-service"} /\ m = "latency"
             /\ ~Has(sc[n], "divide", x, m) /\ HealthIdle(sc[n], x)
  <2>1. /\ Raises(sc[1], x, m) <=> x \in {"task-service", "notification-service"} /\ m = "latency"
        /\ Has(sc[1], "save", x, m) <=> x \in {"task-service", "notification-service"} /\ m = "latency"
        /\ ~Clears(sc[1], x, m) /\ ~Has(sc[1], "divide", x, m)
        /\ HealthIdle(sc[1], x)
        /\ Clears(sc[2], x, m) <=> x \in {"task-service", "notification-service"} /\ m = "latency"
        /\ ~Raises(sc[2], x, m) /\ ~Has(sc[2], "divide", x, m)
        /\ ~Has(sc[2], "save", x, m) /\ HealthIdle(sc[2], x)
    BY <1>1 DEF MetricIdle, HealthIdle, Has, Raises, Clears, Metrics, Effect,
         Save, OnMetric, Raise, Restore
  <2>2. n = 1 \/ n = 2
    OBVIOUS
  <2>3. QED
    BY <2>1, <2>2 DEF MetricIdle, HealthIdle
<1>3. SickGetsWell(sc)
  <2>1. "latency" \in Metrics
    BY DEF Metrics
  <2>2. QED
    BY <1>1, <1>2, <2>1 DEF SickGetsWell, HealthIdle
<1>4. RaisedIsCleared(sc)
  BY <1>1, <1>2 DEF RaisedIsCleared
<1>5. DividesWhatItRaised(sc)
  BY <1>1, <1>2 DEF DividesWhatItRaised
<1>6. SavesFirst(sc)
  BY <1>1, <1>2 DEF SavesFirst
<1>7. QED
  BY <1>1, <1>3, <1>4, <1>5, <1>6 DEF WellBehaved, sc

LEMMA SpotReclaimBehaves == WellBehaved(SpotReclaim)
<1> DEFINE sc == SpotReclaim
<1>1. /\ Len(sc) = 3
      /\ sc[1] = {Pick("api-gateway"), Stop("api-gateway")}
      /\ sc[2] = {Add("api-gateway")}
      /\ sc[3] = {Replace("api-gateway")}
  BY DEF SpotReclaim
<1> HIDE DEF sc
<1>2. ASSUME NEW x \in Services, NEW m \in Metrics, NEW n \in 1..3
      PROVE  /\ MetricIdle(sc[n], x, m) /\ HealthIdle(sc[n], x)
  <2>1. /\ MetricIdle(sc[1], x, m) /\ HealthIdle(sc[1], x)
        /\ MetricIdle(sc[2], x, m) /\ HealthIdle(sc[2], x)
        /\ MetricIdle(sc[3], x, m) /\ HealthIdle(sc[3], x)
    BY <1>1 DEF MetricIdle, HealthIdle, Has, Raises, Clears, Metrics, Effect,
         Pick, OnService, Stop, Add, Replace
  <2>2. n = 1 \/ n = 2 \/ n = 3
    OBVIOUS
  <2>3. QED
    BY <2>1, <2>2 DEF MetricIdle, HealthIdle
<1>3. SickGetsWell(sc)
  <2>1. "latency" \in Metrics
    BY DEF Metrics
  <2>2. QED
    BY <1>1, <1>2, <2>1 DEF SickGetsWell, HealthIdle
<1>4. RaisedIsCleared(sc)
  BY <1>1, <1>2 DEF RaisedIsCleared, MetricIdle
<1>5. DividesWhatItRaised(sc)
  BY <1>1, <1>2 DEF DividesWhatItRaised, MetricIdle
<1>6. SavesFirst(sc)
  BY <1>1, <1>2 DEF SavesFirst, MetricIdle
<1>7. QED
  BY <1>1, <1>3, <1>4, <1>5, <1>6 DEF WellBehaved, sc

LEMMA AutoscalerStuckBehaves == WellBehaved(AutoscalerStuck)
<1> DEFINE sc == AutoscalerStuck
<1>1. /\ Len(sc) = 2
      /\ sc[1] = {Raise({"api-gateway"}, "latency"),
                  Assign({"api-gateway"}, "errors")}
      /\ sc[2] = {Divide({"api-gateway"}, "latency"),
                  Reset({"api-gateway"}, "errors")}
  BY DEF AutoscalerStuck
<1> HIDE DEF sc
<1>2. ASSUME NEW x \in Services, NEW m \in Metrics, NEW n \in 1..2
      PROVE  /\ Raises(sc[n], x, m) <=> n = 1 /\ x = "api-gateway"
             /\ Clears(sc[n], x, m) <=> n = 2 /\ x = "api-gateway"
             /\ Has(sc[n], "divide", x, m) <=> n = 2 /\ x = "api-gateway" /\ m = "latency"
             /\ ~Has(sc[n], "save", x, m) /\ HealthIdle(sc[n], x)
  <2>1. /\ Raises(sc[1], x, m) <=> x = "api-gateway"
        /\ ~Clears(sc[1], x, m) /\ ~Has(sc[1], "divide", x, m)
        /\ ~Has(sc[1], "save", x, m) /\ HealthIdle(sc[1], x)
        /\ Clears(sc[2], x, m) <=> x = "api-gateway"
        /\ Has(sc[2], "divide", x, m) <=> x = "api-gateway" /\ m = "latency"
        /\ ~Raises(sc[2], x, m) /\ ~Has(sc[2], "save", x, m)
        /\ HealthIdle(sc[2], x)
    BY <1>1 DEF MetricIdle, HealthIdle, Has, Raises, Clears, Metrics, Effect,
         Raise, OnMetric, Assign, Divide, Reset
  <2>2. n = 1 \/ n = 2
    OBVIOUS
  <2>3. QED
    BY <2>1, <2>2 DEF MetricIdle, HealthIdle
<1>3. SickGetsWell(sc)
  <2>1. "latency" \in Metrics
    BY DEF Metrics
  <2>2. QED
    BY <1>1, <1>2, <2>1 DEF SickGetsWell, HealthIdle
<1>4. RaisedIsCleared(sc)
  BY <1>1, <1>2 DEF RaisedIsCleared
<1>5. DividesWhatItRaised(sc)
  BY <1>1, <1>2 DEF DividesWhatItRaised
<1>6. SavesFirst(sc)
  BY <1>1, <1>2 DEF SavesFirst
<1>7. QED
  BY <1>1, <1>3, <1>4, <1>5, <1>6 DEF WellBehaved, sc

LEMMA SecretLeakBehaves == WellBehaved(SecretLeak)
<1> DEFINE sc == SecretLeak
<1>1. /\ Len(sc) = 2
      /\ sc[1] = {Sick({"user-service"})}
      /\ sc[2] = {Well({"user-service"})}
  BY DEF SecretLeak
<1> HIDE DEF sc
<1>2. ASSUME NEW x \in Services, NEW m \in Metrics, NEW n \in 1..2
      PROVE  /\ Has(sc[n], "sick", x, "none") <=> n = 1 /\ x = "user-service"
             /\ Has(sc[n], "well", x, "none") <=> n = 2 /\ x = "user-service"
             /\ MetricIdle(sc[n], x, m)
  <2>1. /\ Has(sc[1], "sick", x, "none") <=> x = "user-service"
        /\ MetricIdle(sc[1], x, m) /\ ~Has(sc[1], "well", x, "none")
        /\ Has(sc[2], "well", x, "none") <=> x = "user-service"
        /\ MetricIdle(sc[2], x, m) /\ ~Has(sc[2], "sick", x, "none")
    BY <1>1 DEF MetricIdle, HealthIdle, Has, Raises, Clears, Metrics, Effect,
         Sick, OnService, Well
  <2>2. n = 1 \/ n = 2
    OBVIOUS
  <2>3. QED
    BY <2>1, <2>2 DEF MetricIdle, HealthIdle
<1>3. SickGetsWell(sc)
  <2>1. "latency" \in Metrics
    BY DEF Metrics
  <2>2. QED
    BY <1>1, <1>2, <2>1 DEF SickGetsWell
<1>4. RaisedIsCleared(sc)
  BY <1>1, <1>2 DEF RaisedIsCleared, MetricIdle
<1>5. DividesWhatItRaised(sc)
  BY <1>1, <1>2 DEF DividesWhatItRaised, MetricIdle
<1>6. SavesFirst(sc)
  BY <1>1, <1>2 DEF SavesFirst, MetricIdle
<1>7. QED
  BY <1>1, <1>3, <1>4, <1>5, <1>6 DEF WellBehaved, sc

LEMMA ServiceMeshCrashBehaves ==
    ASSUME NEW s \in Services PROVE WellBehaved(ServiceMeshCrash(s))
<1> DEFINE sc == ServiceMeshCrash(s)
<1>1. /\ Len(sc) = 2
      /\ sc[1] = {Save({s}, "errors"), Assign({s}, "errors")}
      /\ sc[2] = {Restore({s}, "errors")}
  BY DEF ServiceMeshCrash
<1> HIDE DEF sc
<1>2. ASSUME NEW x \in Services, NEW m \in Metrics, NEW n \in 1..2
      PROVE  /\ Raises(sc[n], x, m) <=> n = 1 /\ x = s /\ m = "errors"
             /\ Clears(sc[n], x, m) <=> n = 2 /\ x = s /\ m = "errors"
             /\ Has(sc[n], "save", x, m) <=> n = 1 /\ x = s /\ m = "errors"
             /\ ~Has(sc[n], "divide", x, m) /\ HealthIdle(sc[n], x)
  <2>1. /\ Raises(sc[1], x, m) <=> x = s /\ m = "errors"
        /\ Has(sc[1], "save", x, m) <=> x = s /\ m = "errors"
        /\ ~Clears(sc[1], x, m) /\ ~Has(sc[1], "divide", x, m)
        /\ HealthIdle(sc[1], x)
        /\ Clears(sc[2], x, m) <=> x = s /\ m = "errors"
        /\ ~Raises(sc[2], x, m) /\ ~Has(sc[2], "divide", x, m)
        /\ ~Has(sc[2], "save", x, m) /\ HealthIdle(sc[2], x)
    BY <1>1 DEF MetricIdle, HealthIdle, Has, Raises, Clears, Metrics, Effect,
         Save, OnMetric, Assign, Restore
  <2>2. n = 1 \/ n = 2
    OBVIOUS
  <2>3. QED
    BY <2>1, <2>2 DEF MetricIdle, HealthIdle
<1>3. SickGetsWell(sc)
  <2>1. "latency" \in Metrics
    BY DEF Metrics
  <2>2. QED
    BY <1>1, <1>2, <2>1 DEF SickGetsWell, HealthIdle
<1>4. RaisedIsCleared(sc)
  BY <1>1, <1>2 DEF RaisedIsCleared
<1>5. DividesWhatItRaised(sc)
  BY <1>1, <1>2 DEF DividesWhatItRaised
<1>6. SavesFirst(sc)
  BY <1>1, <1>2 DEF SavesFirst
<1>7. QED
  BY <1>1, <1>3, <1>4, <1>5, <1>6 DEF WellBehaved, sc

LEMMA ThirdPartyOutageBehaves == WellBehaved(ThirdPartyOutage)
<1> DEFINE sc == ThirdPartyOutage
<1>1. /\ Len(sc) = 2
      /\ sc[1] = {Assign({"task-service"}, "errors")}
      /\ sc[2] = {Reset({"task-service"}, "errors")}
  BY DEF ThirdPartyOutage
<1> HIDE DEF sc
<1>2. ASSUME NEW x \in Services, NEW m \in Metrics, NEW n \in 1..2
      PROVE  /\ Raises(sc[n], x, m) <=> n = 1 /\ x = "task-service" /\ m = "errors"
             /\ Clears(sc[n], x, m) <=> n = 2 /\ x = "task-service" /\ m = "errors"
             /\ ~Has(sc[n], "divide", x, m) /\ ~Has(sc[n], "save", x, m)
             /\ HealthIdle(sc[n], x)
  <2>1. /\ Raises(sc[1], x, m) <=> x = "task-service" /\ m = "errors"
        /\ ~Clears(sc[1], x, m) /\ ~Has(sc[1], "divide", x, m)
        /\ ~Has(sc[1], "save", x, m) /\ HealthIdle(sc[1], x)
        /\ Clears(sc[2], x, m) <=> x = "task-service" /\ m = "errors"
        /\ ~Raises(sc[2], x, m) /\ ~Has(sc[2], "divide", x, m)
        /\ ~Has(sc[2], "save", x, m) /\ HealthIdle(sc[2], x)
    BY <1>1 DEF MetricIdle, HealthIdle, Has, Raises, Clears, Metrics, Effect,
         Assign, OnMetric, Reset
  <2>2. n = 1 \/ n = 2
    OBVIOUS
  <2>3. QED
    BY <2>1, <2>2 DEF MetricIdle, HealthIdle
<1>3. SickGetsWell(sc)
  <2>1. "latency" \in Metrics
    BY DEF Metrics
  <2>2. QED
    BY <1>1, <1>2, <2>1 DEF SickGetsWell, HealthIdle
<1>4. RaisedIsCleared(sc)
  BY <1>1, <1>2 DEF RaisedIsCleared
<1>5. DividesWhatItRaised(sc)
  BY <1>1, <1>2 DEF DividesWhatItRaised
<1>6. SavesFirst(sc)
  BY <1>1, <1>2 DEF SavesFirst
<1>7. QED
  BY <1>1, <1>3, <1>4, <1>5, <1>6 DEF WellBehaved, sc

LEMMA EmptyScriptBehaves == WellBehaved(<< >>)
  BY DEF WellBehaved, SickGetsWell, RaisedIsCleared, DividesWhatItRaised, SavesFirst

LEMMA ScriptsBehave ==
    ASSUME NEW name \in Names, NEW s \in Services PROVE WellBehaved(Script(name, s))
<1>1. CASE name = "kill_pod"
  BY <1>1, KillPodBehaves DEF Script
<1>2. CASE name = "cpu_pressure"
  BY <1>2, CpuPressureBehaves DEF Script
<1>3. CASE name = "network_partition"
  BY <1>3, NetworkPartitionBehaves DEF Script
<1>4. CASE name = "expire_jwt"
  <2>1. {"api-gateway"} \in SUBSET Services
    BY DEF Services
  <2>2. QED
    BY <1>4, <2>1, ApiErrorsBehaves DEF Script, ExpireJwt
<1>5. CASE name = "region_outage"
  BY <1>5, RegionOutageBehaves DEF Script
<1>6. CASE name = "bad_deploy"
  BY <1>6, EmptyScriptBehaves DEF Script, BadDeploy
<1>7. CASE name = "redis_failure"
  BY <1>7, RedisFailureBehaves DEF Script
<1>8. CASE name = "db_failure"
  BY <1>8, DbFailureBehaves DEF Script
<1>9. CASE name = "slow_network"
  BY <1>9, SlowNetworkBehaves DEF Script
<1>10. CASE name = "memory_leak"
  BY <1>10, MemoryLeakBehaves DEF Script
<1>11. CASE name = "cert_expiry"
  <2>1. {"api-gateway"} \in SUBSET Services
    BY DEF Services
  <2>2. QED
    BY <1>11, <2>1, ApiErrorsBehaves DEF Script, CertExpiry
<1>12. CASE name = "dns_failure"
  BY <1>12, DnsFailureBehaves DEF Script
<1>13. CASE name = "cascading_failure"
  BY <1>13, CascadingFailureBehaves DEF Script
<1>14. CASE name = "disk_full"
  BY <1>14, DiskFullBehaves DEF Script
<1>15. CASE name = "gc_pause"
  BY <1>15, GcPauseBehaves DEF Script
<1>16. CASE name = "thundering_herd"
  BY <1>16, ThunderingHerdBehaves DEF Script
<1>17. CASE name = "noisy_neighbor"
  BY <1>17, NoisyNeighborBehaves DEF Script
<1>18. CASE name = "spot_reclaim"
  BY <1>18, SpotReclaimBehaves DEF Script
<1>19. CASE name = "autoscaler_stuck"
  BY <1>19, AutoscalerStuckBehaves DEF Script
<1>20. CASE name = "api_throttle"
  BY <1>20, EmptyScriptBehaves DEF Script, ApiThrottle
<1>21. CASE name = "secret_leak"
  BY <1>21, SecretLeakBehaves DEF Script
<1>22. CASE name = "service_mesh_crash"
  BY <1>22, ServiceMeshCrashBehaves DEF Script
<1>23. CASE name = "third_party_outage"
  BY <1>23, ThirdPartyOutageBehaves DEF Script
<1>24. QED
  BY <1>1, <1>2, <1>3, <1>4, <1>5, <1>6, <1>7, <1>8, <1>9, <1>10, <1>11,
     <1>12, <1>13, <1>14, <1>15, <1>16, <1>17, <1>18, <1>19, <1>20, <1>21,
     <1>22, <1>23 DEF Names

-----------------------------------------------------------------------------
(* What a step of a run makes of the health and the metrics of a service.  *)
LEMMA HealthStep ==
    ASSUME NEW step, NEW x \in Services, healthy[x] \in BOOLEAN
    PROVE  /\ HealthAfterStep(step, x) \in BOOLEAN
           /\ healthy[x] = TRUE /\ ~Has(step, "sick", x, "none") =>
                HealthAfterStep(step, x) = TRUE
           /\ Has(step, "well", x, "none") /\ ~Has(step, "sick", x, "none") =>
                HealthAfterStep(step, x) = TRUE
<1> DEFINE onHealth == Effects(step, HealthOps, x, "none")
<1>1. CASE onHealth = {}
  <2>1. HealthAfterStep(step, x) = healthy[x]
    BY <1>1 DEF HealthAfterStep
  <2>2. ~Has(step, "well", x, "none")
    BY <1>1 DEF Effects, Has, HealthOps
  <2>3. QED
    BY <2>1, <2>2
<1>2. CASE onHealth # {}
  <2>1. The(onHealth) \in onHealth
    BY <1>2 DEF The
  <2>2. HealthAfterStep(step, x) = (The(onHealth).op = "well")
    BY <1>2 DEF HealthAfterStep
  <2>3. ASSUME ~Has(step, "sick", x, "none") PROVE The(onHealth).op = "well"
    BY <2>1, <2>3 DEF Effects, Has, HealthOps
  <2>4. QED
    BY <2>2, <2>3
<1>3. QED
  BY <1>1, <1>2

(* What becomes of the value `old` of a metric, given the one saved of it. *)
Becomes(step, x, m, r, old, saved, new) ==
    \/ ~Raises(step, x, m) /\ ~Clears(step, x, m) /\ new = old
    \/ Raises(step, x, m) /\ new \in {old \cup {r}, {r}, saved \cup {r}}
    \/ Clears(step, x, m) /\ new \in {old \ {r}, saved, {}}
    \/ /\ Clears(step, x, m) /\ Has(step, "divide", x, m)
       /\ new = IF r \in old THEN old \ {r} ELSE old \cup {r}

LEMMA MetricStep ==
    ASSUME NEW step, NEW x \in Services, NEW m \in Metrics, NEW memory, NEW r
    PROVE  Becomes(step, x, m, r, metric[x][m], memory.saved[x][m],
                   MetricAfterStep(step, x, m, memory, r))
<1> DEFINE onMetric == Effects(step, MetricOps, x, m)
           e == The(onMetric)
           new == MetricAfterStep(step, x, m, memory, r)
<1>1. CASE onMetric = {}
  <2>1. new = metric[x][m]
    BY <1>1 DEF MetricAfterStep
  <2>2. ~Raises(step, x, m) /\ ~Clears(step, x, m)
    BY <1>1 DEF Effects, Raises, Clears, Has, MetricOps
  <2>3. QED
    BY <2>1, <2>2 DEF Becomes
<1>2. CASE onMetric # {}
  <2>1. e \in onMetric
    BY <1>2 DEF The
  <2>2. new = MetricAfter(e, metric[x][m], memory.saved[x][m], r)
    BY <1>2 DEF MetricAfterStep
  <2>3. e \in step /\ e.op \in MetricOps /\ Has(step, e.op, x, m)
    BY <2>1 DEF Effects, Has
  <2> HIDE DEF e, onMetric, new
  <2>4. CASE e.op \in {"raise", "assign", "raise_anew"}
    <3>1. Raises(step, x, m)
      BY <2>3, <2>4 DEF Raises
    <3>2. new \in {metric[x][m] \cup {r}, {r}, memory.saved[x][m] \cup {r}}
      BY <2>2, <2>4 DEF MetricAfter
    <3>3. QED
      BY <3>1, <3>2 DEF new, Becomes
  <2>5. CASE e.op \in {"lower", "restore", "reset"}
    <3>1. Clears(step, x, m)
      BY <2>3, <2>5 DEF Clears
    <3>2. new \in {metric[x][m] \ {r}, memory.saved[x][m], {}}
      BY <2>2, <2>5 DEF MetricAfter
    <3>3. QED
      BY <3>1, <3>2 DEF new, Becomes
  <2>6. CASE e.op = "divide"
    <3>1. Clears(step, x, m)
      BY <2>3, <2>6 DEF Clears
    <3>2. new = IF r \in metric[x][m] THEN metric[x][m] \ {r} ELSE metric[x][m] \cup {r}
      BY <2>2, <2>6 DEF MetricAfter
    <3>3. QED
      BY <2>3, <2>6, <3>1, <3>2 DEF new, Becomes
  <2>7. QED
    BY <2>3, <2>4, <2>5, <2>6 DEF MetricOps
<1>3. QED
  BY <1>1, <1>2

-----------------------------------------------------------------------------
(* The runs of the actions, in any environment.                            *)
Remembered == [Services -> [Metrics -> SUBSET Runs]]

RunsTypes ==
    /\ pc \in [Runs -> Places]
    /\ done \in [Runs -> Nat]
    /\ what = [r \in Runs |-> what[r]]
    /\ memo = [r \in Runs |-> memo[r]]
    /\ \A r \in Runs : memo[r].saved \in Remembered
    /\ lock \in Runs \cup {0}
    /\ mode \in BOOLEAN /\ manual \in BOOLEAN
    /\ healthy \in [Services -> BOOLEAN]
    /\ metric \in Remembered

RunsInOrder ==
    /\ \E k \in Nat : Used = 1..k
    /\ \A r \in Used : what[r] \in Asked
    /\ \A r \in Runs : pc[r] \notin {"acting", "done"} => done[r] = 0 /\ memo[r] = NoMemo
    /\ \A r \in Runs : pc[r] = "acting" => done[r] <= Len(ScriptOf(r))

(* A service that is not healthy has a run that is still to make it well.  *)
GetsWell(sc, d, x) ==
    \E n \in (d + 1)..Len(sc) :
        Has(sc[n], "well", x, "none") /\ ~Has(sc[n], "sick", x, "none")
SickHaveHealers ==
    \A x \in Services :
        \/ healthy[x] = TRUE
        \/ \E r \in Runs : pc[r] = "acting" /\ GetsWell(ScriptOf(r), done[r], x)

RunsInv == RunsTypes /\ RunsInOrder /\ SickHaveHealers

(* What the steps of the controller do to the cluster.                     *)
ClusterMoves ==
    \/ \E r \in Runs : Progress(r) \/ \E a \in Asked : Trigger(r, a)
    \/ \E steps \in Scenarios : StartScenario(steps)
    \/ \E S \in live : EndScenario(S)
    \/ Ambient
    \/ UNCHANGED vars

LEMMA ControllerMovesCluster ==
    ASSUME [ControllerNext]_controllerVars PROVE ClusterMoves
<1>1. Actions \subseteq Asked /\ Beside \subseteq Asked
  BY ClusterAssumption
<1>2. CASE UNCHANGED controllerVars
  BY <1>2 DEF controllerVars, ClusterMoves
<1>3. ASSUME NEW r \in Runs, NEW a \in IF watched THEN Beside ELSE Actions, Trigger(r, a)
      PROVE  ClusterMoves
  BY <1>1, <1>3 DEF ClusterMoves
<1>4. ASSUME NEW r \in Runs, Wake(r) \/ Begin(r) \/ Acquire(r) \/ Finish(r) \/ Step(r)
      PROVE  ClusterMoves
  BY <1>4 DEF ClusterMoves, Progress
<1>5. CASE ControllerNext
  BY <1>3, <1>4, <1>5 DEF ControllerNext, Narrated, Narrate, Poll, Browse, ClusterMoves
<1>6. QED
  BY <1>2, <1>5

LEMMA RunsStart == Init => RunsInv
<1> SUFFICES ASSUME Init PROVE RunsInv
  OBVIOUS
<1>1. RunsTypes
  <2>1. NoMemo.saved \in Remembered
    BY DEF NoMemo, Untouched, Remembered
  <2>2. metric \in Remembered
    BY DEF Init, Untouched, Remembered
  <2>3. memo = [r \in Runs |-> memo[r]] /\ \A r \in Runs : memo[r].saved \in Remembered
    BY <2>1 DEF Init
  <2>4. what = [r \in Runs |-> what[r]] /\ done \in [Runs -> Nat] /\ pc \in [Runs -> Places]
    BY DEF Init, Places
  <2>5. /\ lock \in Runs \cup {0} /\ mode \in BOOLEAN /\ manual \in BOOLEAN
        /\ healthy \in [Services -> BOOLEAN]
    BY DEF Init
  <2>6. QED
    BY <2>2, <2>3, <2>4, <2>5 DEF RunsTypes
<1>2. RunsInOrder
  <2>1. Used = 1..0
    BY DEF Init, Used
  <2>2. QED
    BY <2>1, <1>1 DEF Init, RunsInOrder, RunsTypes
<1>3. SickHaveHealers
  BY DEF Init, SickHaveHealers
<1>4. QED
  BY <1>1, <1>2, <1>3 DEF RunsInv

LEMMA Script1 ==
    ASSUME NEW r \in Used, RunsInOrder PROVE WellBehaved(ScriptOf(r))
<1>1. what[r].name \in Names /\ what[r].service \in Services
  BY DEF RunsInOrder, Asked
<1>2. QED
  BY <1>1, ScriptsBehave DEF ScriptOf

(* A sequence of length k has k places.                                    *)
LEMMA CountFromOne == \A k \in Nat : IsFiniteSet(1..k) /\ Cardinality(1..k) = k
  BY FS_Interval

LEMMA NextRun ==
    ASSUME RunsInOrder
    PROVE  Cardinality(Used) \in Nat /\ Used = 1..Cardinality(Used)
<1>1. PICK k \in Nat : Used = 1..k
  BY DEF RunsInOrder
<1>2. Cardinality(1..k) = k
  BY CountFromOne
<1>3. QED
  BY <1>1, <1>2

(* Steps that change no run's script, progress, or the services.           *)
LEMMA RunsElsewhere ==
    ASSUME RunsInv, UNCHANGED <<healthy, memo>>, RunsTypes', RunsInOrder',
           \A r \in Runs : pc[r] = "acting" =>
             pc'[r] = "acting" /\ done'[r] = done[r] /\ what'[r] = what[r]
    PROVE  RunsInv'
<1>1. ASSUME NEW x \in Services, NEW r \in Runs, pc[r] = "acting",
             GetsWell(ScriptOf(r), done[r], x)
      PROVE  pc'[r] = "acting" /\ GetsWell(ScriptOf(r)', done'[r], x)
  BY <1>1 DEF ScriptOf
<1>2. SickHaveHealers'
  BY <1>1 DEF RunsInv, SickHaveHealers
<1>3. QED
  BY <1>2 DEF RunsInv

LEMMA TriggerRuns ==
    ASSUME RunsInv, NEW r \in Runs, NEW a \in Asked, Trigger(r, a) PROVE RunsInv'
<1>1. Cardinality(Used) \in Nat /\ Used = 1..Cardinality(Used) /\ r = Cardinality(Used) + 1
  BY NextRun DEF RunsInv, Trigger
<1>2. /\ pc' = [pc EXCEPT ![r] = "created"] /\ what' = [what EXCEPT ![r] = a]
      /\ UNCHANGED <<healthy, metric, done, memo, lock, mode, manual>>
  BY DEF Trigger, cluster
<1>3. r \notin Used
  BY <1>1
<1>4. Used' = 1..r
  <2>1. Used' = Used \cup {r}
    BY <1>2 DEF RunsInv, RunsTypes, Used
  <2>2. QED
    BY <1>1, <2>1
<1>5. pc[r] = "unused"
  BY <1>3 DEF Used
<1>6. RunsTypes'
  BY <1>2 DEF RunsInv, RunsTypes, Places
<1>7. RunsInOrder'
  <2>1. \E k \in Nat : Used' = 1..k
    BY <1>1, <1>4
  <2>2. \A q \in Used' : what'[q] \in Asked
    <3>1. what'[r] = a /\ \A q \in Runs : q # r => what'[q] = what[q]
      BY <1>2 DEF RunsInv, RunsTypes
    <3>2. \A q \in Used' : q = r \/ (q \in Used /\ q \in Runs)
      BY <1>1, <1>4 DEF Used
    <3>3. QED
      BY <3>1, <3>2 DEF RunsInv, RunsInOrder
  <2>3. \A q \in Runs : pc'[q] \notin {"acting", "done"} => done'[q] = 0 /\ memo'[q] = NoMemo
    BY <1>2, <1>5 DEF RunsInv, RunsTypes, RunsInOrder
  <2>4. \A q \in Runs : pc'[q] = "acting" => done'[q] <= Len(ScriptOf(q)')
    BY <1>2, <1>5 DEF RunsInv, RunsTypes, RunsInOrder, ScriptOf
  <2>5. QED
    BY <2>1, <2>2, <2>3, <2>4 DEF RunsInOrder
<1>8. \A q \in Runs : pc[q] = "acting" =>
        pc'[q] = "acting" /\ done'[q] = done[q] /\ what'[q] = what[q]
  BY <1>2, <1>5 DEF RunsInv, RunsTypes
<1>9. QED
  BY <1>2, <1>6, <1>7, <1>8, RunsElsewhere

LEMMA ScenarioRuns ==
    ASSUME RunsInv, NEW steps \in Scenarios, StartScenario(steps) PROVE RunsInv'
<1> DEFINE used == Cardinality(Used)
           S == (used + 1)..(used + Len(steps))
<1>1. used \in Nat /\ Used = 1..used
  BY NextRun DEF RunsInv
<1>2. steps \in Seq(Asked) /\ Len(steps) \in Nat
  BY ClusterAssumption
<1>3. /\ S \subseteq Runs /\ mode' = TRUE
      /\ pc' = [r \in Runs |-> IF r \in S THEN "asleep" ELSE pc[r]]
      /\ what' = [r \in Runs |-> IF r \in S THEN steps[r - used] ELSE what[r]]
      /\ UNCHANGED <<healthy, metric, done, memo, lock, manual>>
  BY DEF StartScenario, cluster
<1> HIDE DEF used
<1>4. Used' = Used \cup S
  BY <1>3 DEF RunsInv, RunsTypes, Used
<1>5. Used' = 1..(used + Len(steps))
  BY <1>1, <1>2, <1>4
<1>6. \A r \in S : pc[r] = "unused" /\ r \notin Used
  <2>1. \A r \in S : r \notin Used
    BY <1>1, <1>2
  <2>2. QED
    BY <1>3, <2>1 DEF Used
<1>7. RunsTypes'
  <2>1. pc' \in [Runs -> Places]
    BY <1>3 DEF RunsInv, RunsTypes, Places
  <2>2. what' = [r \in Runs |-> what'[r]]
    BY <1>3
  <2>3. QED
    BY <1>3, <2>1, <2>2 DEF RunsInv, RunsTypes
<1>8. RunsInOrder'
  <2>1. \E k \in Nat : Used' = 1..k
    BY <1>1, <1>2, <1>5
  <2>2. ASSUME NEW r \in Used' PROVE what'[r] \in Asked
    <3>1. CASE r \in S
      <4>1. r - used \in 1..Len(steps)
        BY <1>1, <1>2, <3>1
      <4>2. steps[r - used] \in Asked
        BY <1>2, <4>1
      <4>3. QED
        BY <1>3, <3>1, <4>2
    <3>2. CASE r \notin S
      <4>1. r \in Used /\ r \in Runs
        BY <1>4, <3>2 DEF Used
      <4>2. what'[r] = what[r]
        BY <1>3, <3>2, <4>1
      <4>3. QED
        BY <4>1, <4>2 DEF RunsInv, RunsInOrder
    <3>3. QED
      BY <3>1, <3>2
  <2>3. \A q \in Runs : pc'[q] \notin {"acting", "done"} => done'[q] = 0 /\ memo'[q] = NoMemo
    BY <1>3, <1>6 DEF RunsInv, RunsInOrder
  <2>4. \A q \in Runs : pc'[q] = "acting" => done'[q] <= Len(ScriptOf(q)')
    <3>1. ASSUME NEW q \in Runs, pc'[q] = "acting" PROVE q \notin S /\ pc[q] = "acting"
      BY <1>3, <3>1
    <3>2. ASSUME NEW q \in Runs, pc'[q] = "acting" PROVE what'[q] = what[q]
      BY <1>3, <3>1, <3>2
    <3>3. QED
      BY <1>3, <3>1, <3>2 DEF RunsInv, RunsInOrder, ScriptOf
  <2>5. QED
    BY <2>1, <2>2, <2>3, <2>4 DEF RunsInOrder
<1>9. \A q \in Runs : pc[q] = "acting" =>
        pc'[q] = "acting" /\ done'[q] = done[q] /\ what'[q] = what[q]
  BY <1>3, <1>6
<1>10. QED
  BY <1>3, <1>7, <1>8, <1>9, RunsElsewhere

(* A run that only moves on, without doing anything to the services.       *)
LEMMA MoveRuns ==
    ASSUME RunsInv, NEW r \in Runs, pc[r] # "unused", NEW place \in Places \ {"unused"},
           pc' = [pc EXCEPT ![r] = place],
           UNCHANGED <<healthy, metric, what, done, memo, mode, manual>>,
           lock' \in Runs \cup {0},
           pc[r] = "acting" => \A x \in Services : ~GetsWell(ScriptOf(r), done[r], x),
           pc[r] \in {"asleep", "created", "queued"}
             \/ (pc[r] = "acting" /\ place = "done")
    PROVE  RunsInv'
<1>1. Used' = Used
  BY DEF RunsInv, RunsTypes, Used
<1>2. RunsTypes'
  BY DEF RunsInv, RunsTypes
<1>3. RunsInOrder'
  <2>1. \A q \in Used' : what'[q] \in Asked
    BY <1>1 DEF RunsInv, RunsInOrder
  <2>2. \A q \in Runs : pc'[q] \notin {"acting", "done"} => done'[q] = 0 /\ memo'[q] = NoMemo
    BY DEF RunsInv, RunsTypes, RunsInOrder
  <2>3. ASSUME NEW q \in Runs, pc'[q] = "acting" PROVE done'[q] <= Len(ScriptOf(q)')
    <3>1. CASE pc[q] = "acting"
      BY <3>1 DEF RunsInv, RunsInOrder, ScriptOf
    <3>2. CASE pc[q] # "acting"
      <4>1. q = r /\ pc[q] \notin {"acting", "done"} /\ q \in Used
        BY <2>3, <3>2 DEF RunsInv, RunsTypes, Used
      <4>2. done'[q] = 0 /\ ScriptOf(q)' = ScriptOf(q)
        BY <4>1 DEF RunsInv, RunsInOrder, ScriptOf
      <4>3. Len(ScriptOf(q)) \in Nat
        BY <4>1, Script1 DEF RunsInv, WellBehaved
      <4>4. QED
        BY <4>2, <4>3
    <3>3. QED
      BY <3>1, <3>2
  <2>4. QED
    BY <1>1, <2>1, <2>2, <2>3 DEF RunsInv, RunsInOrder
<1>4. SickHaveHealers'
  <2>1. ASSUME NEW x \in Services, NEW q \in Runs, pc[q] = "acting",
               GetsWell(ScriptOf(q), done[q], x)
        PROVE  pc'[q] = "acting" /\ GetsWell(ScriptOf(q)', done'[q], x)
    <3>1. q # r
      BY <2>1
    <3>2. QED
      BY <2>1, <3>1 DEF RunsInv, RunsTypes, ScriptOf
  <2>2. QED
    BY <2>1 DEF RunsInv, SickHaveHealers
<1>5. QED
  BY <1>2, <1>3, <1>4 DEF RunsInv

LEMMA ToTheEnd ==
    ASSUME NEW sc, NEW d, d = Len(sc), Len(sc) \in Nat
    PROVE  ~ \E n \in (d + 1)..Len(sc) : TRUE
  OBVIOUS

LEMMA FinishRuns ==
    ASSUME RunsInv, NEW r \in Runs, Finish(r) PROVE RunsInv'
<1>1. /\ pc[r] = "acting" /\ done[r] = Len(ScriptOf(r))
      /\ pc' = [pc EXCEPT ![r] = "done"] /\ lock' = IF lock = r THEN 0 ELSE lock
      /\ UNCHANGED <<healthy, metric, what, done, memo, mode, manual>>
  BY DEF Finish, cluster
<1>2. r \in Used
  BY <1>1 DEF Used
<1>3. Len(ScriptOf(r)) \in Nat
  BY <1>2, Script1 DEF RunsInv, WellBehaved
<1>4. \A x \in Services : ~GetsWell(ScriptOf(r), done[r], x)
  BY <1>1, <1>3, ToTheEnd DEF GetsWell
<1>5. lock' \in Runs \cup {0}
  BY <1>1 DEF RunsInv, RunsTypes
<1>6. "done" \in Places \ {"unused"} /\ pc[r] # "unused"
  BY <1>1 DEF Places
<1>7. QED
  BY <1>1, <1>4, <1>5, <1>6, MoveRuns

LEMMA OtherMovesOfRuns ==
    ASSUME RunsInv, NEW r \in Runs, Wake(r) \/ Begin(r) \/ Acquire(r) PROVE RunsInv'
<1>1. lock \in Runs \cup {0}
  BY DEF RunsInv, RunsTypes
<1>2. CASE Wake(r)
  <2>1. /\ pc[r] = "asleep" /\ pc' = [pc EXCEPT ![r] = "created"] /\ lock' = lock
        /\ UNCHANGED <<healthy, metric, what, done, memo, mode, manual>>
    BY <1>2 DEF Wake, cluster
  <2>2. QED
    BY <1>1, <2>1, MoveRuns DEF Places
<1>3. CASE Begin(r)
  <2>1. /\ pc[r] = "created" /\ lock' = lock
        /\ pc' = [pc EXCEPT ![r] = IF mode THEN "acting" ELSE "queued"]
        /\ UNCHANGED <<healthy, metric, what, done, memo, mode, manual>>
    BY <1>3 DEF Begin, cluster
  <2>2. (IF mode THEN "acting" ELSE "queued") \in Places \ {"unused"}
    BY DEF Places
  <2>3. QED
    BY <1>1, <2>1, <2>2, MoveRuns
<1>4. CASE Acquire(r)
  <2>1. /\ pc[r] = "queued" /\ pc' = [pc EXCEPT ![r] = "acting"] /\ lock' = r
        /\ UNCHANGED <<healthy, metric, what, done, memo, mode, manual>>
    BY <1>4 DEF Acquire, cluster
  <2>2. QED
    BY <2>1, MoveRuns DEF Places
<1>5. QED
  BY <1>2, <1>3, <1>4

LEMMA QuietRuns ==
    ASSUME RunsInv, UNCHANGED <<pc, what, done, memo, lock, manual, healthy>>,
           metric' \in Remembered, mode' \in BOOLEAN
    PROVE  RunsInv'
<1>1. RunsTypes'
  BY DEF RunsInv, RunsTypes
<1>2. RunsInOrder'
  BY DEF RunsInv, RunsInOrder, Used, ScriptOf
<1>3. QED
  BY <1>1, <1>2, RunsElsewhere

-----------------------------------------------------------------------------
(* One step of a script.                                                   *)
StepNow(r) == ScriptOf(r)[done[r] + 1]
MemoryNow(r) == MemoAfter(StepNow(r), memo[r], r, done[r] + 1)

LEMMA StepFacts ==
    ASSUME RunsInv, NEW r \in Runs, Step(r)
    PROVE  /\ pc[r] = "acting" /\ r \in Used
           /\ WellBehaved(ScriptOf(r))
           /\ Len(ScriptOf(r)) \in Nat /\ done[r] \in Nat /\ done[r] < Len(ScriptOf(r))
           /\ done' = [done EXCEPT ![r] = done[r] + 1]
           /\ memo' = [memo EXCEPT ![r] = MemoryNow(r)]
           /\ pods' = [x \in Services |->
                         PodsAfterStep(StepNow(r), x, MemoryNow(r), r, done[r] + 1)]
           /\ healthy' = [x \in Services |-> HealthAfterStep(StepNow(r), x)]
           /\ metric' = [x \in Services |-> [m \in Metrics |->
                           MetricAfterStep(StepNow(r), x, m, MemoryNow(r), r)]]
           /\ UNCHANGED <<pc, what, lock, mode, live, manual>>
<1>1. Advance(r)
  BY DEF Step
<1>2. /\ pc[r] = "acting" /\ done[r] < Len(ScriptOf(r))
      /\ done' = [done EXCEPT ![r] = done[r] + 1]
      /\ UNCHANGED <<pc, what, lock, mode, live, manual>>
  BY <1>1 DEF Advance
<1>3. r \in Used
  BY <1>2 DEF Used
<1>4. WellBehaved(ScriptOf(r)) /\ Len(ScriptOf(r)) \in Nat
  BY <1>3, Script1 DEF RunsInv, WellBehaved
<1>5. done[r] \in Nat
  BY DEF RunsInv, RunsTypes
<1>6. /\ memo' = [memo EXCEPT ![r] = MemoryNow(r)]
      /\ pods' = [x \in Services |->
                    PodsAfterStep(StepNow(r), x, MemoryNow(r), r, done[r] + 1)]
      /\ healthy' = [x \in Services |-> HealthAfterStep(StepNow(r), x)]
      /\ metric' = [x \in Services |-> [m \in Metrics |->
                      MetricAfterStep(StepNow(r), x, m, MemoryNow(r), r)]]
  <2> DEFINE Result(n, step, memory) ==
        /\ memo' = [memo EXCEPT ![r] = memory]
        /\ pods' = [x \in Services |-> PodsAfterStep(step, x, memory, r, n)]
        /\ healthy' = [x \in Services |-> HealthAfterStep(step, x)]
        /\ metric' = [x \in Services |-> [m \in Metrics |->
                        MetricAfterStep(step, x, m, memory, r)]]
  <2>1. \E n \in {done[r] + 1} : \E step \in {ScriptOf(r)[n]} :
        \E memory \in {MemoAfter(step, memo[r], r, n)} : Result(n, step, memory)
    BY DEF Step
  <2> HIDE DEF Result
  <2>2. Result(done[r] + 1, StepNow(r), MemoryNow(r))
    BY <2>1, Zenon DEF StepNow, MemoryNow
  <2>3. QED
    BY <2>2 DEF Result
<1>7. QED
  BY <1>2, <1>3, <1>4, <1>5, <1>6

LEMMA MemoryFacts ==
    ASSUME NEW r \in Runs, NEW x \in Services, NEW m \in Metrics
    PROVE  /\ DOMAIN MemoryNow(r).saved = Services
           /\ DOMAIN MemoryNow(r).saved[x] = Metrics
           /\ Has(StepNow(r), "save", x, m) => MemoryNow(r).saved[x][m] = metric[x][m]
           /\ ~Has(StepNow(r), "save", x, m) => MemoryNow(r).saved[x][m] = memo[r].saved[x][m]
           /\ MemoryNow(r).saved = [y \in Services |-> [k \in Metrics |-> MemoryNow(r).saved[y][k]]]
<1>1. MemoryNow(r).saved = [y \in Services |-> [k \in Metrics |->
        IF {e \in StepNow(r) : e.op = "save" /\ y \in e.on /\ e.metric = k} # {}
        THEN metric[y][k] ELSE memo[r].saved[y][k]]]
  BY DEF MemoryNow, MemoAfter
<1>2. Has(StepNow(r), "save", x, m) <=>
        {e \in StepNow(r) : e.op = "save" /\ x \in e.on /\ e.metric = m} # {}
  BY DEF Has
<1>3. QED
  BY <1>1, <1>2

LEMMA StepOfRun ==
    ASSUME RunsInv, NEW r \in Runs, Step(r) PROVE RunsInv'
<1> DEFINE step == StepNow(r)
           memory == MemoryNow(r)
           sc == ScriptOf(r)
           d == done[r]
<1>1. /\ pc[r] = "acting" /\ r \in Used
      /\ WellBehaved(sc) /\ Len(sc) \in Nat /\ d \in Nat /\ d < Len(sc)
      /\ done' = [done EXCEPT ![r] = d + 1]
      /\ memo' = [memo EXCEPT ![r] = memory]
      /\ healthy' = [x \in Services |-> HealthAfterStep(step, x)]
      /\ metric' = [x \in Services |-> [m \in Metrics |->
                      MetricAfterStep(step, x, m, memory, r)]]
      /\ UNCHANGED <<pc, what, lock, mode, live, manual>>
  BY StepFacts
<1> step = sc[d + 1]
  BY DEF StepNow
<1> HIDE DEF step, memory, sc, d
<1>2. memory.saved \in Remembered
  <2>1. ASSUME NEW x \in Services, NEW m \in Metrics PROVE memory.saved[x][m] \in SUBSET Runs
    <3>1. metric[x][m] \in SUBSET Runs /\ memo[r].saved[x][m] \in SUBSET Runs
      BY DEF RunsInv, RunsTypes, Remembered
    <3>2. memory.saved[x][m] = metric[x][m] \/ memory.saved[x][m] = memo[r].saved[x][m]
      BY MemoryFacts DEF memory
    <3>3. QED
      BY <3>1, <3>2
  <2>2. memory.saved = [x \in Services |-> [m \in Metrics |-> memory.saved[x][m]]]
    BY MemoryFacts DEF memory, Services, Metrics
  <2>3. QED
    BY <2>1, <2>2 DEF Remembered
<1>3. RunsTypes'
  <2>1. metric' \in Remembered
    <3>1. ASSUME NEW x \in Services, NEW m \in Metrics
          PROVE  MetricAfterStep(step, x, m, memory, r) \in SUBSET Runs
      <4>1. metric[x][m] \in SUBSET Runs
        BY DEF RunsInv, RunsTypes, Remembered
      <4>2. memory.saved[x][m] \in SUBSET Runs
        BY <1>2 DEF Remembered
      <4>3. QED
        BY <4>1, <4>2, MetricStep DEF Becomes
    <3>2. QED
      BY <1>1, <3>1 DEF Remembered
  <2>2. healthy' \in [Services -> BOOLEAN]
    <3>1. ASSUME NEW x \in Services PROVE HealthAfterStep(step, x) \in BOOLEAN
      BY HealthStep DEF RunsInv, RunsTypes
    <3>2. QED
      BY <1>1, <3>1
  <2>3. /\ memo' = [q \in Runs |-> memo'[q]]
        /\ \A q \in Runs : memo'[q].saved \in Remembered
    <3>1. \A q \in Runs : memo'[q] = IF q = r THEN memory ELSE memo[q]
      BY <1>1 DEF RunsInv, RunsTypes
    <3>2. QED
      BY <1>1, <1>2, <3>1 DEF RunsInv, RunsTypes
  <2>4. done' \in [Runs -> Nat]
    BY <1>1 DEF RunsInv, RunsTypes
  <2>5. QED
    BY <1>1, <2>1, <2>2, <2>3, <2>4 DEF RunsInv, RunsTypes
<1>4. RunsInOrder'
  <2>1. \A q \in Runs : q # r => done'[q] = done[q] /\ memo'[q] = memo[q]
    BY <1>1 DEF RunsInv, RunsTypes
  <2>2. done'[r] = d + 1 /\ done'[r] <= Len(sc)
    BY <1>1 DEF RunsInv, RunsTypes
  <2>3. ScriptOf(r)' = sc /\ \A q \in Runs : ScriptOf(q)' = ScriptOf(q)
    BY <1>1 DEF ScriptOf, sc
  <2>4. Used' = Used
    BY <1>1 DEF Used
  <2>5. (\E k \in Nat : Used' = 1..k) /\ \A q \in Used' : what'[q] \in Asked
    BY <1>1, <2>4 DEF RunsInv, RunsInOrder
  <2>6. \A q \in Runs : pc'[q] \notin {"acting", "done"} => done'[q] = 0 /\ memo'[q] = NoMemo
    BY <1>1, <2>1 DEF RunsInv, RunsInOrder
  <2>7. \A q \in Runs : pc'[q] = "acting" => done'[q] <= Len(ScriptOf(q)')
    BY <1>1, <2>1, <2>2, <2>3 DEF RunsInv, RunsInOrder
  <2>8. QED
    BY <2>5, <2>6, <2>7 DEF RunsInOrder
<1>5. SickHaveHealers'
  <2>1. ASSUME NEW x \in Services, healthy'[x] # TRUE
        PROVE  \E q \in Runs : pc'[q] = "acting" /\ GetsWell(ScriptOf(q)', done'[q], x)
    <3>1. healthy'[x] = HealthAfterStep(step, x) /\ healthy[x] \in BOOLEAN
      BY <1>1 DEF RunsInv, RunsTypes
    <3>2. ~(Has(step, "well", x, "none") /\ ~Has(step, "sick", x, "none"))
      BY <2>1, <3>1, HealthStep
    <3>3. done'[r] = d + 1 /\ ScriptOf(r)' = sc
      BY <1>1 DEF ScriptOf, sc, RunsInv, RunsTypes
    <3>4. CASE Has(step, "sick", x, "none")
      <4>1. d + 1 \in 1..Len(sc)
        BY <1>1
      <4>2. GetsWell(sc, d + 1, x)
        BY <1>1, <3>4, <4>1 DEF WellBehaved, SickGetsWell, GetsWell
      <4>3. QED
        BY <1>1, <3>3, <4>2
    <3>5. CASE ~Has(step, "sick", x, "none")
      <4>1. healthy[x] # TRUE
        BY <2>1, <3>1, <3>5, HealthStep
      <4>2. PICK q \in Runs : pc[q] = "acting" /\ GetsWell(ScriptOf(q), done[q], x)
        BY <4>1 DEF RunsInv, SickHaveHealers
      <4>3. CASE q # r
        <5>1. done'[q] = done[q] /\ ScriptOf(q)' = ScriptOf(q)
          BY <1>1, <4>3 DEF ScriptOf, RunsInv, RunsTypes
        <5>2. QED
          BY <1>1, <4>2, <5>1
      <4>4. CASE q = r
        <5>1. PICK n \in (d + 1)..Len(sc) :
                Has(sc[n], "well", x, "none") /\ ~Has(sc[n], "sick", x, "none")
          BY <4>2, <4>4 DEF GetsWell, sc, d
        <5>2. n # d + 1
          BY <3>2, <5>1
        <5>3. GetsWell(sc, d + 1, x)
          BY <1>1, <5>1, <5>2 DEF GetsWell
        <5>4. QED
          BY <1>1, <3>3, <5>3
      <4>5. QED
        BY <4>3, <4>4
    <3>6. QED
      BY <3>4, <3>5
  <2>2. QED
    BY <2>1 DEF SickHaveHealers
<1>6. QED
  BY <1>3, <1>4, <1>5 DEF RunsInv

LEMMA RunsStep ==
    ASSUME RunsInv, ClusterMoves PROVE RunsInv'
<1>1. ASSUME NEW S \in live, EndScenario(S) PROVE RunsInv'
  BY <1>1, QuietRuns DEF EndScenario, cluster, RunsInv, RunsTypes
<1>2. CASE Ambient
  <2>1. metric' \in Remembered
    <3>1. ASSUME NEW x \in Services
          PROVE  (IF healthy[x] THEN [metric[x] EXCEPT !["errors"] = {}] ELSE metric[x])
                   \in [Metrics -> SUBSET Runs]
      BY DEF RunsInv, RunsTypes, Remembered
    <3>2. QED
      BY <1>2, <3>1 DEF Ambient, Remembered
  <2>2. QED
    BY <1>2, <2>1, QuietRuns DEF Ambient, RunsInv, RunsTypes
<1>3. CASE UNCHANGED vars
  BY <1>3, QuietRuns DEF vars, cluster, RunsInv, RunsTypes
<1>4. ASSUME NEW r \in Runs, Progress(r) PROVE RunsInv'
  BY <1>4, OtherMovesOfRuns, FinishRuns, StepOfRun DEF Progress
<1>5. QED
  BY <1>1, <1>2, <1>3, <1>4, TriggerRuns, ScenarioRuns DEF ClusterMoves

-----------------------------------------------------------------------------
(* A metric while run r, the only one at work, has done d steps of sc: it  *)
(* carries nobody else's change; if it carries that of r, it is one that r *)
(* has made and is still to clear; if r has just raised it, it does carry  *)
(* it; and what r has saved of it is the baseline.                         *)
LastRaised(sc, d, x, m) ==
    \E k \in 1..d :
        /\ Raises(sc[k], x, m) /\ ~Clears(sc[k], x, m)
        /\ \A j \in (k + 1)..d : ~Raises(sc[j], x, m) /\ ~Clears(sc[j], x, m)
CellKept(sc, d, x, m, r, now, saved) ==
    /\ saved = {}
    /\ now \subseteq {r}
    /\ now # {} =>
        /\ \E n \in (d + 1)..Len(sc) : Clears(sc[n], x, m) /\ ~Raises(sc[n], x, m)
        /\ \E k \in 1..d : Raises(sc[k], x, m)
    /\ m = "latency" /\ LastRaised(sc, d, x, m) => r \in now

LEMMA CellStep ==
    ASSUME NEW sc, WellBehaved(sc), NEW d \in Nat, d < Len(sc), Len(sc) \in Nat,
           NEW x \in Services, NEW m \in Metrics, NEW r,
           NEW old, NEW saved, NEW new, NEW next,
           CellKept(sc, d, x, m, r, old, saved),
           next = IF Has(sc[d + 1], "save", x, m) THEN old ELSE saved,
           Becomes(sc[d + 1], x, m, r, old, next, new)
    PROVE  CellKept(sc, d + 1, x, m, r, new, next)
<1>1. d + 1 \in 1..Len(sc) /\ (d + 1) - 1 = d
  OBVIOUS
<1>2. next = {}
  <2>1. CASE Has(sc[d + 1], "save", x, m)
    <3>1. \A k \in 1..d : ~Raises(sc[k], x, m)
      BY <1>1, <2>1 DEF WellBehaved, SavesFirst
    <3>2. old = {}
      BY <3>1 DEF CellKept
    <3>3. QED
      BY <2>1, <3>2
  <2>2. QED
    BY <2>1 DEF CellKept
<1>3. ASSUME Has(sc[d + 1], "divide", x, m) PROVE r \in old
  <2>1. m = "latency" /\ LastRaised(sc, d, x, m)
    BY <1>1, <1>3 DEF WellBehaved, DividesWhatItRaised, LastRaised
  <2>2. QED
    BY <2>1 DEF CellKept
<1>4. old \subseteq {r}
  BY DEF CellKept
<1>5. new \subseteq {r}
  BY <1>2, <1>4 DEF Becomes
<1>6. ASSUME new # {}
      PROVE  Raises(sc[d + 1], x, m)
               \/ (~Raises(sc[d + 1], x, m) /\ ~Clears(sc[d + 1], x, m) /\ new = old)
  <2>1. CASE Has(sc[d + 1], "divide", x, m)
    BY <1>2, <1>3, <1>4, <1>6, <2>1 DEF Becomes
  <2>2. CASE ~Has(sc[d + 1], "divide", x, m)
    BY <1>2, <1>4, <1>6, <2>2 DEF Becomes
  <2>3. QED
    BY <2>1, <2>2
<1>7. ASSUME new # {}
      PROVE  /\ \E n \in (d + 2)..Len(sc) : Clears(sc[n], x, m) /\ ~Raises(sc[n], x, m)
             /\ \E k \in 1..(d + 1) : Raises(sc[k], x, m)
  <2>1. CASE Raises(sc[d + 1], x, m)
    <3>1. \E n \in ((d + 1) + 1)..Len(sc) : Clears(sc[n], x, m) /\ ~Raises(sc[n], x, m)
      BY <1>1, <2>1 DEF WellBehaved, RaisedIsCleared
    <3>2. QED
      BY <1>1, <2>1, <3>1
  <2>2. CASE ~Raises(sc[d + 1], x, m) /\ ~Clears(sc[d + 1], x, m) /\ new = old
    <3>1. /\ \E n \in (d + 1)..Len(sc) : Clears(sc[n], x, m) /\ ~Raises(sc[n], x, m)
          /\ \E k \in 1..d : Raises(sc[k], x, m)
      BY <1>7, <2>2 DEF CellKept
    <3>2. PICK n \in (d + 1)..Len(sc) : Clears(sc[n], x, m) /\ ~Raises(sc[n], x, m)
      BY <3>1
    <3>3. n # d + 1
      BY <2>2, <3>2
    <3>4. n \in (d + 2)..Len(sc)
      BY <3>3
    <3>5. \E k \in 1..(d + 1) : Raises(sc[k], x, m)
      BY <3>1
    <3>6. QED
      BY <3>2, <3>4, <3>5
  <2>3. QED
    BY <1>6, <1>7, <2>1, <2>2
<1>8. ASSUME m = "latency", LastRaised(sc, d + 1, x, m) PROVE r \in new
  <2>1. PICK k \in 1..(d + 1) :
          /\ Raises(sc[k], x, m) /\ ~Clears(sc[k], x, m)
          /\ \A j \in (k + 1)..(d + 1) : ~Raises(sc[j], x, m) /\ ~Clears(sc[j], x, m)
    BY <1>8 DEF LastRaised
  <2>2. CASE k = d + 1
    BY <1>2, <2>1, <2>2 DEF Becomes
  <2>3. CASE k # d + 1
    <3>1. k \in 1..d /\ d + 1 \in (k + 1)..(d + 1)
      BY <2>3
    <3>2. LastRaised(sc, d, x, m)
      BY <2>1, <3>1 DEF LastRaised
    <3>3. new = old
      BY <2>1, <3>1 DEF Becomes
    <3>4. QED
      BY <1>8, <3>2, <3>3 DEF CellKept
  <2>4. QED
    BY <2>2, <2>3
<1>9. QED
  BY <1>1, <1>2, <1>5, <1>7, <1>8 DEF CellKept

LEMMA FreshCell ==
    ASSUME NEW sc, NEW x \in Services, NEW m \in Metrics, NEW r
    PROVE  CellKept(sc, 0, x, m, r, {}, {})
  BY DEF CellKept, LastRaised

-----------------------------------------------------------------------------
(* As long as all runs are triggered by hand, one holds the lock or none   *)
(* is at work, and what is not at its baseline is the holder's.            *)
OneAtWork ==
    /\ mode = FALSE
    /\ \A r \in Runs : pc[r] = "acting" <=> lock = r
MetricsKept ==
    /\ lock = 0 => \A x \in Services, m \in Metrics : metric[x][m] = {}
    /\ \A r \in Runs : lock = r =>
         \A x \in Services, m \in Metrics :
           CellKept(ScriptOf(r), done[r], x, m, r, metric[x][m], memo[r].saved[x][m])
ManualInv == manual = TRUE => OneAtWork /\ MetricsKept

LEMMA ManualStart == Init => ManualInv
<1>1. Init => metric = [x \in Services |-> [m \in Metrics |-> {}]] /\ lock = 0
  BY DEF Init, Untouched
<1>2. 0 \notin Runs
  BY ClusterAssumption DEF Runs
<1>3. QED
  BY <1>1, <1>2 DEF Init, ManualInv, OneAtWork, MetricsKept

(* Whatever leaves the holder of the lock and the services as they are.    *)
LEMMA ManualElsewhere ==
    ASSUME RunsInv, ManualInv,
           UNCHANGED <<healthy, metric, done, memo, lock, manual>>,
           manual = TRUE => mode' = FALSE,
           \A r \in Runs : (pc[r] = "acting" <=> pc'[r] = "acting"),
           \A r \in Runs : pc[r] = "acting" => what'[r] = what[r]
    PROVE  ManualInv'
<1> SUFFICES ASSUME manual = TRUE PROVE (OneAtWork /\ MetricsKept)'
  BY DEF ManualInv
<1>1. OneAtWork /\ MetricsKept
  BY DEF ManualInv
<1>2. OneAtWork'
  BY <1>1 DEF OneAtWork
<1>3. \A r \in Runs : lock = r => ScriptOf(r)' = ScriptOf(r)
  BY <1>1 DEF ScriptOf, OneAtWork
<1>4. MetricsKept'
  BY <1>1, <1>3 DEF MetricsKept
<1>5. QED
  BY <1>2, <1>4

LEMMA ManualStep ==
    ASSUME RunsInv, ManualInv, ClusterMoves PROVE ManualInv'
<1> SUFFICES ASSUME manual' = TRUE PROVE (OneAtWork /\ MetricsKept)'
  BY DEF ManualInv
<1>1. manual = TRUE
  BY DEF ClusterMoves, Progress, Trigger, StartScenario, Wake, Begin, Acquire, Step,
         Advance, Finish, EndScenario, Ambient, vars
<1>2. OneAtWork /\ MetricsKept
  BY <1>1 DEF ManualInv
<1>3. 0 \notin Runs
  BY ClusterAssumption DEF Runs
<1>4. ASSUME NEW r \in Runs, NEW a \in Asked, Trigger(r, a) PROVE ManualInv'
  <2>1. /\ pc' = [pc EXCEPT ![r] = "created"] /\ what' = [what EXCEPT ![r] = a]
        /\ UNCHANGED <<healthy, metric, done, memo, lock, mode, manual>>
        /\ r = Cardinality(Used) + 1
    BY <1>4 DEF Trigger, cluster
  <2>2. r \notin Used
    BY <2>1, NextRun DEF RunsInv
  <2>3. pc[r] = "unused"
    BY <2>2 DEF Used
  <2>4. \A q \in Runs : /\ pc[q] = "acting" <=> pc'[q] = "acting"
                        /\ pc[q] = "acting" => what'[q] = what[q]
    BY <2>1, <2>3 DEF RunsInv, RunsTypes
  <2>5. QED
    BY <1>2, <2>1, <2>4, ManualElsewhere DEF OneAtWork
<1>5. ASSUME NEW steps \in Scenarios, StartScenario(steps) PROVE FALSE
  BY <1>1, <1>5 DEF StartScenario
<1>6. ASSUME NEW S \in live, EndScenario(S) PROVE ManualInv'
  BY <1>6, ManualElsewhere DEF EndScenario, cluster
<1>7. CASE UNCHANGED vars
  <2>1. UNCHANGED <<healthy, metric, pc, what, done, memo, lock, mode, manual>>
    BY <1>7 DEF vars, cluster
  <2>2. \A r \in Runs : /\ pc[r] = "acting" <=> pc'[r] = "acting"
                        /\ pc[r] = "acting" => what'[r] = what[r]
    BY <2>1
  <2>3. UNCHANGED <<healthy, metric, done, memo, lock, manual>> /\ mode' = FALSE
    BY <1>2, <2>1 DEF OneAtWork
  <2>4. ManualInv'
    BY <2>2, <2>3, ManualElsewhere
  <2>5. QED
    BY <2>4 DEF ManualInv
<1>8. ASSUME NEW r \in Runs, Wake(r) \/ Begin(r) PROVE ManualInv'
  <2>1. /\ pc[r] \in {"asleep", "created"}
        /\ \E place \in {"created", "queued"} : pc' = [pc EXCEPT ![r] = place]
        /\ UNCHANGED <<healthy, metric, what, done, memo, lock, mode, manual>>
    BY <1>2, <1>8 DEF Wake, Begin, cluster, OneAtWork
  <2>2. \A q \in Runs : pc[q] = "acting" <=> pc'[q] = "acting"
    BY <2>1 DEF RunsInv, RunsTypes
  <2>3. QED
    BY <1>2, <2>1, <2>2, ManualElsewhere DEF OneAtWork
<1>9. ASSUME NEW r \in Runs, Acquire(r) PROVE (OneAtWork /\ MetricsKept)'
  <2>1. /\ pc[r] = "queued" /\ lock = 0 /\ lock' = r /\ pc' = [pc EXCEPT ![r] = "acting"]
        /\ UNCHANGED <<healthy, metric, what, done, memo, mode, manual>>
    BY <1>9 DEF Acquire, cluster
  <2>2. OneAtWork'
    BY <1>2, <1>3, <2>1 DEF OneAtWork, RunsInv, RunsTypes
  <2>3. done[r] = 0 /\ memo[r] = NoMemo
    BY <2>1 DEF RunsInv, RunsInOrder
  <2>4. ASSUME NEW x \in Services, NEW m \in Metrics
        PROVE  CellKept(ScriptOf(r)', done'[r], x, m, r, metric'[x][m], memo'[r].saved[x][m])
    <3>1. metric'[x][m] = {} /\ memo'[r].saved[x][m] = {} /\ done'[r] = 0
      BY <1>2, <2>1, <2>3 DEF MetricsKept, NoMemo, Untouched
    <3>2. QED
      BY <3>1, FreshCell
  <2>5. MetricsKept'
    BY <1>3, <2>1, <2>4 DEF MetricsKept
  <2>6. QED
    BY <2>2, <2>5
<1>10. ASSUME NEW r \in Runs, Finish(r) PROVE (OneAtWork /\ MetricsKept)'
  <2>1. /\ pc[r] = "acting" /\ done[r] = Len(ScriptOf(r))
        /\ pc' = [pc EXCEPT ![r] = "done"] /\ lock' = IF lock = r THEN 0 ELSE lock
        /\ UNCHANGED <<healthy, metric, what, done, memo, mode, manual>>
    BY <1>10 DEF Finish, cluster
  <2>2. lock = r /\ lock' = 0
    BY <1>2, <2>1 DEF OneAtWork
  <2>3. OneAtWork'
    BY <1>2, <1>3, <2>1, <2>2 DEF OneAtWork, RunsInv, RunsTypes
  <2>4. Len(ScriptOf(r)) \in Nat
    BY <2>1, Script1 DEF RunsInv, WellBehaved, Used
  <2>5. ASSUME NEW x \in Services, NEW m \in Metrics PROVE metric[x][m] = {}
    <3>1. CellKept(ScriptOf(r), done[r], x, m, r, metric[x][m], memo[r].saved[x][m])
      BY <1>2, <2>2 DEF MetricsKept
    <3>2. QED
      BY <2>1, <2>4, <3>1, ToTheEnd DEF CellKept
  <2>6. MetricsKept'
    BY <1>3, <2>1, <2>2, <2>5 DEF MetricsKept
  <2>7. QED
    BY <2>3, <2>6
<1>11. ASSUME NEW r \in Runs, Step(r) PROVE (OneAtWork /\ MetricsKept)'
  <2>1. /\ pc[r] = "acting"
        /\ WellBehaved(ScriptOf(r)) /\ Len(ScriptOf(r)) \in Nat
        /\ done[r] \in Nat /\ done[r] < Len(ScriptOf(r))
        /\ done' = [done EXCEPT ![r] = done[r] + 1]
        /\ memo' = [memo EXCEPT ![r] = MemoryNow(r)]
        /\ metric' = [x \in Services |-> [m \in Metrics |->
                        MetricAfterStep(StepNow(r), x, m, MemoryNow(r), r)]]
        /\ UNCHANGED <<pc, what, lock, mode, live, manual>>
    BY <1>11, StepFacts
  <2>2. lock = r /\ lock' = r
    BY <1>2, <2>1 DEF OneAtWork
  <2>3. OneAtWork'
    BY <1>2, <2>1 DEF OneAtWork
  <2>4. done'[r] = done[r] + 1 /\ memo'[r] = MemoryNow(r) /\ ScriptOf(r)' = ScriptOf(r)
    BY <2>1 DEF RunsInv, RunsTypes, ScriptOf
  <2>5. ASSUME NEW x \in Services, NEW m \in Metrics
        PROVE  CellKept(ScriptOf(r)', done'[r], x, m, r, metric'[x][m], memo'[r].saved[x][m])
    <3>1. CellKept(ScriptOf(r), done[r], x, m, r, metric[x][m], memo[r].saved[x][m])
      BY <1>2, <2>2 DEF MetricsKept
    <3>2. MemoryNow(r).saved[x][m] =
            IF Has(StepNow(r), "save", x, m) THEN metric[x][m] ELSE memo[r].saved[x][m]
      BY MemoryFacts
    <3>3. Becomes(StepNow(r), x, m, r, metric[x][m], MemoryNow(r).saved[x][m], metric'[x][m])
      BY <2>1, MetricStep
    <3>4. CellKept(ScriptOf(r), done[r] + 1, x, m, r, metric'[x][m], MemoryNow(r).saved[x][m])
      BY <2>1, <3>1, <3>2, <3>3, CellStep DEF StepNow
    <3>5. QED
      BY <2>4, <3>4
  <2>6. MetricsKept'
    BY <1>3, <2>2, <2>5 DEF MetricsKept
  <2>7. QED
    BY <2>3, <2>6
<1>12. CASE Ambient
  <2>1. /\ \A x \in Services, m \in Metrics :
             metric'[x][m] = metric[x][m] \/ (metric'[x][m] = {} /\ m = "errors")
        /\ UNCHANGED <<pc, what, done, memo, lock, mode, manual>>
    BY <1>12 DEF Ambient, RunsInv, RunsTypes, Remembered
  <2>2. OneAtWork'
    BY <1>2, <2>1 DEF OneAtWork
  <2>3. ASSUME NEW r \in Runs, lock = r, NEW x \in Services, NEW m \in Metrics
        PROVE  CellKept(ScriptOf(r)', done'[r], x, m, r, metric'[x][m], memo'[r].saved[x][m])
    <3>1. CellKept(ScriptOf(r), done[r], x, m, r, metric[x][m], memo[r].saved[x][m])
      BY <1>2, <2>3 DEF MetricsKept
    <3>2. ScriptOf(r)' = ScriptOf(r) /\ done'[r] = done[r] /\ memo'[r] = memo[r]
      BY <2>1 DEF ScriptOf
    <3>3. CASE metric'[x][m] = metric[x][m]
      BY <3>1, <3>2, <3>3
    <3>4. CASE metric'[x][m] = {} /\ m = "errors"
      BY <3>1, <3>2, <3>4 DEF CellKept
    <3>5. QED
      BY <2>1, <3>3, <3>4
  <2>4. MetricsKept'
    BY <1>2, <2>1, <2>3 DEF MetricsKept
  <2>5. QED
    BY <2>2, <2>4
<1>13. QED
  BY <1>4, <1>5, <1>6, <1>7, <1>8, <1>9, <1>10, <1>11, <1>12
     DEF ClusterMoves, Progress, ManualInv

-----------------------------------------------------------------------------
(* Sequences of pods.                                                      *)
PodType == [id : Nat \X Nat, phase : Phases, ready : BOOLEAN]
Up(p) == p.phase = "running" /\ p.ready = TRUE
AllUp(seq) == \A i \in DOMAIN seq : Up(seq[i])
Distinct(seq) == \A i, j \in DOMAIN seq : seq[i].id = seq[j].id => i = j
Whole(seq) == Len(seq) >= Desired /\ AllUp(seq)

LEMMA PodIsPod ==
    ASSUME NEW r \in Nat, NEW n \in Nat, NEW phase \in Phases
    PROVE  /\ Pod(r, n, phase) \in PodType /\ Pod(r, n, phase).id = <<r, n>>
           /\ phase = "running" => Up(Pod(r, n, phase))
  BY DEF Pod, PodType, Up

(* Changing phase or readiness of some pods leaves the others, and who     *)
(* they all are.                                                           *)
SamePods(seq, new, chosen) ==
    /\ new \in Seq(PodType) /\ Len(new) = Len(seq) /\ DOMAIN new = DOMAIN seq
    /\ \A i \in DOMAIN seq : new[i].id = seq[i].id
    /\ \A i \in DOMAIN seq : i \notin chosen => new[i] = seq[i]

LEMMA SetPhaseKeeps ==
    ASSUME NEW seq \in Seq(PodType), NEW chosen, NEW phase \in Phases
    PROVE  /\ SamePods(seq, SetPhase(seq, chosen, phase), chosen)
           /\ \A i \in DOMAIN seq : i \in chosen =>
                /\ SetPhase(seq, chosen, phase)[i].phase = phase
                /\ SetPhase(seq, chosen, phase)[i].ready = seq[i].ready
<1> DEFINE new == SetPhase(seq, chosen, phase)
<1>1. Len(seq) \in Nat /\ DOMAIN seq = 1..Len(seq)
  OBVIOUS
<1>2. ASSUME NEW i \in 1..Len(seq)
      PROVE  /\ new[i] \in PodType /\ new[i].id = seq[i].id
             /\ i \notin chosen => new[i] = seq[i]
             /\ i \in chosen => new[i].phase = phase /\ new[i].ready = seq[i].ready
  <2>1. seq[i] \in PodType
    BY <1>1
  <2>2. new[i] = IF i \in chosen THEN [seq[i] EXCEPT !.phase = phase] ELSE seq[i]
    BY <1>1 DEF SetPhase
  <2>3. QED
    BY <2>1, <2>2 DEF PodType
<1>3. new = [i \in 1..Len(seq) |-> new[i]]
  BY <1>1 DEF SetPhase
<1> HIDE DEF new
<1>4. new \in Seq(PodType) /\ Len(new) = Len(seq) /\ DOMAIN new = 1..Len(seq)
  BY <1>1, <1>2, <1>3
<1>5. QED
  BY <1>1, <1>2, <1>4 DEF SamePods, new

LEMMA SetReadyKeeps ==
    ASSUME NEW seq \in Seq(PodType), NEW chosen, NEW ready \in BOOLEAN
    PROVE  /\ SamePods(seq, SetReady(seq, chosen, ready), chosen)
           /\ \A i \in DOMAIN seq : i \in chosen =>
                /\ SetReady(seq, chosen, ready)[i].phase = seq[i].phase
                /\ SetReady(seq, chosen, ready)[i].ready = ready
<1> DEFINE new == SetReady(seq, chosen, ready)
<1>1. Len(seq) \in Nat /\ DOMAIN seq = 1..Len(seq)
  OBVIOUS
<1>2. ASSUME NEW i \in 1..Len(seq)
      PROVE  /\ new[i] \in PodType /\ new[i].id = seq[i].id
             /\ i \notin chosen => new[i] = seq[i]
             /\ i \in chosen => new[i].phase = seq[i].phase /\ new[i].ready = ready
  <2>1. seq[i] \in PodType
    BY <1>1
  <2>2. new[i] = IF i \in chosen THEN [seq[i] EXCEPT !.ready = ready] ELSE seq[i]
    BY <1>1 DEF SetReady
  <2>3. QED
    BY <2>1, <2>2 DEF PodType
<1>3. new = [i \in 1..Len(seq) |-> new[i]]
  BY <1>1 DEF SetReady
<1> HIDE DEF new
<1>4. new \in Seq(PodType) /\ Len(new) = Len(seq) /\ DOMAIN new = 1..Len(seq)
  BY <1>1, <1>2, <1>3
<1>5. QED
  BY <1>1, <1>2, <1>4 DEF SamePods, new

LEMMA RunningKeeps ==
    ASSUME NEW seq \in Seq(PodType), NEW chosen
    PROVE  /\ SamePods(seq, Running(seq, chosen), chosen)
           /\ \A i \in DOMAIN seq : i \in chosen => Up(Running(seq, chosen)[i])
<1> DEFINE half == SetPhase(seq, chosen, "running")
<1>1. "running" \in Phases /\ TRUE \in BOOLEAN
  BY DEF Phases
<1>2. /\ SamePods(seq, half, chosen)
      /\ \A i \in DOMAIN seq : i \in chosen => half[i].phase = "running"
  BY <1>1, SetPhaseKeeps
<1> HIDE DEF half
<1>3. half \in Seq(PodType) /\ DOMAIN half = DOMAIN seq
  BY <1>2 DEF SamePods
<1>4. /\ SamePods(half, SetReady(half, chosen, TRUE), chosen)
      /\ \A i \in DOMAIN half : i \in chosen =>
           /\ SetReady(half, chosen, TRUE)[i].phase = half[i].phase
           /\ SetReady(half, chosen, TRUE)[i].ready = TRUE
  BY <1>1, <1>3, SetReadyKeeps
<1>5. QED
  BY <1>2, <1>3, <1>4 DEF Running, half, SamePods, Up

LEMMA StoppedKeeps ==
    ASSUME NEW seq \in Seq(PodType), NEW chosen
    PROVE  /\ SamePods(seq, Stopped(seq, chosen), chosen)
           /\ \A i \in DOMAIN seq :
                i \in chosen => Stopped(seq, chosen)[i].phase = "terminating"
<1> DEFINE half == SetPhase(seq, chosen, "terminating")
<1>1. "terminating" \in Phases /\ FALSE \in BOOLEAN
  BY DEF Phases
<1>2. /\ SamePods(seq, half, chosen)
      /\ \A i \in DOMAIN seq : i \in chosen => half[i].phase = "terminating"
  BY <1>1, SetPhaseKeeps
<1> HIDE DEF half
<1>3. half \in Seq(PodType) /\ DOMAIN half = DOMAIN seq
  BY <1>2 DEF SamePods
<1>4. PICK ready \in BOOLEAN : ready = FALSE
  BY <1>1
<1>5. /\ SamePods(half, SetReady(half, chosen, ready), chosen)
      /\ \A i \in DOMAIN half : i \in chosen =>
           SetReady(half, chosen, ready)[i].phase = half[i].phase
  BY <1>3, SetReadyKeeps
<1>6. QED
  BY <1>2, <1>3, <1>4, <1>5 DEF Stopped, half, SamePods

(* A list comprehension takes each of the chosen places once.              *)
LEMMA NthPlaces ==
    ASSUME NEW places \in SUBSET Nat, IsFiniteSet(places)
    PROVE  /\ Cardinality(places) \in Nat
           /\ \A n \in 1..Cardinality(places) :
                /\ Nth(places, n) \in places
                /\ Cardinality({j \in places : j <= Nth(places, n)}) = n
<1> DEFINE upTo(i) == {j \in places : j <= i}
           count == [i \in places |-> Cardinality(upTo(i))]
<1>1. Cardinality(places) \in Nat
  BY FS_CardinalityType
<1>2. ASSUME NEW i \in places
      PROVE  /\ IsFiniteSet(upTo(i)) /\ Cardinality(upTo(i)) \in 1..Cardinality(places)
  <2>1. upTo(i) \in SUBSET places /\ i \in upTo(i)
    OBVIOUS
  <2>2. IsFiniteSet(upTo(i)) /\ Cardinality(upTo(i)) <= Cardinality(places)
    BY <2>1, FS_Subset
  <2>3. Cardinality(upTo(i)) \in Nat /\ Cardinality(upTo(i)) # 0
    BY <2>1, <2>2, FS_CardinalityType, FS_EmptySet
  <2>4. QED
    BY <1>1, <2>2, <2>3
<1>3. ASSUME NEW i \in places, NEW k \in places, i < k
      PROVE  Cardinality(upTo(i)) < Cardinality(upTo(k))
  <2>1. upTo(i) \in SUBSET upTo(k) /\ upTo(i) # upTo(k)
    <3>1. k \in upTo(k) /\ k \notin upTo(i)
      BY <1>3
    <3>2. \A j \in places : j <= i => j <= k
      <4>1. i \in Nat /\ k \in Nat /\ places \subseteq Nat
        OBVIOUS
      <4>2. QED
        BY <1>3, <4>1
    <3>3. QED
      BY <3>1, <3>2
  <2>2. QED
    BY <1>2, <2>1, FS_Subset
<1>4. count \in Injection(places, 1..Cardinality(places))
  <2>1. count \in [places -> 1..Cardinality(places)]
    BY <1>2
  <2>2. ASSUME NEW i \in places, NEW k \in places, count[i] = count[k] PROVE i = k
    <3>1. ~(i < k) /\ ~(k < i)
      BY <1>2, <1>3, <2>2
    <3>2. QED
      BY <3>1
  <2>3. QED
    BY <2>1, <2>2 DEF Injection, IsInjective
<1>5. IsFiniteSet(1..Cardinality(places)) /\ Cardinality(1..Cardinality(places)) = Cardinality(places)
  BY <1>1, FS_Interval
<1>6. count \in Surjection(places, 1..Cardinality(places))
  BY <1>4, <1>5, FS_Injection
<1>7. ASSUME NEW n \in 1..Cardinality(places)
      PROVE  Nth(places, n) \in places /\ Cardinality(upTo(Nth(places, n))) = n
  <2>1. \E i \in places : count[i] = n
    BY <1>6 DEF Surjection
  <2>2. \E i \in places : Cardinality({j \in places : j <= i}) = n
    BY <2>1
  <2>3. QED
    BY <2>2 DEF Nth
<1>8. QED
  BY <1>1, <1>7

LEMMA OnlyProperties ==
    ASSUME NEW seq \in Seq(PodType), NEW places \in SUBSET DOMAIN seq, Distinct(seq)
    PROVE  /\ Only(seq, places) \in Seq(PodType)
           /\ Len(Only(seq, places)) = Cardinality(places)
           /\ Cardinality(places) \in Nat
           /\ Distinct(Only(seq, places))
           /\ \A n \in DOMAIN Only(seq, places) :
                \E i \in places : Only(seq, places)[n] = seq[i]
<1>1. Len(seq) \in Nat /\ DOMAIN seq = 1..Len(seq)
  OBVIOUS
<1>2. IsFiniteSet(places) /\ places \in SUBSET Nat
  <2>1. IsFiniteSet(1..Len(seq))
    BY <1>1, FS_Interval
  <2>2. places \in SUBSET (1..Len(seq))
    BY <1>1
  <2>3. IsFiniteSet(places)
    BY <2>1, <2>2, FS_Subset
  <2>4. QED
    BY <2>2, <2>3
<1> DEFINE count == Cardinality(places)
           new == Only(seq, places)
<1>3. /\ count \in Nat
      /\ \A n \in 1..count : /\ Nth(places, n) \in places
                             /\ Cardinality({j \in places : j <= Nth(places, n)}) = n
  BY <1>2, NthPlaces
<1>4. new = [n \in 1..count |-> seq[Nth(places, n)]]
  BY DEF Only
<1> HIDE DEF new, count
<1>5. \A n \in 1..count : new[n] \in PodType /\ Nth(places, n) \in DOMAIN seq
  <2>1. ASSUME NEW n \in 1..count PROVE new[n] \in PodType /\ Nth(places, n) \in DOMAIN seq
    <3>1. Nth(places, n) \in DOMAIN seq
      BY <1>3
    <3>2. seq[Nth(places, n)] \in PodType
      BY <1>1, <3>1
    <3>3. QED
      BY <1>4, <3>1, <3>2
  <2>2. QED
    BY <2>1
<1>6. new \in Seq(PodType) /\ Len(new) = count /\ DOMAIN new = 1..count
  BY <1>3, <1>4, <1>5
<1>7. ASSUME NEW n \in 1..count, NEW k \in 1..count, new[n].id = new[k].id PROVE n = k
  <2>1. Nth(places, n) = Nth(places, k)
    BY <1>4, <1>5, <1>7 DEF Distinct
  <2>2. QED
    BY <1>3, <2>1
<1>8. QED
  BY <1>3, <1>4, <1>6, <1>7 DEF Distinct, new, count

-----------------------------------------------------------------------------
(* What the scripts do to the pods of a service x: nothing; or they pick a *)
(* pod in step p, take it down, add another one in step a and let it take  *)
(* the place of the first in step k; or they add two, from step a, and     *)
(* start both; or they cut every other pod in step c and then refill.      *)
Quiet(sc, x) == \A n \in 1..Len(sc) : \A e \in sc[n] : e.op \in PodOps => x \notin e.on
Swaps(sc, x, p, a, k) ==
    /\ p \in 1..Len(sc) /\ a \in (p + 1)..Len(sc) /\ k \in (a + 1)..Len(sc)
    /\ \A n \in 1..Len(sc) : \A e \in sc[n] :
         /\ e.op \in PodOps \cup {"pick"} => e.on = {x}
         /\ e.op = "pick" => n = p
         /\ e.op \in {"terminate", "unready", "stop"} => p <= n /\ n < a
         /\ e.op = "add" => n = a
         /\ e.op = "replace" => n = k
         /\ e.op \notin {"start_last_two", "cut", "refill"}
    /\ Pick(x) \in sc[p] /\ Add(x) \in sc[a] /\ Replace(x) \in sc[k]
Grows(sc, x, a) ==
    /\ a \in 1..Len(sc) /\ a + 2 <= Len(sc)
    /\ \A n \in 1..Len(sc) : \A e \in sc[n] : e.op \in PodOps =>
         /\ e.on = {x}
         /\ \/ e.op = "add" /\ n \in {a, a + 1}
            \/ e.op = "start_last_two" /\ n = a + 2
    /\ Add(x) \in sc[a] /\ Add(x) \in sc[a + 1] /\ StartLastTwo(x) \in sc[a + 2]
Cuts(sc, c) ==
    /\ c \in 1..Len(sc) /\ c + 1 <= Len(sc)
    /\ \A n \in 1..Len(sc) : \A e \in sc[n] : e.op \in PodOps =>
         \/ e.op = "cut" /\ n = c
         \/ e.op = "refill" /\ n = c + 1
    /\ Cut(Services) \in sc[c] /\ Refill(Services) \in sc[c + 1]

PodPlan(sc, x) ==
    \/ Quiet(sc, x)
    \/ \E p, a, k \in 1..Len(sc) : Swaps(sc, x, p, a, k)
    \/ \E a \in 1..Len(sc) : Grows(sc, x, a)
    \/ \E c \in 1..Len(sc) : Cuts(sc, c)

LEMMA SwapsElsewhere ==
    ASSUME NEW sc, NEW s \in Services, NEW p, NEW a, NEW k, Len(sc) \in Nat,
           Swaps(sc, s, p, a, k), NEW x \in Services
    PROVE  PodPlan(sc, x)
<1>1. p \in 1..Len(sc) /\ a \in 1..Len(sc) /\ k \in 1..Len(sc)
  BY DEF Swaps
<1>2. CASE x = s
  BY <1>1, <1>2 DEF PodPlan
<1>3. CASE x # s
  BY <1>3 DEF PodPlan, Quiet, Swaps
<1>4. QED
  BY <1>2, <1>3

(* Script by script.                                                       *)
LEMMA KillPodSwaps == ASSUME NEW s PROVE Swaps(KillPod(s), s, 1, 4, 5)
<1> DEFINE sc == KillPod(s)
<1>1. /\ Len(sc) = 6 /\ sc[1] = {Pick(s)} /\ sc[2] = {Terminate(s)}
      /\ sc[3] = {Unready(s), Sick({s}), Save({s}, "latency"), Save({s}, "errors"),
                  Raise({s}, "latency"), Assign({s}, "errors")}
      /\ sc[4] = {Add(s)} /\ sc[5] = {Replace(s)}
      /\ sc[6] = {Restore({s}, "latency"), Restore({s}, "errors"), Well({s})}
  BY DEF KillPod
<1> HIDE DEF sc
<1>2. /\ \A e \in sc[1] : e.op = "pick" /\ e.on = {s}
      /\ \A e \in sc[2] : e.op = "terminate" /\ e.on = {s}
      /\ \A e \in sc[3] : e.op \in {"unready", "sick", "save", "raise", "assign"} /\ e.on = {s}
      /\ \A e \in sc[4] : e.op = "add" /\ e.on = {s}
      /\ \A e \in sc[5] : e.op = "replace" /\ e.on = {s}
      /\ \A e \in sc[6] : e.op \in {"restore", "well"}
  BY <1>1 DEF Pick, Terminate, Unready, Sick, Save, Raise, Assign, Add, Replace, Restore,
       Well, OnService, OnMetric, Effect
<1>3. \A n \in 1..6 : n = 1 \/ n = 2 \/ n = 3 \/ n = 4 \/ n = 5 \/ n = 6
  OBVIOUS
<1>4. ASSUME NEW n \in 1..6, NEW e \in sc[n]
      PROVE  /\ e.op \in PodOps \cup {"pick"} => e.on = {s}
             /\ e.op = "pick" => n = 1
             /\ e.op \in {"terminate", "unready", "stop"} => 1 <= n /\ n < 4
             /\ e.op = "add" => n = 4
             /\ e.op = "replace" => n = 5
             /\ e.op \notin {"start_last_two", "cut", "refill"}
  BY <1>2, <1>3 DEF PodOps
<1>5. Pick(s) \in sc[1] /\ Add(s) \in sc[4] /\ Replace(s) \in sc[5]
  BY <1>1
<1>6. Len(sc) = 6 /\ 1 \in 1..6 /\ 4 \in (1 + 1)..6 /\ 5 \in (4 + 1)..6
  BY <1>1
<1>7. QED
  BY <1>4, <1>5, <1>6 DEF Swaps, sc

LEMMA CpuPressureGrows == ASSUME NEW s PROVE Grows(CpuPressure(s), s, 3)
<1> DEFINE sc == CpuPressure(s)
<1>1. /\ Len(sc) = 7 /\ sc[1] = {Raise({s}, "latency")} /\ sc[2] = {Raise({s}, "latency")}
      /\ sc[3] = {Add(s)} /\ sc[4] = {Add(s)} /\ sc[5] = {StartLastTwo(s)}
      /\ sc[6] = {Lower({s}, "latency")} /\ sc[7] = {Lower({s}, "latency")}
  BY DEF CpuPressure
<1> HIDE DEF sc
<1>2. /\ \A e \in sc[1] : e.op = "raise"
      /\ \A e \in sc[2] : e.op = "raise"
      /\ \A e \in sc[3] : e.op = "add" /\ e.on = {s}
      /\ \A e \in sc[4] : e.op = "add" /\ e.on = {s}
      /\ \A e \in sc[5] : e.op = "start_last_two" /\ e.on = {s}
      /\ \A e \in sc[6] : e.op = "lower"
      /\ \A e \in sc[7] : e.op = "lower"
  BY <1>1 DEF Raise, Add, StartLastTwo, Lower, OnService, OnMetric, Effect
<1>3. \A n \in 1..7 : n = 1 \/ n = 2 \/ n = 3 \/ n = 4 \/ n = 5 \/ n = 6 \/ n = 7
  OBVIOUS
<1>4. ASSUME NEW n \in 1..7, NEW e \in sc[n], e.op \in PodOps
      PROVE  /\ e.on = {s}
             /\ \/ e.op = "add" /\ n \in {3, 3 + 1}
                \/ e.op = "start_last_two" /\ n = 3 + 2
  BY <1>2, <1>3, <1>4 DEF PodOps
<1>5. Add(s) \in sc[3] /\ Add(s) \in sc[3 + 1] /\ StartLastTwo(s) \in sc[3 + 2]
  BY <1>1
<1>6. Len(sc) = 7 /\ 3 \in 1..7 /\ 3 + 2 <= 7
  BY <1>1
<1>7. QED
  BY <1>4, <1>5, <1>6 DEF Grows, sc

LEMMA RegionOutageCuts == Cuts(RegionOutage, 1)
<1> DEFINE sc == RegionOutage
<1>1. /\ Len(sc) = 2
      /\ sc[1] = {Cut(Services), Sick(Services), Raise(Services, "latency")}
      /\ sc[2] = {Refill(Services), Well(Services), Divide(Services, "latency")}
  BY DEF RegionOutage
<1> HIDE DEF sc
<1>2. /\ \A e \in sc[1] : e.op \in {"cut", "sick", "raise"}
      /\ \A e \in sc[2] : e.op \in {"refill", "well", "divide"}
  BY <1>1 DEF Cut, Sick, Raise, Refill, Well, Divide, OnService, OnMetric, Effect
<1>3. \A n \in 1..2 : n = 1 \/ n = 2
  OBVIOUS
<1>4. ASSUME NEW n \in 1..2, NEW e \in sc[n], e.op \in PodOps
      PROVE  \/ e.op = "cut" /\ n = 1
             \/ e.op = "refill" /\ n = 1 + 1
  BY <1>2, <1>3, <1>4 DEF PodOps
<1>5. Len(sc) = 2 /\ 1 \in 1..2 /\ 1 + 1 <= 2 /\ 1 + 1 = 2
  BY <1>1
<1>6. Cut(Services) \in sc[1] /\ Refill(Services) \in sc[1 + 1]
  BY <1>1
<1>7. QED
  BY <1>4, <1>5, <1>6 DEF Cuts, sc

LEMMA MemoryLeakSwaps == ASSUME NEW s PROVE Swaps(MemoryLeak(s), s, 1, 4, 5)
<1> DEFINE sc == MemoryLeak(s)
<1>1. /\ Len(sc) = 5
      /\ sc[1] = {Pick(s)}
      /\ sc[2] = {Save({s}, "latency"), Raise({s}, "latency")}
      /\ sc[3] = {Stop(s), Sick({s})}
      /\ sc[4] = {Add(s)}
      /\ sc[5] = {Replace(s), Restore({s}, "latency"), Well({s})}
  BY DEF MemoryLeak
<1> HIDE DEF sc
<1>2. /\ \A e \in sc[1] : e.op = "pick" /\ e.on = {s}
      /\ \A e \in sc[2] : e.op \in {"save", "raise"} /\ e.on = {s}
      /\ \A e \in sc[3] : e.op \in {"stop", "sick"} /\ e.on = {s}
      /\ \A e \in sc[4] : e.op = "add" /\ e.on = {s}
      /\ \A e \in sc[5] : e.op \in {"replace", "restore", "well"} /\ e.on = {s}
  BY <1>1 DEF Pick, Save, Raise, Stop, Sick, Add, Replace, Restore, Well,
       OnService, OnMetric, Effect
<1>3. \A n \in 1..5 : n = 1 \/ n = 2 \/ n = 3 \/ n = 4 \/ n = 5
  OBVIOUS
<1>4. ASSUME NEW n \in 1..5, NEW e \in sc[n]
      PROVE  /\ e.op \in PodOps \cup {"pick"} => e.on = {s}
             /\ e.op = "pick" => n = 1
             /\ e.op \in {"terminate", "unready", "stop"} => 1 <= n /\ n < 4
             /\ e.op = "add" => n = 4
             /\ e.op = "replace" => n = 5
             /\ e.op \notin {"start_last_two", "cut", "refill"}
  BY <1>2, <1>3 DEF PodOps
<1>5. Pick(s) \in sc[1] /\ Add(s) \in sc[4] /\ Replace(s) \in sc[5]
  BY <1>1
<1>6. Len(sc) = 5 /\ 1 \in 1..5 /\ 4 \in (1 + 1)..5 /\ 5 \in (4 + 1)..5
  BY <1>1
<1>7. QED
  BY <1>4, <1>5, <1>6 DEF Swaps, sc

LEMMA DiskFullSwaps == ASSUME NEW s PROVE Swaps(DiskFull(s), s, 1, 4, 5)
<1> DEFINE sc == DiskFull(s)
<1>1. /\ Len(sc) = 5
      /\ sc[1] = {Pick(s)}
      /\ sc[2] = {Save({s}, "errors"), Assign({s}, "errors")}
      /\ sc[3] = {Stop(s), Sick({s})}
      /\ sc[4] = {Add(s)}
      /\ sc[5] = {Replace(s), Restore({s}, "errors"), Well({s})}
  BY DEF DiskFull
<1> HIDE DEF sc
<1>2. /\ \A e \in sc[1] : e.op = "pick" /\ e.on = {s}
      /\ \A e \in sc[2] : e.op \in {"save", "assign"} /\ e.on = {s}
      /\ \A e \in sc[3] : e.op \in {"stop", "sick"} /\ e.on = {s}
      /\ \A e \in sc[4] : e.op = "add" /\ e.on = {s}
      /\ \A e \in sc[5] : e.op \in {"replace", "restore", "well"} /\ e.on = {s}
  BY <1>1 DEF Pick, Save, Assign, Stop, Sick, Add, Replace, Restore, Well,
       OnService, OnMetric, Effect
<1>3. \A n \in 1..5 : n = 1 \/ n = 2 \/ n = 3 \/ n = 4 \/ n = 5
  OBVIOUS
<1>4. ASSUME NEW n \in 1..5, NEW e \in sc[n]
      PROVE  /\ e.op \in PodOps \cup {"pick"} => e.on = {s}
             /\ e.op = "pick" => n = 1
             /\ e.op \in {"terminate", "unready", "stop"} => 1 <= n /\ n < 4
             /\ e.op = "add" => n = 4
             /\ e.op = "replace" => n = 5
             /\ e.op \notin {"start_last_two", "cut", "refill"}
  BY <1>2, <1>3 DEF PodOps
<1>5. Pick(s) \in sc[1] /\ Add(s) \in sc[4] /\ Replace(s) \in sc[5]
  BY <1>1
<1>6. Len(sc) = 5 /\ 1 \in 1..5 /\ 4 \in (1 + 1)..5 /\ 5 \in (4 + 1)..5
  BY <1>1
<1>7. QED
  BY <1>4, <1>5, <1>6 DEF Swaps, sc

LEMMA SpotReclaimSwaps == Swaps(SpotReclaim, "api-gateway", 1, 2, 3)
<1> DEFINE sc == SpotReclaim
<1>1. /\ Len(sc) = 3
      /\ sc[1] = {Pick("api-gateway"), Stop("api-gateway")}
      /\ sc[2] = {Add("api-gateway")}
      /\ sc[3] = {Replace("api-gateway")}
  BY DEF SpotReclaim
<1> HIDE DEF sc
<1>2. /\ \A e \in sc[1] : e.op \in {"pick", "stop"} /\ e.on = {"api-gateway"}
      /\ \A e \in sc[2] : e.op = "add" /\ e.on = {"api-gateway"}
      /\ \A e \in sc[3] : e.op = "replace" /\ e.on = {"api-gateway"}
  BY <1>1 DEF Pick, Stop, Add, Replace, OnService, Effect
<1>3. \A n \in 1..3 : n = 1 \/ n = 2 \/ n = 3
  OBVIOUS
<1>4. ASSUME NEW n \in 1..3, NEW e \in sc[n]
      PROVE  /\ e.op \in PodOps \cup {"pick"} => e.on = {"api-gateway"}
             /\ e.op = "pick" => n = 1
             /\ e.op \in {"terminate", "unready", "stop"} => 1 <= n /\ n < 2
             /\ e.op = "add" => n = 2
             /\ e.op = "replace" => n = 3
             /\ e.op \notin {"start_last_two", "cut", "refill"}
  BY <1>2, <1>3 DEF PodOps
<1>5. Pick("api-gateway") \in sc[1] /\ Add("api-gateway") \in sc[2] /\ Replace("api-gateway") \in sc[3]
  BY <1>1
<1>6. Len(sc) = 3 /\ 1 \in 1..3 /\ 2 \in (1 + 1)..3 /\ 3 \in (2 + 1)..3
  BY <1>1
<1>7. QED
  BY <1>4, <1>5, <1>6 DEF Swaps, sc

LeavesPods(sc) == \A n \in 1..Len(sc) : \A e \in sc[n] : e.op \notin PodOps

LEMMA LeavingIsQuiet ==
    ASSUME NEW sc, LeavesPods(sc), NEW x PROVE PodPlan(sc, x)
  BY DEF LeavesPods, Quiet, PodPlan

LEMMA NetworkPartitionLeavesPods == ASSUME NEW s PROVE LeavesPods(NetworkPartition(s))
<1>1. /\ Len(NetworkPartition(s)) = 2
      /\ \A e \in NetworkPartition(s)[1] : e.op \notin PodOps
      /\ \A e \in NetworkPartition(s)[2] : e.op \notin PodOps
  BY DEF NetworkPartition, Save, Sick, Assign, Restore, Well, OnMetric,
       OnService, Effect, PodOps
<1>2. QED
  BY <1>1 DEF LeavesPods

LEMMA ApiErrorsLeavesPods == ASSUME NEW S PROVE LeavesPods(ApiErrors(S))
<1>1. /\ Len(ApiErrors(S)) = 2
      /\ \A e \in ApiErrors(S)[1] : e.op \notin PodOps
      /\ \A e \in ApiErrors(S)[2] : e.op \notin PodOps
  BY DEF ApiErrors, Sick, Save, Assign, Restore, Well, OnService, OnMetric,
       Effect, PodOps
<1>2. QED
  BY <1>1 DEF LeavesPods

LEMMA RedisFailureLeavesPods == LeavesPods(RedisFailure)
<1>1. /\ Len(RedisFailure) = 2
      /\ \A e \in RedisFailure[1] : e.op \notin PodOps
      /\ \A e \in RedisFailure[2] : e.op \notin PodOps
  BY DEF RedisFailure, Save, Raise, Restore, OnMetric, Effect, PodOps
<1>2. QED
  BY <1>1 DEF LeavesPods

LEMMA DbFailureLeavesPods == LeavesPods(DbFailure)
<1>1. /\ Len(DbFailure) = 2
      /\ \A e \in DbFailure[1] : e.op \notin PodOps
      /\ \A e \in DbFailure[2] : e.op \notin PodOps
  BY DEF DbFailure, Save, Sick, Assign, Raise, Well, Restore, OnMetric,
       OnService, Effect, PodOps
<1>2. QED
  BY <1>1 DEF LeavesPods

LEMMA SlowNetworkLeavesPods == LeavesPods(SlowNetwork)
<1>1. /\ Len(SlowNetwork) = 3
      /\ \A e \in SlowNetwork[1] : e.op \notin PodOps
      /\ \A e \in SlowNetwork[2] : e.op \notin PodOps
      /\ \A e \in SlowNetwork[3] : e.op \notin PodOps
  BY DEF SlowNetwork, Save, Raise, Restore, Lower, OnMetric, Effect, PodOps
<1>2. QED
  BY <1>1 DEF LeavesPods

LEMMA DnsFailureLeavesPods == LeavesPods(DnsFailure)
<1>1. /\ Len(DnsFailure) = 2
      /\ \A e \in DnsFailure[1] : e.op \notin PodOps
      /\ \A e \in DnsFailure[2] : e.op \notin PodOps
  BY DEF DnsFailure, Raise, Lower, OnMetric, Effect, PodOps
<1>2. QED
  BY <1>1 DEF LeavesPods

LEMMA CascadingFailureLeavesPods == LeavesPods(CascadingFailure)
<1>1. /\ Len(CascadingFailure) = 4
      /\ \A e \in CascadingFailure[1] : e.op \notin PodOps
      /\ \A e \in CascadingFailure[2] : e.op \notin PodOps
      /\ \A e \in CascadingFailure[3] : e.op \notin PodOps
      /\ \A e \in CascadingFailure[4] : e.op \notin PodOps
  BY DEF CascadingFailure, Sick, Assign, Raise, Well, Divide, Reset, OnService,
       OnMetric, Effect, PodOps
<1>2. QED
  BY <1>1 DEF LeavesPods

LEMMA GcPauseLeavesPods == ASSUME NEW s PROVE LeavesPods(GcPause(s))
<1>1. /\ Len(GcPause(s)) = 3
      /\ \A e \in GcPause(s)[1] : e.op \notin PodOps
      /\ \A e \in GcPause(s)[2] : e.op \notin PodOps
      /\ \A e \in GcPause(s)[3] : e.op \notin PodOps
  BY DEF GcPause, Save, Raise, RaiseAnew, Restore, OnMetric, Effect, PodOps
<1>2. QED
  BY <1>1 DEF LeavesPods

LEMMA ThunderingHerdLeavesPods == LeavesPods(ThunderingHerd)
<1>1. /\ Len(ThunderingHerd) = 4
      /\ \A e \in ThunderingHerd[1] : e.op \notin PodOps
      /\ \A e \in ThunderingHerd[2] : e.op \notin PodOps
      /\ \A e \in ThunderingHerd[3] : e.op \notin PodOps
      /\ \A e \in ThunderingHerd[4] : e.op \notin PodOps
  BY DEF ThunderingHerd, Save, Assign, Restore, Raise, Divide, OnMetric,
       Effect, PodOps
<1>2. QED
  BY <1>1 DEF LeavesPods

LEMMA NoisyNeighborLeavesPods == LeavesPods(NoisyNeighbor)
<1>1. /\ Len(NoisyNeighbor) = 2
      /\ \A e \in NoisyNeighbor[1] : e.op \notin PodOps
      /\ \A e \in NoisyNeighbor[2] : e.op \notin PodOps
  BY DEF NoisyNeighbor, Save, Raise, Restore, OnMetric, Effect, PodOps
<1>2. QED
  BY <1>1 DEF LeavesPods

LEMMA AutoscalerStuckLeavesPods == LeavesPods(AutoscalerStuck)
<1>1. /\ Len(AutoscalerStuck) = 2
      /\ \A e \in AutoscalerStuck[1] : e.op \notin PodOps
      /\ \A e \in AutoscalerStuck[2] : e.op \notin PodOps
  BY DEF AutoscalerStuck, Raise, Assign, Divide, Reset, OnMetric, Effect,
       PodOps
<1>2. QED
  BY <1>1 DEF LeavesPods

LEMMA SecretLeakLeavesPods == LeavesPods(SecretLeak)
<1>1. /\ Len(SecretLeak) = 2
      /\ \A e \in SecretLeak[1] : e.op \notin PodOps
      /\ \A e \in SecretLeak[2] : e.op \notin PodOps
  BY DEF SecretLeak, Sick, Well, OnService, Effect, PodOps
<1>2. QED
  BY <1>1 DEF LeavesPods

LEMMA ServiceMeshCrashLeavesPods == ASSUME NEW s PROVE LeavesPods(ServiceMeshCrash(s))
<1>1. /\ Len(ServiceMeshCrash(s)) = 2
      /\ \A e \in ServiceMeshCrash(s)[1] : e.op \notin PodOps
      /\ \A e \in ServiceMeshCrash(s)[2] : e.op \notin PodOps
  BY DEF ServiceMeshCrash, Save, Assign, Restore, OnMetric, Effect, PodOps
<1>2. QED
  BY <1>1 DEF LeavesPods

LEMMA ThirdPartyOutageLeavesPods == LeavesPods(ThirdPartyOutage)
<1>1. /\ Len(ThirdPartyOutage) = 2
      /\ \A e \in ThirdPartyOutage[1] : e.op \notin PodOps
      /\ \A e \in ThirdPartyOutage[2] : e.op \notin PodOps
  BY DEF ThirdPartyOutage, Assign, Reset, OnMetric, Effect, PodOps
<1>2. QED
  BY <1>1 DEF LeavesPods

LEMMA EmptyLeavesPods == LeavesPods(<< >>)
  BY DEF LeavesPods

LEMMA EveryScriptHasPlan ==
    ASSUME NEW name \in Names, NEW s \in Services, NEW x \in Services
    PROVE  PodPlan(Script(name, s), x)
<1>1. Len(Script(name, s)) \in Nat
  BY ScriptsBehave DEF WellBehaved
<1>2. CASE name = "kill_pod"
  BY <1>1, <1>2, KillPodSwaps, SwapsElsewhere DEF Script
<1>3. CASE name = "cpu_pressure"
  <2>1. Script(name, s) = CpuPressure(s) /\ Grows(CpuPressure(s), s, 3)
    BY <1>3, CpuPressureGrows DEF Script
  <2>2. CASE x = s
    BY <2>1, <2>2 DEF PodPlan, Grows
  <2>3. CASE x # s
    BY <2>1, <2>3 DEF PodPlan, Grows, Quiet
  <2>4. QED
    BY <2>2, <2>3
<1>4. CASE name = "network_partition"
  BY <1>4, NetworkPartitionLeavesPods, LeavingIsQuiet DEF Script
<1>5. CASE name = "expire_jwt"
  BY <1>5, ApiErrorsLeavesPods, LeavingIsQuiet DEF Script, ExpireJwt
<1>6. CASE name = "region_outage"
  <2>1. Script(name, s) = RegionOutage /\ Cuts(RegionOutage, 1)
    BY <1>6, RegionOutageCuts DEF Script
  <2>2. QED
    BY <2>1 DEF PodPlan, Cuts
<1>7. CASE name = "bad_deploy"
  BY <1>7, EmptyLeavesPods, LeavingIsQuiet DEF Script, BadDeploy
<1>8. CASE name = "redis_failure"
  BY <1>8, RedisFailureLeavesPods, LeavingIsQuiet DEF Script
<1>9. CASE name = "db_failure"
  BY <1>9, DbFailureLeavesPods, LeavingIsQuiet DEF Script
<1>10. CASE name = "slow_network"
  BY <1>10, SlowNetworkLeavesPods, LeavingIsQuiet DEF Script
<1>11. CASE name = "memory_leak"
  BY <1>1, <1>11, MemoryLeakSwaps, SwapsElsewhere DEF Script
<1>12. CASE name = "cert_expiry"
  BY <1>12, ApiErrorsLeavesPods, LeavingIsQuiet DEF Script, CertExpiry
<1>13. CASE name = "dns_failure"
  BY <1>13, DnsFailureLeavesPods, LeavingIsQuiet DEF Script
<1>14. CASE name = "cascading_failure"
  BY <1>14, CascadingFailureLeavesPods, LeavingIsQuiet DEF Script
<1>15. CASE name = "disk_full"
  BY <1>1, <1>15, DiskFullSwaps, SwapsElsewhere DEF Script
<1>16. CASE name = "gc_pause"
  BY <1>16, GcPauseLeavesPods, LeavingIsQuiet DEF Script
<1>17. CASE name = "thundering_herd"
  BY <1>17, ThunderingHerdLeavesPods, LeavingIsQuiet DEF Script
<1>18. CASE name = "noisy_neighbor"
  BY <1>18, NoisyNeighborLeavesPods, LeavingIsQuiet DEF Script
<1>19. CASE name = "spot_reclaim"
  BY <1>1, <1>19, SpotReclaimSwaps, SwapsElsewhere DEF Script, Services
<1>20. CASE name = "autoscaler_stuck"
  BY <1>20, AutoscalerStuckLeavesPods, LeavingIsQuiet DEF Script
<1>21. CASE name = "api_throttle"
  BY <1>21, EmptyLeavesPods, LeavingIsQuiet DEF Script, ApiThrottle
<1>22. CASE name = "secret_leak"
  BY <1>22, SecretLeakLeavesPods, LeavingIsQuiet DEF Script
<1>23. CASE name = "service_mesh_crash"
  BY <1>23, ServiceMeshCrashLeavesPods, LeavingIsQuiet DEF Script
<1>24. CASE name = "third_party_outage"
  BY <1>24, ThirdPartyOutageLeavesPods, LeavingIsQuiet DEF Script
<1>25. QED
  BY <1>2, <1>3, <1>4, <1>5, <1>6, <1>7, <1>8, <1>9, <1>10, <1>11, <1>12,
     <1>13, <1>14, <1>15, <1>16, <1>17, <1>18, <1>19, <1>20, <1>21, <1>22,
     <1>23, <1>24 DEF Names

-----------------------------------------------------------------------------
(* What becomes of the pods of a service in a step, its run having picked  *)
(* `target` and made `mine`.                                               *)
BecomePods(step, x, r, n, old, target, mine, new) ==
    \/ (\A op \in PodOps : ~Has(step, op, x, "none")) /\ new = old
    \/ Has(step, "terminate", x, "none")
         /\ new = SetPhase(old, Named(old, target), "terminating")
    \/ Has(step, "unready", x, "none") /\ new = SetReady(old, Named(old, target), FALSE)
    \/ Has(step, "stop", x, "none") /\ new = Stopped(old, Named(old, target))
    \/ Has(step, "add", x, "none") /\ new = Append(old, Pod(r, n, "pending"))
    \/ Has(step, "replace", x, "none")
         /\ new = Only(Running(old, Named(old, mine)), DOMAIN old \ Named(old, target))
    \/ Has(step, "start_last_two", x, "none") /\ new = Running(old, LastTwo(old))
    \/ Has(step, "cut", x, "none") /\ new = Stopped(old, EveryOther(old))
    \/ Has(step, "refill", x, "none") /\ new = Refilled(old, r)

LEMMA PodsStep ==
    ASSUME NEW step, NEW x \in Services, NEW memory, NEW r, NEW n
    PROVE  BecomePods(step, x, r, n, pods[x], memory.target, memory.mine,
                      PodsAfterStep(step, x, memory, r, n))
<1> DEFINE onPods == Effects(step, PodOps, x, "none")
           e == The(onPods)
           new == PodsAfterStep(step, x, memory, r, n)
<1>1. CASE onPods = {}
  <2>1. new = pods[x]
    BY <1>1 DEF PodsAfterStep
  <2>2. \A op \in PodOps : ~Has(step, op, x, "none")
    BY <1>1 DEF Effects, Has
  <2>3. QED
    BY <2>1, <2>2 DEF BecomePods
<1>2. CASE onPods # {}
  <2>1. e \in onPods
    BY <1>2 DEF The
  <2>2. new = PodsAfter(e, pods[x], memory, r, n)
    BY <1>2 DEF PodsAfterStep
  <2>3. e.op \in PodOps /\ Has(step, e.op, x, "none")
    BY <2>1 DEF Effects, Has
  <2> HIDE DEF e, onPods, new
  <2>4. CASE e.op = "terminate"
    BY <2>2, <2>3, <2>4 DEF PodsAfter, BecomePods, new
  <2>5. CASE e.op = "unready"
    BY <2>2, <2>3, <2>5 DEF PodsAfter, BecomePods, new
  <2>6. CASE e.op = "stop"
    BY <2>2, <2>3, <2>6 DEF PodsAfter, BecomePods, new
  <2>7. CASE e.op = "add"
    BY <2>2, <2>3, <2>7 DEF PodsAfter, BecomePods, new
  <2>8. CASE e.op = "replace"
    BY <2>2, <2>3, <2>8 DEF PodsAfter, BecomePods, new
  <2>9. CASE e.op = "start_last_two"
    BY <2>2, <2>3, <2>9 DEF PodsAfter, BecomePods, new
  <2>10. CASE e.op = "cut"
    BY <2>2, <2>3, <2>10 DEF PodsAfter, BecomePods, new
  <2>11. CASE e.op = "refill"
    BY <2>2, <2>3, <2>11 DEF PodsAfter, BecomePods, new
  <2>12. QED
    BY <2>3, <2>4, <2>5, <2>6, <2>7, <2>8, <2>9, <2>10, <2>11 DEF PodOps
<1>3. QED
  BY <1>1, <1>2

-----------------------------------------------------------------------------
(* The names of pods: those that a run has made are of steps it has done.  *)
Made(sc, d, x, n) ==
    \E k \in 1..d : \/ Has(sc[k], "add", x, "none") /\ n = k
                    \/ Has(sc[k], "refill", x, "none")
NamesOf(r, sc, d, x, seq) ==
    \A i \in DOMAIN seq : seq[i].id[1] = r => Made(sc, d, x, seq[i].id[2])

(* After a step of r: still pods with names of their own, old ones or r's. *)
SoundStep(r, sc, d, x, old, new) ==
    /\ new \in Seq(PodType) /\ Distinct(new)
    /\ \A i \in DOMAIN new :
         \/ \E j \in DOMAIN old : new[i].id = old[j].id
         \/ new[i].id[1] = r /\ Made(sc, d + 1, x, new[i].id[2])

LEMMA SameIsSound ==
    ASSUME NEW r, NEW sc, NEW d, NEW x, NEW old \in Seq(PodType), Distinct(old)
    PROVE  /\ SoundStep(r, sc, d, x, old, old)
           /\ \A new, chosen : SamePods(old, new, chosen) => SoundStep(r, sc, d, x, old, new)
  BY DEF SoundStep, SamePods, Distinct

OneMore(old, new, id) ==
    /\ Len(new) = Len(old) + 1 /\ DOMAIN new = 1..(Len(old) + 1)
    /\ \A i \in DOMAIN old : new[i] = old[i]
    /\ new[Len(old) + 1].id = id

LEMMA AddIsSound ==
    ASSUME NEW r \in Nat, NEW sc, NEW d \in Nat, NEW x,
           NEW old \in Seq(PodType), Distinct(old),
           Has(sc[d + 1], "add", x, "none"),
           \A i \in DOMAIN old : old[i].id # <<r, d + 1>>,
           NEW new, new = Append(old, Pod(r, d + 1, "pending"))
    PROVE  SoundStep(r, sc, d, x, old, new) /\ OneMore(old, new, <<r, d + 1>>)
<1> DEFINE pod == Pod(r, d + 1, "pending")
<1> new = Append(old, pod)
  OBVIOUS
<1>1. pod \in PodType /\ pod.id = <<r, d + 1>>
  <2>1. "pending" \in Phases /\ d + 1 \in Nat
    BY DEF Phases
  <2>2. QED
    BY <2>1, PodIsPod
<1> HIDE DEF pod
<1>2. /\ new \in Seq(PodType) /\ Len(new) = Len(old) + 1
      /\ DOMAIN new = 1..(Len(old) + 1) /\ DOMAIN old = 1..Len(old) /\ Len(old) \in Nat
      /\ \A i \in 1..Len(old) : new[i] = old[i]
      /\ new[Len(old) + 1] = pod
  BY <1>1, AppendProperties
<1>3. Distinct(new)
  <2>1. ASSUME NEW i \in DOMAIN new, NEW j \in DOMAIN new, new[i].id = new[j].id PROVE i = j
    <3>1. CASE i \in DOMAIN old /\ j \in DOMAIN old
      BY <1>2, <2>1, <3>1 DEF Distinct
    <3>2. CASE i \notin DOMAIN old \/ j \notin DOMAIN old
      <4>1. \A q \in DOMAIN new : q \notin DOMAIN old => q = Len(old) + 1
        BY <1>2
      <4>2. QED
        BY <1>1, <1>2, <2>1, <3>2, <4>1
    <3>3. QED
      BY <3>1, <3>2
  <2>2. QED
    BY <2>1 DEF Distinct
<1>4. Made(sc, d + 1, x, d + 1)
  BY DEF Made
<1>5. ASSUME NEW i \in DOMAIN new
      PROVE  \/ \E j \in DOMAIN old : new[i].id = old[j].id
             \/ new[i].id[1] = r /\ Made(sc, d + 1, x, new[i].id[2])
  <2>1. CASE i \in DOMAIN old
    BY <1>2, <2>1
  <2>2. CASE i \notin DOMAIN old
    <3>1. i = Len(old) + 1
      BY <1>2, <2>2
    <3>2. QED
      BY <1>1, <1>2, <1>4, <3>1
  <2>3. QED
    BY <2>1, <2>2
<1>6. QED
  BY <1>1, <1>2, <1>3, <1>5 DEF SoundStep, OneMore

LEMMA RefillIsSound ==
    ASSUME NEW r \in Nat, NEW sc, NEW d \in Nat, NEW x,
           NEW old \in Seq(PodType), Distinct(old),
           Has(sc[d + 1], "refill", x, "none"),
           \A i \in DOMAIN old : old[i].id[1] # r
    PROVE  /\ SoundStep(r, sc, d, x, old, Refilled(old, r))
           /\ (\A i \in DOMAIN old : Up(old[i]) \/ old[i].phase = "terminating") =>
                Whole(Refilled(old, r))
           /\ Len(Refilled(old, r)) >= Desired
<1> DEFINE rest == Only(old, Staying(old))
           more == Desired - Len(rest)
           added == [i \in 1..more |-> Pod(r, i, "running")]
           new == Refilled(old, r)
<1>1. Staying(old) \in SUBSET DOMAIN old
  BY DEF Staying
<1>2. /\ rest \in Seq(PodType) /\ Len(rest) \in Nat /\ Distinct(rest)
      /\ \A n \in DOMAIN rest : \E i \in Staying(old) : rest[n] = old[i]
  BY <1>1, OnlyProperties
<1>3. new = rest \o added
  BY DEF Refilled
<1>4. Desired \in Nat
  BY ClusterAssumption
<1> HIDE DEF rest, new
<1>5. \A i \in 1..more : /\ added[i] \in PodType /\ added[i].id = <<r, i>> /\ Up(added[i])
  <2>1. ASSUME NEW i \in 1..more
        PROVE  added[i] \in PodType /\ added[i].id = <<r, i>> /\ Up(added[i])
    <3>1. i \in Nat /\ "running" \in Phases
      BY <1>2, <1>4 DEF Phases
    <3>2. added[i] = Pod(r, i, "running")
      OBVIOUS
    <3>3. QED
      BY <3>1, <3>2, PodIsPod
  <2>2. QED
    BY <2>1
<1> DEFINE extra == IF more > 0 THEN more ELSE 0
<1>6. /\ extra \in Nat /\ added = [i \in 1..extra |-> added[i]] /\ 1..more = 1..extra
      /\ Len(rest) + extra >= Desired
  BY <1>2, <1>4
<1> HIDE DEF added, more, extra
<1>7. added \in Seq(PodType) /\ Len(added) = extra /\ DOMAIN added = 1..extra
  <2>1. \A i \in 1..extra : added[i] \in PodType
    BY <1>5, <1>6
  <2>2. extra \in Nat /\ added = [i \in 1..extra |-> added[i]]
    BY <1>6
  <2>3. QED
    BY <2>1, <2>2
<1>8. /\ new \in Seq(PodType) /\ Len(new) = Len(rest) + extra
      /\ DOMAIN new = 1..(Len(rest) + extra)
      /\ DOMAIN rest = 1..Len(rest)
      /\ \A i \in DOMAIN new :
           new[i] = IF i <= Len(rest) THEN rest[i] ELSE added[i - Len(rest)]
  BY <1>2, <1>3, <1>6, <1>7, ConcatProperties
<1>9. ASSUME NEW i \in DOMAIN new
      PROVE  \/ /\ i <= Len(rest) /\ i \in DOMAIN rest /\ new[i] = rest[i]
                /\ \E j \in Staying(old) : new[i] = old[j]
             \/ /\ i > Len(rest) /\ i - Len(rest) \in 1..extra
                /\ new[i] = added[i - Len(rest)]
  <2>1. i \in 1..(Len(rest) + extra) /\ Len(rest) \in Nat /\ extra \in Nat
    BY <1>2, <1>6, <1>8
  <2>2. CASE i <= Len(rest)
    <3>1. i \in DOMAIN rest /\ new[i] = rest[i]
      BY <1>8, <2>1, <2>2
    <3>2. QED
      BY <1>2, <2>2, <3>1
  <2>3. CASE ~(i <= Len(rest))
    <3>1. i > Len(rest) /\ i - Len(rest) \in 1..extra
      BY <2>1, <2>3
    <3>2. QED
      BY <1>8, <2>3, <3>1
  <2>4. QED
    BY <2>2, <2>3
<1>10. ASSUME \A i \in DOMAIN old : Up(old[i]) \/ old[i].phase = "terminating",
              NEW i \in DOMAIN new
       PROVE  Up(new[i])
  <2>1. ASSUME NEW j \in Staying(old) PROVE Up(old[j])
    BY <1>10 DEF Staying
  <2>2. QED
    BY <1>5, <1>6, <1>9, <2>1
<1>11. ASSUME NEW i \in DOMAIN new
       PROVE  \/ /\ i <= Len(rest) /\ i \in DOMAIN rest /\ new[i] = rest[i]
                 /\ new[i].id[1] # r /\ \E j \in DOMAIN old : new[i].id = old[j].id
              \/ /\ i > Len(rest) /\ new[i].id = <<r, i - Len(rest)>>
  BY <1>1, <1>5, <1>6, <1>9
<1>12. Distinct(new)
  <2>1. ASSUME NEW i \in DOMAIN new, NEW j \in DOMAIN new, new[i].id = new[j].id PROVE i = j
    <3>1. i \in Nat /\ j \in Nat /\ Len(rest) \in Nat
      BY <1>2, <1>6, <1>8
    <3>2. CASE i <= Len(rest) /\ j <= Len(rest)
      <4>1. i \in DOMAIN rest /\ j \in DOMAIN rest /\ rest[i].id = rest[j].id
        BY <1>11, <2>1, <3>1, <3>2
      <4>2. QED
        BY <1>2, <4>1 DEF Distinct
    <3>3. CASE i > Len(rest) /\ j > Len(rest)
      <4>1. <<r, i - Len(rest)>> = <<r, j - Len(rest)>>
        BY <1>11, <2>1, <3>1, <3>3
      <4>2. QED
        BY <3>1, <4>1
    <3>4. CASE ~(i <= Len(rest) <=> j <= Len(rest))
      <4>1. ~(new[i].id[1] = r <=> new[j].id[1] = r)
        BY <1>11, <3>1, <3>4
      <4>2. QED
        BY <2>1, <4>1
    <3>5. QED
      BY <3>1, <3>2, <3>3, <3>4
  <2>2. QED
    BY <2>1 DEF Distinct
<1>13. \A n : Made(sc, d + 1, x, n)
  BY DEF Made
<1>14. SoundStep(r, sc, d, x, old, new)
  BY <1>8, <1>11, <1>12, <1>13 DEF SoundStep
<1>15. (\A i \in DOMAIN old : Up(old[i]) \/ old[i].phase = "terminating") => Whole(new)
  BY <1>6, <1>8, <1>10 DEF Whole, AllUp
<1>16. Len(new) >= Desired
  BY <1>6, <1>8
<1>17. QED
  BY <1>14, <1>15, <1>16 DEF new

-----------------------------------------------------------------------------
(* The pods of a service while a run that swaps one of them has done d     *)
(* steps: all but the target are up, then all but the target and the new   *)
(* one, which is one more than there were.                                 *)
TargetDown(seq, target) ==
    /\ Len(seq) >= Desired
    /\ \E i \in DOMAIN seq :
         /\ seq[i].id = target
         /\ \A j \in DOMAIN seq : j # i => Up(seq[j])
TwoForOne(seq, target, mine) ==
    /\ Len(seq) >= Desired + 1 /\ target # mine
    /\ \E i \in DOMAIN seq : seq[i].id = target
    /\ \A j \in DOMAIN seq : Up(seq[j]) \/ seq[j].id = target \/ seq[j].id = mine
SwapStage(d, p, a, k, seq, target, mine) ==
    /\ d < p \/ k <= d => Whole(seq)
    /\ p <= d /\ d < a => TargetDown(seq, target)
    /\ a <= d /\ d < k => TwoForOne(seq, target, mine)

LEMMA SwapOps ==
    ASSUME NEW sc, NEW x, NEW p, NEW a, NEW k, Swaps(sc, x, p, a, k),
           Len(sc) \in Nat, NEW n \in 1..Len(sc)
    PROVE  /\ \A op \in PodOps : Has(sc[n], op, x, "none") =>
                \/ op \in {"terminate", "unready", "stop"} /\ p <= n /\ n < a
                \/ op = "add" /\ n = a
                \/ op = "replace" /\ n = k
           /\ n = a => Has(sc[n], "add", x, "none")
           /\ n = k => Has(sc[n], "replace", x, "none")
<1>1. \A op \in PodOps : Has(sc[n], op, x, "none") =>
        \/ op \in {"terminate", "unready", "stop"} /\ p <= n /\ n < a
        \/ op = "add" /\ n = a
        \/ op = "replace" /\ n = k
  BY DEF Swaps, Has, PodOps
<1>2. n = a => Has(sc[n], "add", x, "none")
  BY DEF Swaps, Has, Add, OnService, Effect
<1>3. n = k => Has(sc[n], "replace", x, "none")
  BY DEF Swaps, Has, Replace, OnService, Effect
<1>4. QED
  BY <1>1, <1>2, <1>3

LEMMA ReplaceIsSound ==
    ASSUME NEW r, NEW sc, NEW d, NEW x, NEW old \in Seq(PodType), Distinct(old),
           NEW target, NEW mine
    PROVE  LET new == Only(Running(old, Named(old, mine)), DOMAIN old \ Named(old, target))
           IN  /\ SoundStep(r, sc, d, x, old, new)
               /\ TwoForOne(old, target, mine) => Whole(new)
               /\ Len(new) \in Nat /\ Len(new) >= Len(old) - 1
<1> DEFINE up == Running(old, Named(old, mine))
           places == DOMAIN old \ Named(old, target)
           new == Only(up, places)
<1>1. /\ SamePods(old, up, Named(old, mine))
      /\ \A i \in DOMAIN old : i \in Named(old, mine) => Up(up[i])
  BY RunningKeeps
<1> HIDE DEF up
<1>2. /\ up \in Seq(PodType) /\ Distinct(up) /\ DOMAIN up = DOMAIN old
      /\ \A i \in DOMAIN old : up[i].id = old[i].id
  BY <1>1 DEF SamePods, Distinct
<1>3. places \in SUBSET DOMAIN up
  BY <1>2
<1>4. /\ new \in Seq(PodType) /\ Distinct(new)
      /\ Len(new) = Cardinality(places)
      /\ \A n \in DOMAIN new : \E i \in places : new[n] = up[i]
  BY <1>2, <1>3, OnlyProperties
<1> HIDE DEF new
<1>5. SoundStep(r, sc, d, x, old, new)
  <2>1. \A n \in DOMAIN new : \E j \in DOMAIN old : new[n].id = old[j].id
    BY <1>2, <1>4
  <2>2. QED
    BY <1>4, <2>1 DEF SoundStep
<1>6. ASSUME TwoForOne(old, target, mine) PROVE Whole(new)
  <2>1. PICK t \in DOMAIN old : old[t].id = target
    BY <1>6 DEF TwoForOne
  <2>2. Named(old, target) = {t}
    BY <2>1 DEF Named, Distinct
  <2>3. Cardinality(places) >= Desired
    <3>1. Len(old) \in Nat /\ DOMAIN old = 1..Len(old) /\ Desired \in Nat
      BY ClusterAssumption
    <3>2. IsFiniteSet(DOMAIN old) /\ Cardinality(DOMAIN old) = Len(old)
      BY <3>1, CountFromOne
    <3>3. Cardinality(DOMAIN old \ {t}) = Cardinality(DOMAIN old) - 1
      BY <2>1, <3>2, FS_RemoveElement
    <3>4. QED
      BY <1>6, <2>2, <3>1, <3>2, <3>3 DEF TwoForOne
  <2>4. ASSUME NEW i \in places PROVE Up(up[i])
    <3>1. i \in DOMAIN old /\ old[i].id # target
      BY DEF Named
    <3>2. CASE old[i].id = mine
      BY <1>1, <3>1, <3>2 DEF Named
    <3>3. CASE old[i].id # mine
      <4>1. Up(old[i])
        BY <1>6, <3>1, <3>3 DEF TwoForOne
      <4>2. up[i] = old[i]
        BY <1>1, <3>1, <3>3 DEF SamePods, Named
      <4>3. QED
        BY <4>1, <4>2
    <3>4. QED
      BY <3>2, <3>3
  <2>5. QED
    BY <1>4, <2>3, <2>4 DEF Whole, AllUp
<1>7. Len(new) \in Nat /\ Len(new) >= Len(old) - 1
  <2>1. Len(old) \in Nat /\ DOMAIN old = 1..Len(old)
    OBVIOUS
  <2>2. IsFiniteSet(DOMAIN old) /\ Cardinality(DOMAIN old) = Len(old)
    BY <2>1, CountFromOne
  <2>3. PICK t : Named(old, target) \subseteq {t}
    BY DEF Named, Distinct
  <2>4. places = DOMAIN old \/ places = DOMAIN old \ {t}
    BY <2>3
  <2>5. Cardinality(DOMAIN old \ {t}) \in {Len(old), Len(old) - 1}
    BY <2>2, FS_RemoveElement
  <2> HIDE DEF places
  <2>6. Cardinality(places) \in {Len(old), Len(old) - 1}
    BY <2>2, <2>4, <2>5
  <2>7. \A n \in Nat : Cardinality(places) \in {n, n - 1} /\ Cardinality(places) \in Nat
                        => Cardinality(places) >= n - 1
    OBVIOUS
  <2>8. Len(new) = Cardinality(places) /\ Len(new) \in Nat
    BY <1>4
  <2>9. QED
    BY <2>1, <2>6, <2>7, <2>8
<1>8. QED
  BY <1>5, <1>6, <1>7 DEF new, up

LEMMA SwapStep ==
    ASSUME NEW r \in Nat, NEW sc, Len(sc) \in Nat, NEW d \in Nat, d < Len(sc),
           NEW x \in Services, NEW p, NEW a, NEW k, Swaps(sc, x, p, a, k),
           NEW old \in Seq(PodType), Distinct(old), NamesOf(r, sc, d, x, old),
           NEW target, NEW mine, SwapStage(d, p, a, k, old, target, mine),
           NEW target2, target2 = IF d + 1 = p THEN Head(old).id ELSE target,
           NEW mine2, mine2 = IF d + 1 = a THEN <<r, d + 1>> ELSE mine,
           NEW new, BecomePods(sc[d + 1], x, r, d + 1, old, target2, mine2, new)
    PROVE  SwapStage(d + 1, p, a, k, new, target2, mine2)
<1>1. /\ \A op \in PodOps : Has(sc[d + 1], op, x, "none") =>
            \/ op \in {"terminate", "unready", "stop"} /\ p <= d + 1 /\ d + 1 < a
            \/ op = "add" /\ d + 1 = a
            \/ op = "replace" /\ d + 1 = k
      /\ d + 1 = a => Has(sc[d + 1], "add", x, "none")
      /\ d + 1 = k => Has(sc[d + 1], "replace", x, "none")
  <2>1. d + 1 \in 1..Len(sc)
    OBVIOUS
  <2>2. QED
    BY <2>1, SwapOps
<1>2. p \in Nat /\ a \in Nat /\ k \in Nat /\ 1 <= p /\ p < a /\ a < k
  BY DEF Swaps
<1>3. CASE d + 1 < p \/ k < d + 1 \/ (a < d + 1 /\ d + 1 < k)
  <2>1. new = old
    <3>1. \A op \in PodOps : ~Has(sc[d + 1], op, x, "none")
      BY <1>1, <1>2, <1>3
    <3>2. QED
      BY <3>1 DEF BecomePods, PodOps
  <2>2. target2 = target /\ mine2 = mine
    BY <1>2, <1>3
  <2>3. SwapStage(d + 1, p, a, k, old, target, mine)
    BY <1>2, <1>3 DEF SwapStage
  <2>4. QED
    BY <2>1, <2>2, <2>3
<1>4. CASE p <= d + 1 /\ d + 1 < a
  <2>1. TargetDown(old, target2)
    <3>1. CASE d + 1 = p
      <4>1. Len(old) >= Desired /\ AllUp(old) /\ Len(old) \in Nat
        BY <3>1 DEF SwapStage, Whole
      <4>2. 1 \in DOMAIN old /\ Head(old) = old[1]
        BY <4>1, ClusterAssumption
      <4>3. QED
        BY <3>1, <4>1, <4>2 DEF TargetDown, AllUp
    <3>2. CASE d + 1 # p
      BY <1>2, <1>4, <3>2 DEF SwapStage
    <3>3. QED
      BY <3>1, <3>2
  <2>2. new = old \/ SamePods(old, new, Named(old, target2))
    <3>1. \/ new = old
          \/ new = SetPhase(old, Named(old, target2), "terminating")
          \/ new = SetReady(old, Named(old, target2), FALSE)
          \/ new = Stopped(old, Named(old, target2))
      <4>1. \A op \in PodOps :
              Has(sc[d + 1], op, x, "none") => op \in {"terminate", "unready", "stop"}
        BY <1>1, <1>2, <1>4
      <4>2. QED
        BY <4>1 DEF BecomePods, PodOps
    <3>2. "terminating" \in Phases
      BY DEF Phases
    <3>3. PICK ready \in BOOLEAN : ready = FALSE
      OBVIOUS
    <3>4. SamePods(old, SetReady(old, Named(old, target2), ready), Named(old, target2))
      BY SetReadyKeeps
    <3>5. SamePods(old, SetPhase(old, Named(old, target2), "terminating"), Named(old, target2))
      BY <3>2, SetPhaseKeeps
    <3>6. SamePods(old, Stopped(old, Named(old, target2)), Named(old, target2))
      BY StoppedKeeps
    <3>7. QED
      BY <3>1, <3>3, <3>4, <3>5, <3>6
  <2>3. TargetDown(new, target2)
    <3>1. CASE new = old
      BY <2>1, <3>1
    <3>2. CASE SamePods(old, new, Named(old, target2))
      <4>1. PICK i \in DOMAIN old :
              old[i].id = target2 /\ \A j \in DOMAIN old : j # i => Up(old[j])
        BY <2>1 DEF TargetDown
      <4>2. \A j \in DOMAIN old : j # i => j \notin Named(old, target2)
        BY <4>1 DEF Named, Distinct
      <4>3. QED
        BY <2>1, <3>2, <4>1, <4>2 DEF TargetDown, SamePods
    <3>3. QED
      BY <2>2, <3>1, <3>2
  <2>4. QED
    BY <1>2, <1>4, <2>3 DEF SwapStage
<1>5. CASE d + 1 = a
  <2>1. new = Append(old, Pod(r, d + 1, "pending")) /\ Has(sc[d + 1], "add", x, "none")
    <3>1. /\ \A op \in PodOps : Has(sc[d + 1], op, x, "none") => op = "add"
          /\ Has(sc[d + 1], "add", x, "none")
      BY <1>1, <1>2, <1>5
    <3>2. QED
      BY <3>1 DEF BecomePods, PodOps
  <2>2. TargetDown(old, target) /\ target2 = target /\ mine2 = <<r, d + 1>>
    BY <1>2, <1>5 DEF SwapStage
  <2>3. ASSUME NEW n \in 1..d
        PROVE  ~Has(sc[n], "add", x, "none") /\ ~Has(sc[n], "refill", x, "none")
    <3>1. n \in 1..Len(sc) /\ n # a
      BY <1>5
    <3>2. "add" \in PodOps /\ "refill" \in PodOps
      BY DEF PodOps
    <3>3. QED
      BY <3>1, <3>2, SwapOps
  <2>4. \A i \in DOMAIN old : old[i].id # <<r, d + 1>>
    BY <2>3 DEF NamesOf, Made
  <2>5. /\ Len(new) = Len(old) + 1 /\ DOMAIN new = 1..(Len(old) + 1)
        /\ \A i \in DOMAIN old : new[i] = old[i]
        /\ new[Len(old) + 1].id = <<r, d + 1>>
    <3>1. OneMore(old, new, <<r, d + 1>>)
      BY <2>1, <2>4, AddIsSound
    <3>2. QED
      BY <3>1 DEF OneMore
  <2>6. PICK t \in DOMAIN old : old[t].id = target /\ \A j \in DOMAIN old : j # t => Up(old[j])
    BY <2>2 DEF TargetDown
  <2>7. Len(old) \in Nat /\ DOMAIN old = 1..Len(old) /\ Desired \in Nat
    BY ClusterAssumption
  <2>8. Len(new) >= Desired + 1
    BY <2>2, <2>5, <2>7 DEF TargetDown
  <2>9. target # mine2
    BY <2>2, <2>4, <2>6
  <2>10. t \in DOMAIN new /\ new[t].id = target
    BY <2>5, <2>6, <2>7
  <2>11. ASSUME NEW j \in DOMAIN new
         PROVE  Up(new[j]) \/ new[j].id = target \/ new[j].id = mine2
    <3>1. j \in DOMAIN old \/ j = Len(old) + 1
      BY <2>5, <2>7
    <3>2. QED
      BY <2>2, <2>5, <2>6, <3>1
  <2>12. TwoForOne(new, target2, mine2)
    BY <2>2, <2>8, <2>9, <2>10, <2>11 DEF TwoForOne
  <2>13. QED
    BY <1>2, <1>5, <2>5, <2>12 DEF SwapStage
<1>6. CASE d + 1 = k
  <2>1. new = Only(Running(old, Named(old, mine2)), DOMAIN old \ Named(old, target2))
    <3>1. /\ \A op \in PodOps : Has(sc[d + 1], op, x, "none") => op = "replace"
          /\ Has(sc[d + 1], "replace", x, "none")
      BY <1>1, <1>2, <1>6
    <3>2. QED
      BY <3>1 DEF BecomePods, PodOps
  <2>2. TwoForOne(old, target2, mine2)
    BY <1>2, <1>6 DEF SwapStage
  <2>3. Whole(new)
    BY <2>1, <2>2, ReplaceIsSound
  <2>4. QED
    BY <1>2, <1>6, <2>3 DEF SwapStage
<1>7. QED
  BY <1>2, <1>3, <1>4, <1>5, <1>6

-----------------------------------------------------------------------------
(* Of the pods of a service to which a run adds two, the last are down.    *)
LastDown(seq, n) ==
    Len(seq) >= Desired /\ \A i \in DOMAIN seq : i <= Len(seq) - n => Up(seq[i])
GrowStage(d, a, seq) ==
    /\ d < a \/ a + 2 <= d => Whole(seq)
    /\ d = a => LastDown(seq, 1)
    /\ d = a + 1 => LastDown(seq, 2)

LEMMA GrowOps ==
    ASSUME NEW sc, NEW x, NEW a, Grows(sc, x, a), Len(sc) \in Nat, NEW n \in 1..Len(sc)
    PROVE  /\ \A op \in PodOps : Has(sc[n], op, x, "none") =>
                \/ op = "add" /\ n \in {a, a + 1}
                \/ op = "start_last_two" /\ n = a + 2
           /\ n \in {a, a + 1} => Has(sc[n], "add", x, "none")
           /\ n = a + 2 => Has(sc[n], "start_last_two", x, "none")
<1>1. \A op \in PodOps : Has(sc[n], op, x, "none") =>
        \/ op = "add" /\ n \in {a, a + 1}
        \/ op = "start_last_two" /\ n = a + 2
  BY DEF Grows, Has
<1>2. n \in {a, a + 1} => Has(sc[n], "add", x, "none")
  BY DEF Grows, Has, Add, OnService, Effect
<1>3. n = a + 2 => Has(sc[n], "start_last_two", x, "none")
  BY DEF Grows, Has, StartLastTwo, OnService, Effect
<1>4. QED
  BY <1>1, <1>2, <1>3

LEMMA OneMoreDown ==
    ASSUME NEW old \in Seq(PodType), NEW n \in Nat, LastDown(old, n),
           NEW new, Len(new) = Len(old) + 1, DOMAIN new = 1..(Len(old) + 1),
           \A i \in DOMAIN old : new[i] = old[i]
    PROVE  LastDown(new, n + 1)
<1>1. Len(old) \in Nat /\ DOMAIN old = 1..Len(old) /\ Desired \in Nat
  BY ClusterAssumption
<1>2. ASSUME NEW i \in DOMAIN new, i <= Len(new) - (n + 1) PROVE Up(new[i])
  <2>1. i \in DOMAIN old /\ i <= Len(old) - n
    BY <1>1, <1>2
  <2>2. QED
    BY <2>1 DEF LastDown
<1>3. QED
  BY <1>1, <1>2 DEF LastDown

LEMMA GrowStep ==
    ASSUME NEW r \in Nat, NEW sc, Len(sc) \in Nat, NEW d \in Nat, d < Len(sc),
           NEW x \in Services, NEW a, Grows(sc, x, a),
           NEW old \in Seq(PodType), Distinct(old), NamesOf(r, sc, d, x, old),
           GrowStage(d, a, old), NEW target, NEW mine,
           NEW new, BecomePods(sc[d + 1], x, r, d + 1, old, target, mine, new)
    PROVE  GrowStage(d + 1, a, new)
<1>1. d + 1 \in 1..Len(sc) /\ a \in Nat
  BY DEF Grows
<1>2. CASE d + 1 < a \/ a + 2 < d + 1
  <2>1. \A op \in PodOps : ~Has(sc[d + 1], op, x, "none")
    BY <1>1, <1>2, GrowOps
  <2>2. new = old
    BY <2>1 DEF BecomePods, PodOps
  <2>3. GrowStage(d + 1, a, old)
    BY <1>1, <1>2 DEF GrowStage
  <2>4. QED
    BY <2>2, <2>3
<1>3. CASE d + 1 = a \/ d + 1 = a + 1
  <2>1. /\ \A op \in PodOps : Has(sc[d + 1], op, x, "none") => op = "add"
        /\ Has(sc[d + 1], "add", x, "none")
    BY <1>1, <1>3, GrowOps
  <2>2. new = Append(old, Pod(r, d + 1, "pending"))
    BY <2>1 DEF BecomePods, PodOps
  <2>3. \A n \in 1..d : ~Has(sc[n], "refill", x, "none")
    BY <1>1, GrowOps DEF PodOps
  <2>4. \A i \in DOMAIN old : old[i].id # <<r, d + 1>>
    BY <2>3 DEF NamesOf, Made
  <2>5. /\ Len(new) = Len(old) + 1 /\ DOMAIN new = 1..(Len(old) + 1)
        /\ \A i \in DOMAIN old : new[i] = old[i]
    <3>1. OneMore(old, new, <<r, d + 1>>)
      BY <2>1, <2>2, <2>4, AddIsSound
    <3>2. QED
      BY <3>1 DEF OneMore
  <2>6. CASE d + 1 = a
    <3>1. LastDown(old, 0)
      BY <1>1, <2>6 DEF GrowStage, Whole, AllUp, LastDown
    <3>2. LastDown(new, 0 + 1)
      BY <2>5, <3>1, OneMoreDown
    <3>3. QED
      BY <1>1, <2>5, <2>6, <3>2 DEF GrowStage
  <2>7. CASE d + 1 = a + 1
    <3>1. LastDown(old, 1)
      BY <1>1, <2>7 DEF GrowStage
    <3>2. LastDown(new, 1 + 1)
      BY <2>5, <3>1, OneMoreDown
    <3>3. QED
      BY <1>1, <2>5, <2>7, <3>2 DEF GrowStage
  <2>8. QED
    BY <1>3, <2>6, <2>7
<1>4. CASE d + 1 = a + 2
  <2>1. /\ \A op \in PodOps : Has(sc[d + 1], op, x, "none") => op = "start_last_two"
        /\ Has(sc[d + 1], "start_last_two", x, "none")
    BY <1>1, <1>4, GrowOps
  <2>2. new = Running(old, LastTwo(old))
    BY <2>1 DEF BecomePods, PodOps
  <2>3. /\ SamePods(old, new, LastTwo(old))
        /\ \A i \in DOMAIN old : i \in LastTwo(old) => Up(new[i])
    BY <2>2, RunningKeeps
  <2>4. LastDown(old, 2)
    BY <1>1, <1>4 DEF GrowStage
  <2>5. ASSUME NEW i \in DOMAIN old PROVE Up(new[i])
    <3>1. Len(old) \in Nat /\ i \in Nat
      OBVIOUS
    <3>2. i \in LastTwo(old) \/ i <= Len(old) - 2
      BY <3>1 DEF LastTwo
    <3>3. QED
      BY <2>3, <2>4, <3>2 DEF SamePods, LastDown
  <2>6. Whole(new)
    BY <2>3, <2>4, <2>5 DEF SamePods, LastDown, Whole, AllUp
  <2>7. QED
    BY <1>1, <1>4, <2>6 DEF GrowStage
<1>5. QED
  BY <1>1, <1>2, <1>3, <1>4

-----------------------------------------------------------------------------
(* Between the two steps of a region outage, what is down is terminating.  *)
CutStage(d, c, seq) ==
    /\ d < c \/ c + 1 <= d => Whole(seq)
    /\ d = c => /\ Len(seq) >= Desired
                /\ \A i \in DOMAIN seq : Up(seq[i]) \/ seq[i].phase = "terminating"

LEMMA CutOps ==
    ASSUME NEW sc, NEW x \in Services, NEW c, Cuts(sc, c), Len(sc) \in Nat, NEW n \in 1..Len(sc)
    PROVE  /\ \A op \in PodOps : Has(sc[n], op, x, "none") =>
                (op = "cut" /\ n = c) \/ (op = "refill" /\ n = c + 1)
           /\ n = c => Has(sc[n], "cut", x, "none")
           /\ n = c + 1 => Has(sc[n], "refill", x, "none")
<1>1. \A op \in PodOps : Has(sc[n], op, x, "none") =>
        (op = "cut" /\ n = c) \/ (op = "refill" /\ n = c + 1)
  BY DEF Cuts, Has
<1>2. n = c => Has(sc[n], "cut", x, "none")
  BY DEF Cuts, Has, Cut, OnService, Effect
<1>3. n = c + 1 => Has(sc[n], "refill", x, "none")
  BY DEF Cuts, Has, Refill, OnService, Effect
<1>4. QED
  BY <1>1, <1>2, <1>3

LEMMA CutStep ==
    ASSUME NEW r \in Nat, NEW sc, Len(sc) \in Nat, NEW d \in Nat, d < Len(sc),
           NEW x \in Services, NEW c, Cuts(sc, c),
           NEW old \in Seq(PodType), Distinct(old), NamesOf(r, sc, d, x, old),
           CutStage(d, c, old), NEW target, NEW mine,
           NEW new, BecomePods(sc[d + 1], x, r, d + 1, old, target, mine, new)
    PROVE  CutStage(d + 1, c, new)
<1>1. d + 1 \in 1..Len(sc) /\ c \in Nat
  BY DEF Cuts
<1>2. CASE d + 1 < c \/ c + 1 < d + 1
  <2>1. \A op \in PodOps : ~Has(sc[d + 1], op, x, "none")
    BY <1>1, <1>2, CutOps
  <2>2. new = old
    BY <2>1 DEF BecomePods, PodOps
  <2>3. CutStage(d + 1, c, old)
    BY <1>1, <1>2 DEF CutStage
  <2>4. QED
    BY <2>2, <2>3
<1>3. CASE d + 1 = c
  <2>1. /\ \A op \in PodOps : Has(sc[d + 1], op, x, "none") => op = "cut"
        /\ Has(sc[d + 1], "cut", x, "none")
    BY <1>1, <1>3, CutOps
  <2>2. new = Stopped(old, EveryOther(old))
    BY <2>1 DEF BecomePods, PodOps
  <2>3. /\ SamePods(old, new, EveryOther(old))
        /\ \A i \in DOMAIN old : i \in EveryOther(old) => new[i].phase = "terminating"
    BY <2>2, StoppedKeeps
  <2>4. AllUp(old)
    BY <1>1, <1>3 DEF CutStage, Whole
  <2>5. /\ Len(new) >= Desired
        /\ \A i \in DOMAIN new : Up(new[i]) \/ new[i].phase = "terminating"
    BY <1>1, <1>3, <2>3, <2>4 DEF SamePods, AllUp, CutStage, Whole
  <2>6. QED
    BY <1>1, <1>3, <2>5 DEF CutStage
<1>4. CASE d + 1 = c + 1
  <2>1. /\ \A op \in PodOps : Has(sc[d + 1], op, x, "none") => op = "refill"
        /\ Has(sc[d + 1], "refill", x, "none")
    BY <1>1, <1>4, CutOps
  <2>2. new = Refilled(old, r)
    BY <2>1 DEF BecomePods, PodOps
  <2>3. \A n \in 1..d : ~Has(sc[n], "add", x, "none") /\ ~Has(sc[n], "refill", x, "none")
    BY <1>1, <1>4, CutOps DEF PodOps
  <2>4. \A i \in DOMAIN old : old[i].id[1] # r
    BY <2>3 DEF NamesOf, Made
  <2>5. \A i \in DOMAIN old : Up(old[i]) \/ old[i].phase = "terminating"
    BY <1>1, <1>4 DEF CutStage
  <2>6. Whole(new)
    BY <2>1, <2>2, <2>4, <2>5, RefillIsSound
  <2>7. QED
    BY <1>1, <1>4, <2>6 DEF CutStage
<1>5. QED
  BY <1>1, <1>2, <1>3, <1>4

-----------------------------------------------------------------------------
(* The pods of a service while the holder of the lock has done d steps.    *)
PodsStage(sc, d, x, seq, target, mine) ==
    \/ Quiet(sc, x) /\ Whole(seq)
    \/ \E p, a, k \in 1..Len(sc) :
         Swaps(sc, x, p, a, k) /\ SwapStage(d, p, a, k, seq, target, mine)
    \/ \E a \in 1..Len(sc) : Grows(sc, x, a) /\ GrowStage(d, a, seq)
    \/ \E c \in 1..Len(sc) : Cuts(sc, c) /\ CutStage(d, c, seq)

LEMMA FirstStage ==
    ASSUME NEW sc, Len(sc) \in Nat, NEW x \in Services, PodPlan(sc, x),
           NEW seq, Whole(seq), NEW target, NEW mine
    PROVE  PodsStage(sc, 0, x, seq, target, mine)
<1>1. CASE Quiet(sc, x)
  BY <1>1 DEF PodsStage
<1>2. ASSUME NEW p \in 1..Len(sc), NEW a \in 1..Len(sc), NEW k \in 1..Len(sc),
             Swaps(sc, x, p, a, k)
      PROVE  SwapStage(0, p, a, k, seq, target, mine)
  <2>1. 0 < p /\ ~(p <= 0) /\ ~(a <= 0)
    OBVIOUS
  <2>2. QED
    BY <2>1 DEF SwapStage
<1>3. ASSUME NEW a \in 1..Len(sc) PROVE GrowStage(0, a, seq)
  <2>1. 0 < a /\ 0 # a /\ 0 # a + 1
    OBVIOUS
  <2>2. QED
    BY <2>1 DEF GrowStage
<1>4. ASSUME NEW c \in 1..Len(sc) PROVE CutStage(0, c, seq)
  <2>1. 0 < c /\ 0 # c
    OBVIOUS
  <2>2. QED
    BY <2>1 DEF CutStage
<1>5. CASE \E p, a, k \in 1..Len(sc) : Swaps(sc, x, p, a, k)
  BY <1>2, <1>5 DEF PodsStage
<1>6. CASE \E a \in 1..Len(sc) : Grows(sc, x, a)
  BY <1>3, <1>6 DEF PodsStage
<1>7. CASE \E c \in 1..Len(sc) : Cuts(sc, c)
  BY <1>4, <1>7 DEF PodsStage
<1>8. QED
  BY <1>1, <1>5, <1>6, <1>7 DEF PodPlan

LEMMA LastStage ==
    ASSUME NEW sc, Len(sc) \in Nat, NEW x \in Services,
           NEW seq, NEW target, NEW mine, PodsStage(sc, Len(sc), x, seq, target, mine)
    PROVE  Whole(seq)
<1>1. ASSUME NEW p \in 1..Len(sc), NEW a \in 1..Len(sc), NEW k \in 1..Len(sc),
             SwapStage(Len(sc), p, a, k, seq, target, mine)
      PROVE  Whole(seq)
  BY <1>1 DEF SwapStage
<1>2. ASSUME NEW a \in 1..Len(sc), Grows(sc, x, a), GrowStage(Len(sc), a, seq)
      PROVE  Whole(seq)
  BY <1>2 DEF GrowStage, Grows
<1>3. ASSUME NEW c \in 1..Len(sc), Cuts(sc, c), CutStage(Len(sc), c, seq)
      PROVE  Whole(seq)
  BY <1>3 DEF CutStage, Cuts
<1>4. QED
  BY <1>1, <1>2, <1>3 DEF PodsStage

-----------------------------------------------------------------------------
(* In any environment the pods of a service have names of their own; while *)
(* one run is at work at most, they are at a stage of its plan.            *)
PodsNamed ==
    /\ pods \in [Services -> Seq(PodType)]
    /\ \A x \in Services : Distinct(pods[x])
    /\ \A r \in Runs, x \in Services : NamesOf(r, ScriptOf(r), done[r], x, pods[x])
PodsKept ==
    /\ lock = 0 => \A x \in Services : Whole(pods[x])
    /\ \A r \in Runs : lock = r => \A x \in Services :
         PodsStage(ScriptOf(r), done[r], x, pods[x], memo[r].target, memo[r].mine)
PodsInv == PodsNamed /\ (manual = TRUE => PodsKept)

LEMMA PodsStart == Init => PodsInv
<1> SUFFICES ASSUME Init PROVE PodsNamed /\ PodsKept
  BY DEF PodsInv
<1>1. 0 \notin Runs /\ Desired \in Nat
  BY ClusterAssumption DEF Runs
<1>2. \A i \in 1..Desired :
        FirstPods[i] \in PodType /\ FirstPods[i].id = <<0, i>> /\ Up(FirstPods[i])
  <2>1. ASSUME NEW i \in 1..Desired
        PROVE  FirstPods[i] \in PodType /\ FirstPods[i].id = <<0, i>> /\ Up(FirstPods[i])
    <3>1. i \in Nat /\ 0 \in Nat /\ "running" \in Phases
      BY <1>1 DEF Phases
    <3>2. FirstPods[i] = Pod(0, i, "running")
      BY DEF FirstPods
    <3>3. QED
      BY <3>1, <3>2, PodIsPod
  <2>2. QED
    BY <2>1
<1>3. FirstPods = [i \in 1..Desired |-> FirstPods[i]]
  BY DEF FirstPods
<1>4. FirstPods \in Seq(PodType) /\ Len(FirstPods) = Desired /\ DOMAIN FirstPods = 1..Desired
  BY <1>1, <1>2, <1>3
<1>5. Distinct(FirstPods) /\ Whole(FirstPods)
  BY <1>1, <1>2, <1>4 DEF Distinct, Whole, AllUp
<1>6. pods = [x \in Services |-> FirstPods] /\ lock = 0
  BY DEF Init
<1>7. \A r \in Runs, x \in Services : NamesOf(r, ScriptOf(r), done[r], x, pods[x])
  BY <1>1, <1>2, <1>4, <1>6 DEF NamesOf
<1>8. QED
  BY <1>1, <1>4, <1>5, <1>6, <1>7 DEF PodsNamed, PodsKept

LEMMA NamesElsewhere ==
    ASSUME RunsInv, PodsNamed, UNCHANGED <<pods, done>>,
           \A r \in Runs : what'[r] = what[r] \/ pc[r] = "unused"
    PROVE  PodsNamed'
<1>1. ASSUME NEW r \in Runs, NEW x \in Services
      PROVE  NamesOf(r, ScriptOf(r)', done[r], x, pods[x])
  <2>1. NamesOf(r, ScriptOf(r), done[r], x, pods[x])
    BY DEF PodsNamed
  <2>2. CASE what'[r] = what[r]
    <3>1. ScriptOf(r)' = ScriptOf(r)
      BY <2>2 DEF ScriptOf
    <3>2. QED
      BY <2>1, <3>1
  <2>3. CASE pc[r] = "unused"
    <3>1. done[r] = 0
      BY <2>3 DEF RunsInv, RunsInOrder
    <3>2. QED
      BY <2>1, <3>1 DEF NamesOf, Made
  <2>4. QED
    BY <2>2, <2>3
<1>2. QED
  BY <1>1 DEF PodsNamed

LEMMA KeptElsewhere ==
    ASSUME OneAtWork, PodsKept, UNCHANGED <<pods, done, memo, lock>>,
           \A r \in Runs : what'[r] = what[r] \/ pc[r] = "unused"
    PROVE  PodsKept'
<1>1. ASSUME NEW r \in Runs, lock = r, NEW x \in Services
      PROVE  PodsStage(ScriptOf(r)', done[r], x, pods[x], memo[r].target, memo[r].mine)
  <2>1. pc[r] = "acting"
    BY <1>1 DEF OneAtWork
  <2>2. ScriptOf(r)' = ScriptOf(r)
    BY <2>1 DEF ScriptOf
  <2>3. QED
    BY <1>1, <2>2 DEF PodsKept
<1>2. QED
  BY <1>1 DEF PodsKept

-----------------------------------------------------------------------------
(* What a run that swaps a pod remembers: the first pod when it picks it,  *)
(* and the one it adds.                                                    *)
LEMMA MemoryPods ==
    ASSUME NEW r \in Runs, NEW x \in Services, NEW p, NEW a, NEW k,
           Len(ScriptOf(r)) \in Nat, done[r] \in Nat, done[r] < Len(ScriptOf(r)),
           Swaps(ScriptOf(r), x, p, a, k)
    PROVE  /\ MemoryNow(r).target =
                IF done[r] + 1 = p THEN Head(pods[x]).id ELSE memo[r].target
           /\ MemoryNow(r).mine =
                IF done[r] + 1 = a THEN <<r, done[r] + 1>> ELSE memo[r].mine
<1> DEFINE n == done[r] + 1
           step == StepNow(r)
           picks == {e \in step : e.op = "pick"}
           from == CHOOSE s \in Services : \E e \in picks : s \in e.on
<1>1. n \in 1..Len(ScriptOf(r)) /\ step = ScriptOf(r)[n]
  BY DEF StepNow
<1>2. /\ MemoryNow(r).target = IF picks = {} THEN memo[r].target ELSE Head(pods[from]).id
      /\ MemoryNow(r).mine = IF \E e \in step : e.op = "add" THEN <<r, n>> ELSE memo[r].mine
  BY DEF MemoryNow, MemoAfter
<1> HIDE DEF step
<1>3. /\ \A e \in step : e.op = "pick" => n = p /\ e.on = {x}
      /\ \A e \in step : e.op = "add" => n = a
  BY <1>1 DEF Swaps
<1>4. n = p => Pick(x) \in step
  BY <1>1 DEF Swaps
<1>5. n = a => Add(x) \in step
  BY <1>1 DEF Swaps
<1>6. Pick(x).op = "pick" /\ Add(x).op = "add"
  BY DEF Pick, Add, OnService, Effect
<1>7. CASE n = p
  <2>1. picks # {} /\ \A e \in picks : e.on = {x}
    BY <1>3, <1>4, <1>6, <1>7
  <2>2. \A s \in Services : (\E e \in picks : s \in e.on) <=> s = x
    BY <2>1
  <2>3. from = x
    BY <2>2
  <2>4. QED
    BY <1>2, <1>3, <1>5, <1>6, <1>7, <2>1, <2>3
<1>8. CASE n # p
  <2>1. picks = {}
    BY <1>3, <1>8
  <2>2. QED
    BY <1>2, <1>3, <1>5, <1>6, <1>8, <2>1
<1>9. QED
  BY <1>7, <1>8

-----------------------------------------------------------------------------
(* A step of the holder of the lock takes the pods of a service from one   *)
(* stage to the next.                                                      *)
LEMMA StageOfService ==
    ASSUME RunsInv, NEW r \in Runs, Step(r), NEW x \in Services,
           pods[x] \in Seq(PodType), Distinct(pods[x]),
           NamesOf(r, ScriptOf(r), done[r], x, pods[x]),
           PodsStage(ScriptOf(r), done[r], x, pods[x], memo[r].target, memo[r].mine)
    PROVE  PodsStage(ScriptOf(r), done[r] + 1, x, pods'[x],
                     MemoryNow(r).target, MemoryNow(r).mine)
<1> DEFINE sc == ScriptOf(r)
           d == done[r]
           old == pods[x]
           new == pods'[x]
           target == MemoryNow(r).target
           mine == MemoryNow(r).mine
<1>1. Len(sc) \in Nat /\ d \in Nat /\ d < Len(sc) /\ r \in Nat
  BY StepFacts DEF Runs
<1>2. BecomePods(sc[d + 1], x, r, d + 1, old, target, mine, new)
  <2>1. new = PodsAfterStep(StepNow(r), x, MemoryNow(r), r, d + 1)
    BY StepFacts
  <2>2. QED
    BY <2>1, PodsStep DEF StepNow
<1>3. ASSUME Quiet(sc, x), Whole(old)
      PROVE  PodsStage(sc, d + 1, x, new, target, mine)
  <2>1. d + 1 \in 1..Len(sc)
    BY <1>1
  <2>2. \A e \in sc[d + 1] : e.op \in PodOps => x \notin e.on
    BY <1>3, <2>1 DEF Quiet
  <2>3. \A op \in PodOps : ~Has(sc[d + 1], op, x, "none")
    BY <2>2 DEF Has
  <2>4. new = old
    BY <1>2, <2>3 DEF BecomePods, PodOps
  <2>5. QED
    BY <1>3, <2>4 DEF PodsStage
<1>4. ASSUME NEW p \in 1..Len(sc), NEW a \in 1..Len(sc), NEW k \in 1..Len(sc),
             Swaps(sc, x, p, a, k),
             SwapStage(d, p, a, k, old, memo[r].target, memo[r].mine)
      PROVE  PodsStage(sc, d + 1, x, new, target, mine)
  <2>1. /\ target = IF d + 1 = p THEN Head(old).id ELSE memo[r].target
        /\ mine = IF d + 1 = a THEN <<r, d + 1>> ELSE memo[r].mine
    BY <1>1, <1>4, MemoryPods
  <2> HIDE DEF sc, d, old, new, target, mine
  <2>2. SwapStage(d + 1, p, a, k, new, target, mine)
    <3>1. old \in Seq(PodType) /\ Distinct(old) /\ NamesOf(r, sc, d, x, old)
      BY DEF old, sc, d
    <3>2. QED
      BY <1>1, <1>2, <1>4, <2>1, <3>1, SwapStep
  <2>3. QED
    BY <1>4, <2>2 DEF PodsStage
<1>5. ASSUME NEW a \in 1..Len(sc), Grows(sc, x, a), GrowStage(d, a, old)
      PROVE  PodsStage(sc, d + 1, x, new, target, mine)
  <2>1. GrowStage(d + 1, a, new)
    BY <1>1, <1>2, <1>5, GrowStep
  <2>2. QED
    BY <1>5, <2>1 DEF PodsStage
<1>6. ASSUME NEW c \in 1..Len(sc), Cuts(sc, c), CutStage(d, c, old)
      PROVE  PodsStage(sc, d + 1, x, new, target, mine)
  <2>1. CutStage(d + 1, c, new)
    BY <1>1, <1>2, <1>6, CutStep
  <2>2. QED
    BY <1>6, <2>1 DEF PodsStage
<1>7. \/ Quiet(sc, x) /\ Whole(old)
      \/ \E p, a, k \in 1..Len(sc) :
           Swaps(sc, x, p, a, k) /\ SwapStage(d, p, a, k, old, memo[r].target, memo[r].mine)
      \/ \E a \in 1..Len(sc) : Grows(sc, x, a) /\ GrowStage(d, a, old)
      \/ \E c \in 1..Len(sc) : Cuts(sc, c) /\ CutStage(d, c, old)
  BY DEF PodsStage
<1> HIDE DEF sc, d, old, new, target, mine
<1>8. PodsStage(sc, d + 1, x, new, target, mine)
  <2>1. CASE \E p, a, k \in 1..Len(sc) :
               Swaps(sc, x, p, a, k) /\ SwapStage(d, p, a, k, old, memo[r].target, memo[r].mine)
    <3>1. PICK p \in 1..Len(sc), a \in 1..Len(sc), k \in 1..Len(sc) :
            Swaps(sc, x, p, a, k) /\ SwapStage(d, p, a, k, old, memo[r].target, memo[r].mine)
      BY <2>1
    <3>2. QED
      BY <1>4, <3>1
  <2>2. CASE \E a \in 1..Len(sc) : Grows(sc, x, a) /\ GrowStage(d, a, old)
    BY <1>5, <2>2
  <2>3. CASE \E c \in 1..Len(sc) : Cuts(sc, c) /\ CutStage(d, c, old)
    BY <1>6, <2>3
  <2>4. QED
    BY <1>3, <1>7, <2>1, <2>2, <2>3
<1>9. QED
  BY <1>8 DEF sc, d, old, new, target, mine

LEMMA NamesStayOf ==
    ASSUME NEW r, NEW sc, NEW d \in Nat, NEW x, NEW old, NEW new,
           SoundStep(r, sc, d, x, old, new)
    PROVE  /\ NamesOf(r, sc, d, x, old) => NamesOf(r, sc, d + 1, x, new)
           /\ \A q, sq, e : q # r /\ NamesOf(q, sq, e, x, old) => NamesOf(q, sq, e, x, new)
<1>1. \A n : Made(sc, d, x, n) => Made(sc, d + 1, x, n)
  <2>1. 1..d \subseteq 1..(d + 1)
    OBVIOUS
  <2>2. QED
    BY <2>1 DEF Made
<1>2. QED
  BY <1>1 DEF SoundStep, NamesOf

(* A script that has added a pod to a service or refilled it does not      *)
(* refill it later, and adds none after a refill.                          *)
LEMMA NamesOnce ==
    ASSUME NEW sc, Len(sc) \in Nat, NEW x \in Services, PodPlan(sc, x),
           NEW n \in 1..Len(sc), NEW k \in 1..(n - 1)
    PROVE  /\ Has(sc[n], "add", x, "none") => ~Has(sc[k], "refill", x, "none")
           /\ Has(sc[n], "refill", x, "none") =>
                ~Has(sc[k], "add", x, "none") /\ ~Has(sc[k], "refill", x, "none")
<1>1. k \in 1..Len(sc) /\ "add" \in PodOps /\ "refill" \in PodOps /\ k # n
  BY DEF PodOps
<1>2. CASE Quiet(sc, x)
  BY <1>1, <1>2 DEF Quiet, Has
<1>3. ASSUME NEW p, NEW a, NEW q, Swaps(sc, x, p, a, q)
      PROVE  \A m \in 1..Len(sc) : ~Has(sc[m], "refill", x, "none")
  BY <1>1, <1>3, SwapOps
<1>4. ASSUME NEW a, Grows(sc, x, a)
      PROVE  \A m \in 1..Len(sc) : ~Has(sc[m], "refill", x, "none")
  BY <1>1, <1>4, GrowOps
<1>5. ASSUME NEW c, Cuts(sc, c)
      PROVE  \A m \in 1..Len(sc) : /\ ~Has(sc[m], "add", x, "none")
                                   /\ Has(sc[m], "refill", x, "none") => m = c + 1
  BY <1>1, <1>5, CutOps
<1>6. CASE \E p, a, q \in 1..Len(sc) : Swaps(sc, x, p, a, q)
  BY <1>1, <1>3, <1>6
<1>7. CASE \E a \in 1..Len(sc) : Grows(sc, x, a)
  BY <1>1, <1>4, <1>7
<1>8. CASE \E c \in 1..Len(sc) : Cuts(sc, c)
  BY <1>1, <1>5, <1>8
<1>9. QED
  BY <1>2, <1>6, <1>7, <1>8 DEF PodPlan

LEMMA EveryStepIsSound ==
    ASSUME NEW r \in Nat, NEW sc, Len(sc) \in Nat, NEW d \in Nat, d < Len(sc),
           NEW x \in Services, PodPlan(sc, x),
           NEW old \in Seq(PodType), Distinct(old), NamesOf(r, sc, d, x, old),
           NEW target, NEW mine,
           NEW new, BecomePods(sc[d + 1], x, r, d + 1, old, target, mine, new)
    PROVE  SoundStep(r, sc, d, x, old, new)
<1>1. d + 1 \in 1..Len(sc) /\ (d + 1) - 1 = d
  OBVIOUS
<1>2. CASE new = old
  BY <1>2, SameIsSound
<1>3. CASE new = SetPhase(old, Named(old, target), "terminating")
  <2>1. "terminating" \in Phases
    BY DEF Phases
  <2>2. QED
    BY <1>3, <2>1, SetPhaseKeeps, SameIsSound
<1>4. CASE new = SetReady(old, Named(old, target), FALSE)
  <2>1. PICK ready \in BOOLEAN : ready = FALSE
    OBVIOUS
  <2>2. SamePods(old, SetReady(old, Named(old, target), ready), Named(old, target))
    BY SetReadyKeeps
  <2>3. QED
    BY <1>4, <2>1, <2>2, SameIsSound
<1>5. ASSUME NEW chosen, new = Stopped(old, chosen) PROVE SoundStep(r, sc, d, x, old, new)
  BY <1>5, StoppedKeeps, SameIsSound
<1>6. CASE Has(sc[d + 1], "add", x, "none") /\ new = Append(old, Pod(r, d + 1, "pending"))
  <2>1. \A k \in 1..d : ~Has(sc[k], "refill", x, "none")
    BY <1>1, <1>6, NamesOnce
  <2>2. \A i \in DOMAIN old : old[i].id # <<r, d + 1>>
    BY <2>1 DEF NamesOf, Made
  <2>3. QED
    BY <1>6, <2>2, AddIsSound
<1>7. CASE new = Only(Running(old, Named(old, mine)), DOMAIN old \ Named(old, target))
  BY <1>7, ReplaceIsSound
<1>8. CASE new = Running(old, LastTwo(old))
  BY <1>8, RunningKeeps, SameIsSound
<1>9. CASE Has(sc[d + 1], "refill", x, "none") /\ new = Refilled(old, r)
  <2>1. \A k \in 1..d : ~Has(sc[k], "add", x, "none") /\ ~Has(sc[k], "refill", x, "none")
    BY <1>1, <1>9, NamesOnce
  <2>2. \A i \in DOMAIN old : old[i].id[1] # r
    BY <2>1 DEF NamesOf, Made
  <2>3. QED
    BY <1>9, <2>2, RefillIsSound
<1>10. QED
  BY <1>2, <1>3, <1>4, <1>5, <1>6, <1>7, <1>8, <1>9 DEF BecomePods

LEMMA PlanOfRun ==
    ASSUME RunsInv, NEW r \in Used, NEW x \in Services PROVE PodPlan(ScriptOf(r), x)
<1>1. what[r].name \in Names /\ what[r].service \in Services
  BY DEF RunsInv, RunsInOrder, Asked
<1>2. QED
  BY <1>1, EveryScriptHasPlan DEF ScriptOf

LEMMA StepNames ==
    ASSUME RunsInv, PodsNamed, NEW r \in Runs, Step(r) PROVE PodsNamed'
<1>1. /\ r \in Used /\ Len(ScriptOf(r)) \in Nat
      /\ done[r] \in Nat /\ done[r] < Len(ScriptOf(r))
      /\ done' = [done EXCEPT ![r] = done[r] + 1]
      /\ pods' = [x \in Services |->
                    PodsAfterStep(StepNow(r), x, MemoryNow(r), r, done[r] + 1)]
      /\ what' = what
  BY StepFacts
<1>2. /\ done'[r] = done[r] + 1
      /\ \A q \in Runs : q # r => done'[q] = done[q]
      /\ \A q \in Runs : ScriptOf(q)' = ScriptOf(q)
  BY <1>1 DEF RunsInv, RunsTypes, ScriptOf
<1>3. ASSUME NEW x \in Services
      PROVE  SoundStep(r, ScriptOf(r), done[r], x, pods[x], pods'[x])
  <2>1. /\ pods[x] \in Seq(PodType) /\ Distinct(pods[x])
        /\ NamesOf(r, ScriptOf(r), done[r], x, pods[x])
    BY DEF PodsNamed
  <2>2. BecomePods(ScriptOf(r)[done[r] + 1], x, r, done[r] + 1, pods[x],
                   MemoryNow(r).target, MemoryNow(r).mine, pods'[x])
    <3>1. pods'[x] = PodsAfterStep(StepNow(r), x, MemoryNow(r), r, done[r] + 1)
      BY <1>1
    <3>2. QED
      BY <3>1, PodsStep DEF StepNow
  <2>3. r \in Nat /\ PodPlan(ScriptOf(r), x)
    BY <1>1, PlanOfRun DEF Runs
  <2>4. QED
    BY <1>1, <2>1, <2>2, <2>3, EveryStepIsSound
<1>4. pods' \in [Services -> Seq(PodType)] /\ \A x \in Services : Distinct(pods'[x])
  <2>1. \A x \in Services : pods'[x] \in Seq(PodType) /\ Distinct(pods'[x])
    BY <1>3 DEF SoundStep
  <2>2. pods' = [x \in Services |-> pods'[x]]
    BY <1>1
  <2>3. QED
    BY <2>1, <2>2
<1>5. ASSUME NEW q \in Runs, NEW x \in Services
      PROVE  NamesOf(q, ScriptOf(q)', done'[q], x, pods'[x])
  <2>1. NamesOf(q, ScriptOf(q), done[q], x, pods[x])
    BY DEF PodsNamed
  <2>2. CASE q = r
    <3>1. NamesOf(r, ScriptOf(r), done[r] + 1, x, pods'[x])
      BY <1>1, <1>3, <2>1, <2>2, NamesStayOf
    <3>2. QED
      BY <1>2, <2>2, <3>1
  <2>3. CASE q # r
    <3>1. NamesOf(q, ScriptOf(q), done[q], x, pods'[x])
      BY <1>1, <1>3, <2>1, <2>3, NamesStayOf
    <3>2. QED
      BY <1>2, <2>3, <3>1
  <2>4. QED
    BY <2>2, <2>3
<1>6. QED
  BY <1>4, <1>5 DEF PodsNamed

LEMMA NamesStep ==
    ASSUME RunsInv, PodsNamed, ClusterMoves PROVE PodsNamed'
<1>1. ASSUME UNCHANGED <<pods, done, what>> PROVE PodsNamed'
  BY <1>1, NamesElsewhere
<1>2. ASSUME NEW r \in Runs, NEW a \in Asked, Trigger(r, a) PROVE PodsNamed'
  <2>1. /\ what' = [what EXCEPT ![r] = a] /\ r = Cardinality(Used) + 1
        /\ UNCHANGED <<pods, done>>
    BY <1>2 DEF Trigger, cluster
  <2>2. r \notin Used
    BY <2>1, NextRun DEF RunsInv
  <2>3. \A q \in Runs : what'[q] = what[q] \/ pc[q] = "unused"
    BY <2>1, <2>2 DEF RunsInv, RunsTypes, Used
  <2>4. QED
    BY <2>1, <2>3, NamesElsewhere
<1>3. ASSUME NEW steps \in Scenarios, StartScenario(steps) PROVE PodsNamed'
  <2> DEFINE used == Cardinality(Used)
             S == (used + 1)..(used + Len(steps))
  <2>1. /\ S \subseteq Runs
        /\ what' = [r \in Runs |-> IF r \in S THEN steps[r - used] ELSE what[r]]
        /\ UNCHANGED <<pods, done>>
    BY <1>3 DEF StartScenario, cluster
  <2>2. used \in Nat /\ Used = 1..used
    BY NextRun DEF RunsInv
  <2>3. \A r \in S : r \notin Used
    BY <2>2, ClusterAssumption
  <2>4. \A q \in Runs : what'[q] = what[q] \/ pc[q] = "unused"
    BY <2>1, <2>3 DEF Used
  <2>5. QED
    BY <2>1, <2>4, NamesElsewhere
<1>4. ASSUME NEW r \in Runs, Wake(r) \/ Begin(r) \/ Acquire(r) \/ Finish(r) PROVE PodsNamed'
  BY <1>1, <1>4 DEF Wake, Begin, Acquire, Finish, cluster
<1>5. ASSUME NEW S \in live, EndScenario(S) PROVE PodsNamed'
  BY <1>1, <1>5 DEF EndScenario, cluster
<1>6. CASE Ambient \/ UNCHANGED vars
  BY <1>1, <1>6 DEF Ambient, vars, cluster
<1>7. QED
  BY <1>2, <1>3, <1>4, <1>5, <1>6, StepNames DEF ClusterMoves, Progress

-----------------------------------------------------------------------------
LEMMA AcquirePods ==
    ASSUME RunsInv, PodsKept, NEW r \in Runs, Acquire(r) PROVE PodsKept'
<1>1. /\ pc[r] = "queued" /\ lock = 0 /\ lock' = r
      /\ UNCHANGED <<pods, what, done, memo, manual>>
  BY DEF Acquire, cluster
<1>2. r \in Used /\ done[r] = 0
  BY <1>1 DEF Used, RunsInv, RunsInOrder
<1>3. Len(ScriptOf(r)) \in Nat
  BY <1>2, Script1 DEF RunsInv, WellBehaved
<1>4. \A q \in Runs : ScriptOf(q)' = ScriptOf(q)
  BY <1>1 DEF ScriptOf
<1>5. ASSUME NEW x \in Services
      PROVE  PodsStage(ScriptOf(r), 0, x, pods[x], memo[r].target, memo[r].mine)
  <2>1. PodPlan(ScriptOf(r), x) /\ Whole(pods[x])
    BY <1>1, <1>2, PlanOfRun DEF PodsKept
  <2>2. QED
    BY <1>3, <2>1, FirstStage
<1>6. 0 \notin Runs
  BY ClusterAssumption DEF Runs
<1>7. QED
  BY <1>1, <1>2, <1>4, <1>5, <1>6 DEF PodsKept

LEMMA FinishPods ==
    ASSUME RunsInv, OneAtWork, PodsKept, NEW r \in Runs, Finish(r) PROVE PodsKept'
<1>1. /\ pc[r] = "acting" /\ done[r] = Len(ScriptOf(r))
      /\ lock' = IF lock = r THEN 0 ELSE lock
      /\ UNCHANGED <<pods, what, done, memo, manual>>
  BY DEF Finish, cluster
<1>2. lock = r /\ lock' = 0
  BY <1>1 DEF OneAtWork
<1>3. Len(ScriptOf(r)) \in Nat
  BY <1>1, Script1 DEF RunsInv, WellBehaved, Used
<1>4. ASSUME NEW x \in Services PROVE Whole(pods[x])
  <2>1. PodsStage(ScriptOf(r), Len(ScriptOf(r)), x, pods[x], memo[r].target, memo[r].mine)
    BY <1>1, <1>2 DEF PodsKept
  <2>2. QED
    BY <1>3, <2>1, LastStage
<1>5. 0 \notin Runs
  BY ClusterAssumption DEF Runs
<1>6. QED
  BY <1>1, <1>2, <1>4, <1>5 DEF PodsKept

LEMMA StepPods ==
    ASSUME RunsInv, OneAtWork, PodsNamed, PodsKept, NEW r \in Runs, Step(r) PROVE PodsKept'
<1>1. /\ pc[r] = "acting" /\ done' = [done EXCEPT ![r] = done[r] + 1]
      /\ memo' = [memo EXCEPT ![r] = MemoryNow(r)]
      /\ UNCHANGED <<pc, what, lock, mode, live, manual>>
  BY StepFacts
<1>2. lock = r /\ lock' = r
  BY <1>1 DEF OneAtWork
<1>3. /\ done'[r] = done[r] + 1 /\ memo'[r] = MemoryNow(r)
      /\ ScriptOf(r)' = ScriptOf(r)
  BY <1>1 DEF RunsInv, RunsTypes, ScriptOf
<1>4. ASSUME NEW x \in Services
      PROVE  PodsStage(ScriptOf(r), done[r] + 1, x, pods'[x],
                       MemoryNow(r).target, MemoryNow(r).mine)
  <2>1. /\ pods[x] \in Seq(PodType) /\ Distinct(pods[x])
        /\ NamesOf(r, ScriptOf(r), done[r], x, pods[x])
        /\ PodsStage(ScriptOf(r), done[r], x, pods[x], memo[r].target, memo[r].mine)
    BY <1>2 DEF PodsNamed, PodsKept
  <2>2. QED
    BY <2>1, StageOfService
<1>5. 0 \notin Runs
  BY ClusterAssumption DEF Runs
<1>6. ASSUME NEW q \in Runs, lock' = q, NEW x \in Services
      PROVE  PodsStage(ScriptOf(q)', done'[q], x, pods'[x], memo'[q].target, memo'[q].mine)
  BY <1>2, <1>3, <1>4, <1>6
<1>7. QED
  BY <1>2, <1>5, <1>6 DEF PodsKept

LEMMA PodsInvStep ==
    ASSUME RunsInv, ManualInv, PodsInv, ClusterMoves PROVE PodsInv'
<1>1. PodsNamed'
  BY NamesStep DEF PodsInv
<1> SUFFICES ASSUME manual' = TRUE PROVE PodsKept'
  BY <1>1 DEF PodsInv
<1>2. manual = TRUE
  BY DEF ClusterMoves, Progress, Trigger, StartScenario, Wake, Begin, Acquire, Step,
         Advance, Finish, EndScenario, Ambient, vars
<1>3. PodsNamed /\ PodsKept /\ OneAtWork
  BY <1>2 DEF PodsInv, ManualInv
<1>4. ASSUME UNCHANGED <<pods, what, done, memo, lock>> PROVE PodsKept'
  BY <1>3, <1>4, KeptElsewhere
<1>5. ASSUME NEW r \in Runs, NEW a \in Asked, Trigger(r, a) PROVE PodsKept'
  <2>1. /\ what' = [what EXCEPT ![r] = a] /\ r = Cardinality(Used) + 1
        /\ UNCHANGED <<pods, done, memo, lock>>
    BY <1>5 DEF Trigger, cluster
  <2>2. r \notin Used
    BY <2>1, NextRun DEF RunsInv
  <2>3. \A q \in Runs : what'[q] = what[q] \/ pc[q] = "unused"
    BY <2>1, <2>2 DEF RunsInv, RunsTypes, Used
  <2>4. QED
    BY <1>3, <2>1, <2>3, KeptElsewhere
<1>6. ASSUME NEW steps \in Scenarios, StartScenario(steps) PROVE FALSE
  BY <1>2, <1>6 DEF StartScenario
<1>7. ASSUME NEW r \in Runs, Wake(r) \/ Begin(r) PROVE PodsKept'
  BY <1>4, <1>7 DEF Wake, Begin, cluster
<1>8. ASSUME NEW S \in live, EndScenario(S) PROVE PodsKept'
  BY <1>4, <1>8 DEF EndScenario, cluster
<1>9. CASE Ambient \/ UNCHANGED vars
  BY <1>4, <1>9 DEF Ambient, vars, cluster
<1>10. ASSUME NEW r \in Runs, Progress(r) PROVE PodsKept'
  BY <1>3, <1>7, <1>10, AcquirePods, FinishPods, StepPods DEF Progress
<1>11. QED
  BY <1>5, <1>6, <1>8, <1>9, <1>10 DEF ClusterMoves

-----------------------------------------------------------------------------
LEMMA AtRestMended ==
    ASSUME RunsInv, ManualInv, PodsInv PROVE MendedAtRest
<1> SUFFICES ASSUME AtRest
             PROVE  /\ \A s \in Services : healthy[s]
                    /\ manual => /\ metric = Untouched
                                 /\ \A s \in Services :
                                      /\ Len(pods[s]) >= Desired
                                      /\ \A i \in DOMAIN pods[s] :
                                           pods[s][i].phase = "running" /\ pods[s][i].ready
  BY DEF MendedAtRest
<1>1. \A r \in Runs : pc[r] # "acting"
  BY DEF AtRest, Used
<1>2. \A s \in Services : healthy[s]
  BY <1>1 DEF RunsInv, SickHaveHealers
<1>3. ASSUME manual
      PROVE  metric = Untouched /\ \A s \in Services : Whole(pods[s])
  <2>1. manual = TRUE
    BY <1>3 DEF RunsInv, RunsTypes
  <2>2. OneAtWork /\ MetricsKept /\ PodsKept
    BY <2>1 DEF ManualInv, PodsInv
  <2>3. lock = 0
    BY <1>1, <2>2 DEF OneAtWork, RunsInv, RunsTypes
  <2>4. \A s \in Services : Whole(pods[s])
    BY <2>2, <2>3 DEF PodsKept
  <2>5. \A x \in Services, m \in Metrics : metric[x][m] = {}
    BY <2>2, <2>3 DEF MetricsKept
  <2>6. metric = [x \in Services |-> [m \in Metrics |-> metric[x][m]]]
    BY DEF RunsInv, RunsTypes, Remembered
  <2>7. metric = Untouched
    BY <2>5, <2>6 DEF Untouched
  <2>8. QED
    BY <2>4, <2>7
<1>4. QED
  BY <1>2, <1>3 DEF Whole, AllUp, Up

(* Types.                                                                  *)
LEMMA PodsAreTyped ==
    ASSUME PodsInv, NEW s \in Services
    PROVE  /\ \A i \in DOMAIN pods[s] :
                pods[s][i].phase \in Phases /\ pods[s][i].ready \in BOOLEAN
           /\ \A i, j \in DOMAIN pods[s] : pods[s][i].id = pods[s][j].id => i = j
<1>1. pods[s] \in Seq(PodType) /\ Distinct(pods[s])
  BY DEF PodsInv, PodsNamed
<1>2. \A i \in DOMAIN pods[s] : pods[s][i] \in PodType
  BY <1>1
<1>3. QED
  BY <1>1, <1>2 DEF PodType, Distinct

LiveInv == live \subseteq SUBSET Used

LEMMA LiveStep ==
    ASSUME RunsInv, LiveInv, ClusterMoves PROVE LiveInv'
<1>1. ASSUME NEW steps \in Scenarios, StartScenario(steps) PROVE LiveInv'
  <2> DEFINE used == Cardinality(Used)
             S == (used + 1)..(used + Len(steps))
  <2>1. /\ S \subseteq Runs /\ live' = live \cup {S}
        /\ pc' = [r \in Runs |-> IF r \in S THEN "asleep" ELSE pc[r]]
    BY <1>1 DEF StartScenario
  <2> HIDE DEF S
  <2>2. Used \subseteq Used' /\ S \subseteq Used'
    BY <2>1 DEF Used
  <2>3. QED
    BY <2>1, <2>2 DEF LiveInv
<1>2. ASSUME live' \subseteq live, Used \subseteq Used' PROVE LiveInv'
  BY <1>2 DEF LiveInv
<1>3. ASSUME NEW r \in Runs, NEW a \in Asked, Trigger(r, a) PROVE LiveInv'
  <2>1. live' = live /\ pc' = [pc EXCEPT ![r] = "created"]
    BY <1>3 DEF Trigger
  <2>2. Used \subseteq Used'
    BY <2>1 DEF Used, RunsInv, RunsTypes
  <2>3. QED
    BY <1>2, <2>1, <2>2
<1>4. ASSUME NEW r \in Runs, Progress(r) PROVE LiveInv'
  <2>1. live' = live
    BY <1>4 DEF Progress, Wake, Begin, Acquire, Step, Advance, Finish
  <2>2. pc' = pc \/ \E place \in Places \ {"unused"} : pc' = [pc EXCEPT ![r] = place]
    BY <1>4 DEF Progress, Wake, Begin, Acquire, Step, Advance, Finish, Places
  <2>3. Used \subseteq Used'
    BY <2>2 DEF Used, RunsInv, RunsTypes
  <2>4. QED
    BY <1>2, <2>1, <2>3
<1>5. ASSUME NEW S \in live, EndScenario(S) PROVE LiveInv'
  BY <1>2, <1>5 DEF EndScenario, Used
<1>6. CASE Ambient
  BY <1>2, <1>6 DEF Ambient, Used
<1>7. CASE UNCHANGED vars
  BY <1>2, <1>7 DEF vars, Used
<1>8. QED
  BY <1>1, <1>3, <1>4, <1>5, <1>6, <1>7 DEF ClusterMoves

LEMMA ClusterInvariance == ControllerSpec => [](RunsInv /\ ManualInv /\ PodsInv /\ LiveInv)
<1>1. ControllerInit => RunsInv /\ ManualInv /\ PodsInv /\ LiveInv
  BY RunsStart, ManualStart, PodsStart DEF ControllerInit, Init, LiveInv
<1>2. RunsInv /\ ManualInv /\ PodsInv /\ LiveInv /\ [ControllerNext]_controllerVars
        => RunsInv' /\ ManualInv' /\ PodsInv' /\ LiveInv'
  BY ControllerMovesCluster, RunsStep, ManualStep, PodsInvStep, LiveStep
<1>3. QED
  BY <1>1, <1>2, PTL DEF ControllerSpec

(* When no run is under way every service is healthy again; if all runs    *)
(* were triggered by hand, every pod is up, none is missing and every      *)
(* metric is at its baseline, whatever the runs were and however often and *)
(* closely they followed each other: the lock keeps what a run has saved   *)
(* and picked valid until it has used it ("back to desired_replicas        *)
(* ready").                                                                *)
THEOREM EverythingIsMended == ControllerSpec => []MendedAtRest
<1>1. RunsInv /\ ManualInv /\ PodsInv => MendedAtRest
  BY AtRestMended
<1>2. QED
  BY <1>1, ClusterInvariance, PTL

(* Whatever scenarios overlap without the lock and whatever is triggered   *)
(* beside them, every variable of the simulator and of the hub keeps its   *)
(* type; in particular no two pods of a service share a name, so that what *)
(* a run does to "its" pod (p.name == target.name) is done to one pod.     *)
THEOREM TypesAreKept == ControllerSpec => []ControllerTypeOK
<1>1. RunsInv /\ PodsInv /\ LiveInv => TypeOK
  BY PodsAreTyped DEF TypeOK, RunsInv, RunsTypes, Remembered, LiveInv
<1>2. TypeOK /\ HubTypeOK => ControllerTypeOK
  BY DEF ControllerTypeOK
<1>3. QED
  BY <1>1, <1>2, ClusterInvariance, QueuesAreBounded, PTL

-----------------------------------------------------------------------------
(* How many pods there are, in any environment.                            *)

(* A run has added the new pod of a service and not yet replaced the old.  *)
Between(sc, d, x) ==
    /\ \E n \in 1..d : Does(sc[n], "add", x)
    /\ \E n \in (d + 1)..Len(sc) : Does(sc[n], "replace", x)

LEMMA SwapIsBetween ==
    ASSUME NEW sc, Len(sc) \in Nat, NEW x, NEW p, NEW a, NEW k, Swaps(sc, x, p, a, k),
           NEW d \in 0..Len(sc)
    PROVE  Between(sc, d, x) <=> a <= d /\ d < k
<1>1. p \in Nat /\ a \in 1..Len(sc) /\ k \in 1..Len(sc) /\ a < k
  BY DEF Swaps
<1>2. ASSUME NEW n \in 1..Len(sc)
      PROVE  (Does(sc[n], "add", x) <=> n = a) /\ (Does(sc[n], "replace", x) <=> n = k)
  <2>1. /\ \A e \in sc[n] : (e.op = "add" => n = a) /\ (e.op = "replace" => n = k)
        /\ n = a => Add(x) \in sc[n]
        /\ n = k => Replace(x) \in sc[n]
    BY DEF Swaps
  <2>2. Add(x).op = "add" /\ x \in Add(x).on /\ Replace(x).op = "replace" /\ x \in Replace(x).on
    BY DEF Add, Replace, OnService, Effect
  <2>3. QED
    BY <2>1, <2>2 DEF Does
<1>3. (\E n \in 1..d : Does(sc[n], "add", x)) <=> a <= d
  BY <1>1, <1>2
<1>4. (\E n \in (d + 1)..Len(sc) : Does(sc[n], "replace", x)) <=> d < k
  BY <1>1, <1>2
<1>5. QED
  BY <1>3, <1>4 DEF Between

LEMMA OthersAreNotBetween ==
    ASSUME NEW sc, Len(sc) \in Nat, NEW x,
           \/ Quiet(sc, x)
           \/ \E a \in 1..Len(sc) : Grows(sc, x, a)
           \/ \E c \in 1..Len(sc) : Cuts(sc, c),
           NEW d \in 0..Len(sc)
    PROVE  ~Between(sc, d, x)
<1>1. "replace" \in PodOps
  BY DEF PodOps
<1>2. \A n \in 1..Len(sc) : ~Does(sc[n], "replace", x)
  BY <1>1 DEF Quiet, Grows, Cuts, Does
<1>3. (d + 1)..Len(sc) \subseteq 1..Len(sc)
  OBVIOUS
<1>4. QED
  BY <1>2, <1>3 DEF Between

(* How many pods a step of r adds or takes away.                           *)
LengthChanges(step, x, old, new) ==
    /\ Len(old) \in Nat /\ Len(new) \in Nat
    /\ \/ /\ \/ \A op \in PodOps : ~Has(step, op, x, "none")
             \/ \E op \in PodOps \ {"add", "replace", "refill"} : Has(step, op, x, "none")
          /\ Len(new) = Len(old)
       \/ Has(step, "add", x, "none") /\ Len(new) = Len(old) + 1
       \/ Has(step, "replace", x, "none") /\ Len(new) >= Len(old) - 1
       \/ Has(step, "refill", x, "none") /\ Len(new) >= Desired

LEMMA LengthStep ==
    ASSUME NEW r \in Nat, NEW sc, Len(sc) \in Nat, NEW d \in Nat, d < Len(sc),
           NEW x \in Services, PodPlan(sc, x),
           NEW old \in Seq(PodType), Distinct(old), NamesOf(r, sc, d, x, old),
           NEW target, NEW mine,
           NEW new, BecomePods(sc[d + 1], x, r, d + 1, old, target, mine, new)
    PROVE  LengthChanges(sc[d + 1], x, old, new)
<1>1. d + 1 \in 1..Len(sc) /\ (d + 1) - 1 = d /\ Len(old) \in Nat
  OBVIOUS
<1>2. Len(new) \in Nat
  <2>1. SoundStep(r, sc, d, x, old, new)
    BY EveryStepIsSound
  <2>2. QED
    BY <2>1 DEF SoundStep
<1>3. ASSUME NEW op \in {"terminate", "unready", "stop", "start_last_two", "cut"}
      PROVE  op \in PodOps \ {"add", "replace", "refill"}
  BY DEF PodOps
<1>4. ASSUME NEW phase \in Phases PROVE Len(SetPhase(old, Named(old, target), phase)) = Len(old)
  BY SetPhaseKeeps DEF SamePods
<1>5. ASSUME NEW ready \in BOOLEAN PROVE Len(SetReady(old, Named(old, target), ready)) = Len(old)
  BY SetReadyKeeps DEF SamePods
<1>6. ASSUME NEW chosen
      PROVE  Len(Stopped(old, chosen)) = Len(old) /\ Len(Running(old, chosen)) = Len(old)
  BY StoppedKeeps, RunningKeeps DEF SamePods
<1>7. CASE Has(sc[d + 1], "terminate", x, "none")
             /\ new = SetPhase(old, Named(old, target), "terminating")
  <2>1. "terminating" \in Phases
    BY DEF Phases
  <2>2. QED
    BY <1>1, <1>2, <1>3, <1>4, <1>7, <2>1 DEF LengthChanges
<1>8. CASE Has(sc[d + 1], "unready", x, "none")
             /\ new = SetReady(old, Named(old, target), FALSE)
  <2>1. PICK ready \in BOOLEAN : ready = FALSE
    OBVIOUS
  <2>2. QED
    BY <1>1, <1>2, <1>3, <1>5, <1>8, <2>1 DEF LengthChanges
<1>9. CASE Has(sc[d + 1], "add", x, "none") /\ new = Append(old, Pod(r, d + 1, "pending"))
  <2>1. "pending" \in Phases /\ d + 1 \in Nat
    BY DEF Phases
  <2>2. Pod(r, d + 1, "pending") \in PodType
    BY <2>1, PodIsPod
  <2>3. Len(new) = Len(old) + 1
    BY <1>9, <2>2, AppendProperties
  <2>4. QED
    BY <1>1, <1>2, <1>9, <2>3 DEF LengthChanges
<1>10. CASE Has(sc[d + 1], "replace", x, "none")
              /\ new = Only(Running(old, Named(old, mine)), DOMAIN old \ Named(old, target))
  BY <1>1, <1>2, <1>10, ReplaceIsSound DEF LengthChanges
<1>11. CASE Has(sc[d + 1], "refill", x, "none") /\ new = Refilled(old, r)
  <2>1. \A k \in 1..d : ~Has(sc[k], "add", x, "none") /\ ~Has(sc[k], "refill", x, "none")
    BY <1>1, <1>11, NamesOnce
  <2>2. \A i \in DOMAIN old : old[i].id[1] # r
    BY <2>1 DEF NamesOf, Made
  <2>3. Len(Refilled(old, r)) >= Desired
    BY <1>11, <2>2, RefillIsSound
  <2>4. QED
    BY <1>1, <1>2, <1>11, <2>3 DEF LengthChanges
<1>12. CASE Has(sc[d + 1], "stop", x, "none") /\ new = Stopped(old, Named(old, target))
  BY <1>1, <1>2, <1>3, <1>6, <1>12 DEF LengthChanges
<1>13. CASE \/ Has(sc[d + 1], "start_last_two", x, "none") /\ new = Running(old, LastTwo(old))
            \/ Has(sc[d + 1], "cut", x, "none") /\ new = Stopped(old, EveryOther(old))
  BY <1>1, <1>2, <1>3, <1>6, <1>13 DEF LengthChanges
<1>14. CASE (\A op \in PodOps : ~Has(sc[d + 1], op, x, "none")) /\ new = old
  BY <1>1, <1>14 DEF LengthChanges
<1>15. QED
  BY <1>7, <1>8, <1>9, <1>10, <1>11, <1>12, <1>13, <1>14 DEF BecomePods

(* A step of r, before and after which it is `before` and `after` between  *)
(* the two halves of a swap: one pod comes as r begins the swap, and one   *)
(* goes at most, and only as r ends it.                                    *)
Balanced(before, after, refills, old, new) ==
    /\ Len(old) \in Nat /\ Len(new) \in Nat
    /\ \/ (before <=> after) /\ Len(new) >= Len(old)
       \/ ~before /\ after /\ Len(new) = Len(old) + 1
       \/ before /\ ~after /\ Len(new) >= Len(old) - 1
       \/ ~before /\ ~after /\ refills /\ Len(new) >= Desired

LEMMA EveryStepIsBalanced ==
    ASSUME NEW r \in Nat, NEW sc, Len(sc) \in Nat, NEW d \in Nat, d < Len(sc),
           NEW x \in Services, PodPlan(sc, x),
           NEW old \in Seq(PodType), Distinct(old), NamesOf(r, sc, d, x, old),
           NEW target, NEW mine,
           NEW new, BecomePods(sc[d + 1], x, r, d + 1, old, target, mine, new)
    PROVE  Balanced(Between(sc, d, x), Between(sc, d + 1, x), Does(sc[d + 1], "refill", x),
                    old, new)
<1> DEFINE step == sc[d + 1]
           ops == {op \in PodOps : Has(step, op, x, "none")}
<1>1. /\ Len(old) \in Nat /\ Len(new) \in Nat
      /\ \/ (ops = {} \/ \E op \in ops : op \notin {"add", "replace", "refill"})
              /\ Len(new) = Len(old)
         \/ "add" \in ops /\ Len(new) = Len(old) + 1
         \/ "replace" \in ops /\ Len(new) >= Len(old) - 1
         \/ "refill" \in ops /\ Len(new) >= Desired
  <2>1. "add" \in PodOps /\ "replace" \in PodOps /\ "refill" \in PodOps
    BY DEF PodOps
  <2>2. LengthChanges(step, x, old, new)
    BY LengthStep
  <2> HIDE DEF step
  <2>3. QED
    BY <2>1, <2>2 DEF LengthChanges
<1>2. d \in 0..Len(sc) /\ d + 1 \in 0..Len(sc) /\ d + 1 \in 1..Len(sc)
  OBVIOUS
<1>3. "refill" \in ops => Does(step, "refill", x)
  BY DEF Has, Does
<1>4. CASE Quiet(sc, x)
  <2>1. ops = {}
    BY <1>2, <1>4 DEF Quiet, Has
  <2>2. ~Between(sc, d, x) /\ ~Between(sc, d + 1, x)
    BY <1>2, <1>4, OthersAreNotBetween
  <2>3. QED
    BY <1>1, <2>1, <2>2 DEF Balanced
<1>5. ASSUME NEW p, NEW a, NEW k, Swaps(sc, x, p, a, k)
      PROVE  Balanced(Between(sc, d, x), Between(sc, d + 1, x), Does(step, "refill", x),
                      old, new)
  <2>1. p \in Nat /\ a \in Nat /\ k \in Nat /\ a < k
    BY <1>5 DEF Swaps
  <2>2. /\ Between(sc, d, x) <=> a <= d /\ d < k
        /\ Between(sc, d + 1, x) <=> a <= d + 1 /\ d + 1 < k
    BY <1>2, <1>5, SwapIsBetween
  <2>3. \A op \in ops :
          \/ op \in {"terminate", "unready", "stop"} /\ p <= d + 1 /\ d + 1 < a
          \/ op = "add" /\ d + 1 = a
          \/ op = "replace" /\ d + 1 = k
    BY <1>2, <1>5, SwapOps
  <2>4. /\ d + 1 = a => "add" \in ops
        /\ d + 1 = k => "replace" \in ops
    <3>1. "add" \in PodOps /\ "replace" \in PodOps
      BY DEF PodOps
    <3>2. QED
      BY <1>2, <1>5, <3>1, SwapOps
  <2> HIDE DEF ops
  <2>5. CASE d + 1 = a
    <3>1. Len(new) = Len(old) + 1
      BY <1>1, <2>1, <2>3, <2>4, <2>5
    <3>2. ~Between(sc, d, x) /\ Between(sc, d + 1, x)
      BY <2>1, <2>2, <2>5
    <3>3. QED
      BY <1>1, <3>1, <3>2 DEF Balanced
  <2>6. CASE d + 1 = k
    <3>1. Len(new) >= Len(old) - 1
      BY <1>1, <2>1, <2>3, <2>4, <2>6
    <3>2. Between(sc, d, x) /\ ~Between(sc, d + 1, x)
      BY <2>1, <2>2, <2>6
    <3>3. QED
      BY <1>1, <3>1, <3>2 DEF Balanced
  <2>7. CASE d + 1 # a /\ d + 1 # k
    <3>1. Len(new) = Len(old)
      BY <1>1, <2>3, <2>7
    <3>2. Between(sc, d, x) <=> Between(sc, d + 1, x)
      BY <2>1, <2>2, <2>7
    <3>3. QED
      BY <1>1, <3>1, <3>2 DEF Balanced
  <2>8. QED
    BY <2>5, <2>6, <2>7
<1>6. ASSUME NEW a \in 1..Len(sc), Grows(sc, x, a)
      PROVE  Balanced(Between(sc, d, x), Between(sc, d + 1, x), Does(step, "refill", x),
                      old, new)
  <2>1. \A op \in ops : op \in {"add", "start_last_two"}
    BY <1>2, <1>6, GrowOps
  <2>2. ~Between(sc, d, x) /\ ~Between(sc, d + 1, x)
    BY <1>2, <1>6, OthersAreNotBetween
  <2> HIDE DEF ops
  <2>3. Len(new) >= Len(old)
    BY <1>1, <2>1
  <2>4. QED
    BY <1>1, <2>2, <2>3 DEF Balanced
<1>7. ASSUME NEW c \in 1..Len(sc), Cuts(sc, c)
      PROVE  Balanced(Between(sc, d, x), Between(sc, d + 1, x), Does(step, "refill", x),
                      old, new)
  <2>1. \A op \in ops : op \in {"cut", "refill"}
    BY <1>2, <1>7, CutOps
  <2>2. ~Between(sc, d, x) /\ ~Between(sc, d + 1, x)
    BY <1>2, <1>7, OthersAreNotBetween
  <2> HIDE DEF ops
  <2>3. Len(new) >= Len(old) \/ (Does(step, "refill", x) /\ Len(new) >= Desired)
    BY <1>1, <1>3, <2>1
  <2>4. QED
    BY <1>1, <2>2, <2>3 DEF Balanced
<1>8. QED
  BY <1>4, <1>5, <1>6, <1>7 DEF PodPlan, step

-----------------------------------------------------------------------------
(* How many swaps are under way.                                           *)
LEMMA SwapsAreBetween ==
    ASSUME NEW x
    PROVE  /\ SwapsUnderWay(x) =
                {r \in Runs : pc[r] = "acting" /\ Between(ScriptOf(r), done[r], x)}
           /\ IsFiniteSet(SwapsUnderWay(x)) /\ Cardinality(SwapsUnderWay(x)) \in Nat
<1>1. SwapsUnderWay(x) =
        {r \in Runs : pc[r] = "acting" /\ Between(ScriptOf(r), done[r], x)}
  BY DEF SwapsUnderWay, Between
<1>2. IsFiniteSet(Runs)
  BY CountFromOne, ClusterAssumption DEF Runs
<1>3. IsFiniteSet(SwapsUnderWay(x))
  BY <1>1, <1>2, FS_Subset
<1>4. QED
  BY <1>1, <1>3, FS_CardinalityType

(* Steps that leave the pods alone and begin no swap.                      *)
LEMMA CountElsewhere ==
    ASSUME RunsInv, PodsInv, PodsOutnumberSwaps, UNCHANGED <<pods, done>>,
           \A r \in Runs : pc'[r] = "acting" =>
             (pc[r] = "acting" /\ what'[r] = what[r]) \/ done[r] = 0
    PROVE  PodsOutnumberSwaps'
<1> SUFFICES ASSUME NEW x \in Services
             PROVE  Cardinality(SwapsUnderWay(x)') < Len(pods[x])
  BY DEF PodsOutnumberSwaps
<1>1. ASSUME NEW r \in Runs, pc'[r] = "acting", Between(ScriptOf(r)', done[r], x)
      PROVE  pc[r] = "acting" /\ Between(ScriptOf(r), done[r], x)
  <2>1. done[r] # 0
    BY <1>1 DEF Between
  <2>2. QED
    BY <1>1, <2>1 DEF ScriptOf
<1>2. SwapsUnderWay(x)' =
        {r \in Runs : pc'[r] = "acting" /\ Between(ScriptOf(r)', done[r], x)}
  BY DEF SwapsUnderWay, Between
<1>3. SwapsUnderWay(x)' \subseteq SwapsUnderWay(x)
  BY <1>1, <1>2, SwapsAreBetween
<1>4. IsFiniteSet(SwapsUnderWay(x)) /\ Cardinality(SwapsUnderWay(x)) \in Nat
  BY SwapsAreBetween
<1>5. /\ Cardinality(SwapsUnderWay(x)') <= Cardinality(SwapsUnderWay(x))
      /\ Cardinality(SwapsUnderWay(x)') \in Nat
  BY <1>3, <1>4, FS_Subset, FS_CardinalityType
<1>6. Cardinality(SwapsUnderWay(x)) < Len(pods[x]) /\ Len(pods[x]) \in Nat
  BY DEF PodsOutnumberSwaps, PodsInv, PodsNamed
<1>7. QED
  BY <1>4, <1>5, <1>6

LEMMA StepCounts ==
    ASSUME RunsInv, PodsInv, PodsOutnumberSwaps, FewSwaps, NEW r \in Runs, Step(r)
    PROVE  PodsOutnumberSwaps'
<1> SUFFICES ASSUME NEW x \in Services
             PROVE  Cardinality(SwapsUnderWay(x)') < Len(pods'[x])
  BY DEF PodsOutnumberSwaps
<1> DEFINE sc == ScriptOf(r)
           d == done[r]
           now == SwapsUnderWay(x)
           next == SwapsUnderWay(x)'
<1>1. /\ pc[r] = "acting" /\ r \in Used /\ Len(sc) \in Nat /\ d \in Nat /\ d < Len(sc)
      /\ done' = [done EXCEPT ![r] = d + 1]
      /\ pods' = [y \in Services |-> PodsAfterStep(StepNow(r), y, MemoryNow(r), r, d + 1)]
      /\ pc' = pc /\ what' = what
  BY StepFacts
<1>2. Balanced(Between(sc, d, x), Between(sc, d + 1, x), Does(sc[d + 1], "refill", x),
               pods[x], pods'[x])
  <2>1. /\ pods[x] \in Seq(PodType) /\ Distinct(pods[x]) /\ NamesOf(r, sc, d, x, pods[x])
    BY DEF PodsInv, PodsNamed
  <2>2. pods'[x] = PodsAfterStep(StepNow(r), x, MemoryNow(r), r, d + 1)
    BY <1>1
  <2>3. BecomePods(sc[d + 1], x, r, d + 1, pods[x],
                   MemoryNow(r).target, MemoryNow(r).mine, pods'[x])
    BY <2>2, PodsStep DEF StepNow
  <2>4. r \in Nat /\ PodPlan(sc, x)
    BY <1>1, PlanOfRun DEF Runs
  <2> HIDE DEF sc, d
  <2>5. QED
    BY <1>1, <2>1, <2>3, <2>4, EveryStepIsBalanced
<1>3. now = {q \in Runs : pc[q] = "acting" /\ Between(ScriptOf(q), done[q], x)}
  BY SwapsAreBetween
<1>4. next = {q \in Runs : pc[q] = "acting" /\ Between(ScriptOf(q), done'[q], x)}
  BY <1>1 DEF SwapsUnderWay, Between, ScriptOf
<1>5. /\ r \in now <=> Between(sc, d, x)
      /\ r \in next <=> Between(sc, d + 1, x)
      /\ \A q : q # r => (q \in now <=> q \in next)
  BY <1>1, <1>3, <1>4 DEF RunsInv, RunsTypes
<1>6. IsFiniteSet(now) /\ Cardinality(now) \in Nat /\ Cardinality(now) < Len(pods[x])
  BY SwapsAreBetween DEF PodsOutnumberSwaps
<1>7. Does(sc[d + 1], "refill", x) => Cardinality(now) < Desired
  BY <1>1 DEF FewSwaps
<1>8. Desired \in Nat
  BY ClusterAssumption
<1> HIDE DEF now, next, sc, d
<1>9. CASE (r \in now <=> r \in next) /\ Len(pods'[x]) >= Len(pods[x])
  <2>1. \A q : q \in next <=> q \in now
    BY <1>5, <1>9
  <2>2. next = now
    BY <2>1
  <2>3. QED
    BY <1>2, <1>6, <1>9, <2>2 DEF Balanced, next
<1>10. CASE r \notin now /\ r \in next /\ Len(pods'[x]) = Len(pods[x]) + 1
  <2>1. \A q : q \in next <=> q \in now \/ q = r
    BY <1>5, <1>10
  <2>2. next = now \cup {r}
    BY <2>1
  <2>3. Cardinality(next) = Cardinality(now) + 1
    BY <1>6, <1>10, <2>2, FS_AddElement
  <2>4. QED
    BY <1>2, <1>6, <1>10, <2>3 DEF Balanced, next
<1>11. CASE r \in now /\ r \notin next /\ Len(pods'[x]) >= Len(pods[x]) - 1
  <2>1. \A q : q \in next <=> q \in now /\ q # r
    BY <1>5, <1>11
  <2>2. next = now \ {r}
    BY <2>1
  <2>3. Cardinality(next) = Cardinality(now) - 1
    BY <1>6, <1>11, <2>2, FS_RemoveElement
  <2>4. QED
    BY <1>2, <1>6, <1>11, <2>3 DEF Balanced, next
<1>12. CASE /\ r \notin now /\ r \notin next
            /\ Does(sc[d + 1], "refill", x) /\ Len(pods'[x]) >= Desired
  <2>1. \A q : q \in next <=> q \in now
    BY <1>5, <1>12
  <2>2. next = now
    BY <2>1
  <2>3. QED
    BY <1>2, <1>6, <1>7, <1>8, <1>12, <2>2 DEF Balanced, next
<1>13. QED
  BY <1>2, <1>5, <1>9, <1>10, <1>11, <1>12 DEF Balanced

LEMMA CountStep ==
    ASSUME RunsInv, PodsInv, PodsOutnumberSwaps, FewSwaps, ClusterMoves
    PROVE  PodsOutnumberSwaps'
<1>1. \A q \in Runs : pc[q] # "acting" /\ pc[q] # "done" => done[q] = 0
  BY DEF RunsInv, RunsInOrder
<1>2. ASSUME NEW r \in Runs, NEW a \in Asked, Trigger(r, a) PROVE PodsOutnumberSwaps'
  <2>1. /\ pc' = [pc EXCEPT ![r] = "created"] /\ what' = [what EXCEPT ![r] = a]
        /\ UNCHANGED <<pods, done>>
    BY <1>2 DEF Trigger, cluster
  <2>2. \A q \in Runs : pc'[q] = "acting" => pc[q] = "acting" /\ what'[q] = what[q]
    BY <2>1 DEF RunsInv, RunsTypes
  <2>3. QED
    BY <2>1, <2>2, CountElsewhere
<1>3. ASSUME NEW steps \in Scenarios, StartScenario(steps) PROVE PodsOutnumberSwaps'
  <2> DEFINE used == Cardinality(Used)
             S == (used + 1)..(used + Len(steps))
  <2>1. /\ pc' = [r \in Runs |-> IF r \in S THEN "asleep" ELSE pc[r]]
        /\ what' = [r \in Runs |-> IF r \in S THEN steps[r - used] ELSE what[r]]
        /\ UNCHANGED <<pods, done>>
    BY <1>3 DEF StartScenario, cluster
  <2> HIDE DEF S
  <2>2. \A q \in Runs : pc'[q] = "acting" => pc[q] = "acting" /\ what'[q] = what[q]
    BY <2>1
  <2>3. QED
    BY <2>1, <2>2, CountElsewhere
<1>4. ASSUME NEW r \in Runs, Wake(r) \/ Begin(r) \/ Acquire(r) \/ Finish(r)
      PROVE  PodsOutnumberSwaps'
  <2>1. /\ pc[r] \in {"asleep", "created", "queued"} \/ pc'[r] = "done"
        /\ \A q \in Runs : q # r => pc'[q] = pc[q]
        /\ UNCHANGED <<pods, what, done>>
    BY <1>4 DEF Wake, Begin, Acquire, Finish, cluster, RunsInv, RunsTypes
  <2>2. \A q \in Runs : pc'[q] = "acting" =>
          (pc[q] = "acting" /\ what'[q] = what[q]) \/ done[q] = 0
    BY <1>1, <2>1
  <2>3. QED
    BY <2>1, <2>2, CountElsewhere
<1>5. ASSUME UNCHANGED <<pods, pc, what, done>> PROVE PodsOutnumberSwaps'
  BY <1>5, CountElsewhere
<1>6. ASSUME NEW S \in live, EndScenario(S) PROVE PodsOutnumberSwaps'
  BY <1>5, <1>6 DEF EndScenario, cluster
<1>7. CASE Ambient \/ UNCHANGED vars
  BY <1>5, <1>7 DEF Ambient, vars, cluster
<1>8. QED
  BY <1>2, <1>3, <1>4, <1>6, <1>7, StepCounts DEF ClusterMoves, Progress

LEMMA CountStart == Init => PodsOutnumberSwaps
<1> SUFFICES ASSUME Init, NEW x \in Services
             PROVE  Cardinality(SwapsUnderWay(x)) < Len(pods[x])
  BY DEF PodsOutnumberSwaps
<1>1. SwapsUnderWay(x) = {}
  BY DEF Init, SwapsUnderWay
<1>2. Cardinality(SwapsUnderWay(x)) = 0
  BY <1>1, FS_EmptySet
<1>3. pods[x] \in Seq(PodType) /\ Len(pods[x]) \in Nat /\ DOMAIN pods[x] = 1..Len(pods[x])
  BY PodsStart DEF PodsInv, PodsNamed
<1>4. Desired \in DOMAIN pods[x] /\ Desired >= 1
  BY ClusterAssumption DEF Init, FirstPods
<1>5. QED
  BY <1>2, <1>3, <1>4

(* By hand, a run that refills the services is the only one at work.       *)
LEMMA HandsSwapFew ==
    ASSUME RunsInv, OneAtWork PROVE FewSwaps
<1> SUFFICES ASSUME NEW x \in Services, NEW r \in Runs,
                    pc[r] = "acting", done[r] < Len(ScriptOf(r)),
                    Does(ScriptOf(r)[done[r] + 1], "refill", x)
             PROVE  Cardinality(SwapsUnderWay(x)) < Desired
  BY DEF FewSwaps
<1> DEFINE sc == ScriptOf(r)
           n == done[r] + 1
<1>1. /\ r \in Used /\ Len(sc) \in Nat /\ PodPlan(sc, x) /\ n \in 1..Len(sc)
      /\ done[r] \in 0..Len(sc)
  <2>1. r \in Used /\ done[r] \in Nat
    BY DEF Used, RunsInv, RunsTypes
  <2>2. Len(sc) \in Nat /\ PodPlan(sc, x)
    BY <2>1, Script1, PlanOfRun DEF RunsInv, WellBehaved
  <2>3. QED
    BY <2>1, <2>2
<1>2. \E c \in 1..Len(sc) : Cuts(sc, c)
  <2>1. PICK e \in sc[n] : e.op = "refill" /\ x \in e.on
    BY DEF Does
  <2>2. e.op \in PodOps /\ e.op \notin {"add", "start_last_two"}
    BY <2>1 DEF PodOps
  <2>3. ~Quiet(sc, x)
    BY <1>1, <2>1, <2>2 DEF Quiet
  <2>4. ~ \E p, a, k \in 1..Len(sc) : Swaps(sc, x, p, a, k)
    BY <1>1, <2>1 DEF Swaps
  <2>5. ~ \E a \in 1..Len(sc) : Grows(sc, x, a)
    BY <1>1, <2>1, <2>2 DEF Grows
  <2>6. QED
    BY <1>1, <2>3, <2>4, <2>5 DEF PodPlan
<1>3. ~Between(sc, done[r], x)
  BY <1>1, <1>2, OthersAreNotBetween
<1>4. \A q \in Runs : pc[q] = "acting" => q = r
  BY DEF OneAtWork
<1>5. SwapsUnderWay(x) = {}
  BY <1>3, <1>4, SwapsAreBetween
<1>6. QED
  BY <1>5, FS_EmptySet, ClusterAssumption

(* Whatever overlaps without the lock, scenarios with each other and with  *)
(* what is triggered beside them: a service never runs out of pods, and no *)
(* run that takes one away (svc.pods = [p for p in svc.pods if p.name !=   *)
(* target.name]) takes the last, as long as an outage that ends never      *)
(* meets as many swaps of a service as it has desired replicas.            *)
THEOREM PodsOutlastOutages == ControllerSpec /\ []FewSwaps => []PodsOutnumberSwaps
<1>1. ControllerInit => PodsOutnumberSwaps
  BY CountStart DEF ControllerInit
<1>2. RunsInv /\ PodsInv /\ FewSwaps /\ PodsOutnumberSwaps /\ [ControllerNext]_controllerVars
        => PodsOutnumberSwaps'
  BY ControllerMovesCluster, CountStep
<1>3. QED
  BY <1>1, <1>2, ClusterInvariance, PTL DEF ControllerSpec

(* Actions triggered by hand need no such condition: the lock lets no swap *)
(* be under way when an outage tops the services up.                       *)
THEOREM PodsKeptByHand == ControllerSpec => [](manual => PodsOutnumberSwaps)
<1> DEFINE Kept == manual = TRUE => PodsOutnumberSwaps
<1>1. ControllerInit => Kept
  BY CountStart DEF ControllerInit
<1>2. RunsInv /\ ManualInv /\ PodsInv /\ Kept /\ [ControllerNext]_controllerVars => Kept'
  <2> SUFFICES ASSUME RunsInv, ManualInv, PodsInv, Kept, [ControllerNext]_controllerVars,
                      manual' = TRUE
               PROVE  PodsOutnumberSwaps'
    OBVIOUS
  <2>1. ClusterMoves
    BY ControllerMovesCluster
  <2>2. manual = TRUE
    BY <2>1 DEF ClusterMoves, Progress, Trigger, StartScenario, Wake, Begin, Acquire, Step,
                Advance, Finish, EndScenario, Ambient, vars
  <2>3. FewSwaps
    BY <2>2, HandsSwapFew DEF ManualInv
  <2>4. QED
    BY <2>1, <2>2, <2>3, CountStep
<1>3. RunsInv /\ Kept => (manual => PodsOutnumberSwaps)
  BY DEF RunsInv, RunsTypes
<1> HIDE DEF Kept
<1>4. QED
  BY <1>1, <1>2, <1>3, ClusterInvariance, PTL DEF ControllerSpec

=============================================================================
