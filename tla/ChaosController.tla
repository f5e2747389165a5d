-------------------------- MODULE ChaosController --------------------------
(***************************************************************************)
(* The chaos controller: the simulated cluster (ChaosCluster), everything  *)
(* it does being published through the hub to the browsers (EventHub).     *)
(* A snapshot is, for the browsers, the set of the services that are not   *)
(* healthy.                                                                *)
(***************************************************************************)
EXTENDS ChaosCluster, EventHub

VARIABLE watched  \* bound, fixed: are there browsers, and then only runs
                  \* from Beside, triggered by hand?

controllerVars == <<vars, stream, watched>>

ControllerTypeOK == TypeOK /\ HubTypeOK

ControllerInit ==
    /\ Init
    /\ HubInit
    /\ watched \in BOOLEAN
    /\ watched => manual

Snapshot == {s \in Services : ~healthy[s]}

-----------------------------------------------------------------------------
(* An action narrates most of what it does; some steps are silent.         *)
Narrated(r) == Step(r) /\ (Emit(Other) \/ UNCHANGED stream)

(* It also publishes between the steps that change something, and first of *)
(* all its own start (_anchor).                                            *)
Narrate(r) == pc[r] = "acting" /\ Emit(Other) /\ UNCHANGED vars

(* One round of _ambient_loop ends with a snapshot for everyone.           *)
Poll == Ambient /\ Emit(Snapshot)

Browse == watched /\ HubNext(Snapshot) /\ UNCHANGED vars

ControllerNext ==
    /\ UNCHANGED watched
    /\ \/ \E r \in Runs :
            \/ Narrated(r)
            \/ Narrate(r)
            \/ /\ \/ Wake(r) \/ Begin(r) \/ Acquire(r) \/ Finish(r)
                  \/ \E a \in IF watched THEN Beside ELSE Actions : Trigger(r, a)
               /\ UNCHANGED stream
       \/ \E steps \in Scenarios : StartScenario(steps) /\ UNCHANGED stream
       \/ \E S \in live : EndScenario(S) /\ UNCHANGED stream
       \/ Poll
       \/ Browse

(* The ambient loop never stops; nothing is assumed of the browsers.       *)
ControllerSpec ==
    /\ ControllerInit /\ [][ControllerNext]_controllerVars
    /\ RunsGoOn
    /\ WF_stream(Poll)

-----------------------------------------------------------------------------
(* "Slow consumers shouldn't stall the controller" (events.py:59-60), and  *)
(* nobody is left behind unnoticed: a queue in the hub belongs to a        *)
(* browser that will see the cluster as it is, or leaves the hub - that of *)
(* a browser that is gone, or that does not read, as soon as it is full.   *)
SubscribersServedOrDropped ==
    \A s \in Streams :
        stream[s].hubbed ~>
            ~stream[s].hubbed \/ (stream[s].at = "open" /\ stream[s].screen = Snapshot)
=============================================================================
