---------------------------- MODULE EventPipeline ----------------------------
(***************************************************************************)
(* From a commit in the task-service to the open streams of the users it   *)
(* concerns: TaskChanges and Notifications joined by _publish_event, which *)
(* sends each event to Service Bus at most once and swallows any failure.  *)
(***************************************************************************)
EXTENDS TaskChanges, Notifications

vars == <<changeVars, notificationVars>>

TypeOK == ChangesTypeOK /\ NotificationsTypeOK

Init == ChangesInit /\ NotificationsInit

(* _publish_event, in the background task of the request.  The send may    *)
(* fail, and the process may die before it.                                *)
Publish(c) ==
    /\ pc[c] = "publishing"
    /\ Leave(c, "done")
    /\ UNCHANGED <<row, event, podVars, streamVars, crashes>>
    /\ Send(c) \/ UNCHANGED busVars

Next ==
    \/ \E r \in Requests : RequestStep(r) /\ UNCHANGED notificationVars
    \/ \E c \in Requests : Publish(c)
    \/ NotificationsStep /\ UNCHANGED changeVars
    \/ \E x \in Receivers : Broadcast(x, event[work[x]]) /\ UNCHANGED changeVars

Spec == Init /\ [][Next]_vars

(* The consumers keep running, Service Bus releases expired locks, and a   *)
(* closed stream's generator is finalised.                                 *)
FairSpec ==
    /\ Spec
    /\ \A x \in Receivers :
         /\ WF_vars(ReceiverStep(x) /\ UNCHANGED changeVars)
         /\ WF_vars(Broadcast(x, event[work[x]]) /\ UNCHANGED changeVars)
    /\ \A p \in Pods : WF_vars(Restart(p) /\ UNCHANGED changeVars)
    /\ \A m \in Requests : WF_vars(LockExpires(m) /\ UNCHANGED changeVars)

-----------------------------------------------------------------------------
(* Whatever receivers die and locks expire, every message that reaches the *)
(* subscription ends up completed or in the dead-letter queue.             *)
EventuallySettled ==
    \A m \in Requests : state[m] = "queued" ~> state[m] \in {"completed", "dead"}

(* What the streams deliver is best effort, at most once, and only to the  *)
(* users that the committed change concerns.                               *)
Delivery == INSTANCE BestEffortDelivery WITH
    Changes <- Requests,
    committed <- Committed,
    concerns <- [m \in Requests |->
                   {c \in Clients : event[m] # None /\ UserOf[c] \in {Creator, event[m].assignee}}],
    told <- log

DeliveryIsBestEffort == Delivery!Spec
=============================================================================
