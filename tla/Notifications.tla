---------------------------- MODULE Notifications ----------------------------
(***************************************************************************)
(* The notification-service: pods that compete for the messages of the     *)
(* Service Bus subscriptions (app/consumer.py) and push them to the open   *)
(* streams of the users they concern (app/broadcaster.py,                  *)
(* app/routes/stream.py).                                                  *)
(*                                                                         *)
(* Service Bus locks a message for the receiver that takes it.  The lock   *)
(* can expire at any time, which requeues the message; a message that has  *)
(* been delivered MaxDeliveries times goes to the dead-letter queue.       *)
(***************************************************************************)
EXTENDS TaskEvents

(* The consumer subscribes to two topics; all events are in the first.     *)
Topics == {"task-events", "user-events"}
TopicOf(m) == "task-events"

CONSTANTS Pods, Clients,
          Receivers,      \* <<pod, topic>>: the receivers of each pod
          UserOf, PodOf,  \* client -> its user, and the pod it is connected to
          MaxDeliveries,  \* max_delivery_count of the subscription
          QueueSize,      \* _QUEUE_MAXSIZE
          MaxCrashes      \* bound: pods that can be killed

ASSUME NotificationsAssumption ==
    /\ MaxDeliveries \in Nat \ {0}
    /\ QueueSize \in Nat \ {0}
    /\ MaxCrashes \in Nat
    /\ UserOf \in [Clients -> Users]
    /\ PodOf \in [Clients -> Pods]
    /\ Receivers \subseteq Pods \X Topics
    /\ None \notin Requests \cup Receivers

VARIABLES state,    \* message -> where it is
          holder,   \* message -> the receiver that holds its lock, or None
          tries,    \* message -> deliveries so far
          at,       \* receiver -> where it is
          work,     \* receiver -> the message it is processing, or None
          stream,   \* client -> state of its stream
          log,      \* client -> everything ever put into its queue
          taken,    \* client -> how many of these it has taken out again
          crashes

busVars == <<state, holder, tries>>
podVars == <<at, work>>
streamVars == <<stream, log, taken>>
notificationVars == <<busVars, podVars, streamVars, crashes>>

NotificationsTypeOK ==
    /\ state \in [Requests -> {"unsent", "queued", "locked", "completed", "dead"}]
    /\ holder \in [Requests -> Receivers \cup {None}]
    /\ tries \in [Requests -> 0..MaxDeliveries]
    /\ at \in [Receivers -> {"receiving", "handling", "completing", "broadcasting",
                             "abandoning", "ended"}]
    /\ work \in [Receivers -> Requests \cup {None}]
    /\ stream \in [Clients -> {"new", "open", "leaving", "gone"}]
    /\ log \in [Clients -> Seq(Requests)]
    /\ taken \in [Clients -> Nat]
    /\ \A c \in Clients : taken[c] <= Len(log[c]) /\ Len(log[c]) <= taken[c] + QueueSize
    /\ crashes \in 0..MaxCrashes

NotificationsInit ==
    /\ state = [m \in Requests |-> "unsent"]
    /\ holder = [m \in Requests |-> None]
    /\ tries = [m \in Requests |-> 0]
    /\ at = [x \in Receivers |-> "receiving"]
    /\ work = [x \in Receivers |-> None]
    /\ stream = [c \in Clients |-> "new"]
    /\ log = [c \in Clients |-> << >>]
    /\ taken = [c \in Clients |-> 0]
    /\ crashes = 0

-----------------------------------------------------------------------------
(* Service Bus.                                                            *)
Requeued(m) == [state EXCEPT ![m] = IF tries[m] < MaxDeliveries THEN "queued" ELSE "dead"]

Send(m) ==
    /\ state[m] = "unsent"
    /\ state' = [state EXCEPT ![m] = "queued"]
    /\ UNCHANGED <<holder, tries>>

Unlock(m) ==
    /\ state' = Requeued(m)
    /\ holder' = [holder EXCEPT ![m] = None]
    /\ UNCHANGED tries

LockExpires(m) ==
    /\ state[m] = "locked"
    /\ Unlock(m)
    /\ UNCHANGED <<podVars, streamVars, crashes>>

-----------------------------------------------------------------------------
(* The consumer.                                                           *)
Goto(x, next) == at' = [at EXCEPT ![x] = next] /\ UNCHANGED work
Drop(x, next) == at' = [at EXCEPT ![x] = next] /\ work' = [work EXCEPT ![x] = None]

(* Mutants of the definitions below.                                       *)
MutBroadcastFirst == "broadcasting"
MutNoRestart(p) == FALSE

(* Where _process_message goes when its handler has returned.              *)
AfterHandler == "completing"

Receive(x, m) ==
    /\ at[x] = "receiving"
    /\ state[m] = "queued" /\ TopicOf(m) = x[2]
    /\ state' = [state EXCEPT ![m] = "locked"]
    /\ holder' = [holder EXCEPT ![m] = x]
    /\ tries' = [tries EXCEPT ![m] = @ + 1]
    /\ at' = [at EXCEPT ![x] = "handling"]
    /\ work' = [work EXCEPT ![x] = m]
    /\ UNCHANGED <<streamVars, crashes>>

(* The body is parsed and the handler of its event type runs; either may   *)
(* raise.                                                                  *)
Handle(x) ==
    /\ at[x] = "handling"
    /\ Goto(x, AfterHandler) \/ Goto(x, "abandoning")
    /\ UNCHANGED <<busVars, streamVars, crashes>>

(* complete_message raises if the lock is lost, if the request never       *)
(* arrives, and if only its reply is lost.                                 *)
Complete(x) ==
    /\ at[x] = "completing"
    /\ \/ /\ holder[work[x]] = x
          /\ state' = [state EXCEPT ![work[x]] = "completed"]
          /\ holder' = [holder EXCEPT ![work[x]] = None]
          /\ Goto(x, "broadcasting") \/ Goto(x, "abandoning")
       \/ UNCHANGED <<state, holder>> /\ Goto(x, "abandoning")
    /\ UNCHANGED <<tries, streamVars, crashes>>

(* abandon_message; when it raises too, the receiver ends.                 *)
Abandon(x) ==
    /\ at[x] = "abandoning"
    /\ \/ holder[work[x]] = x /\ Unlock(work[x]) /\ Drop(x, "receiving")
       \/ UNCHANGED busVars /\ Drop(x, "ended")
    /\ UNCHANGED <<streamVars, crashes>>

(* max_wait_time without a message ends the iteration over the receiver.   *)
Idle(x) ==
    /\ at[x] = "receiving"
    /\ \A m \in Requests : TopicOf(m) = x[2] => state[m] # "queued"
    /\ Goto(x, "ended")
    /\ UNCHANGED <<busVars, streamVars, crashes>>

(* gather waits for the receivers of all topics before run starts again.   *)
Restart(p) ==
    /\ \A x \in Receivers : x[1] = p => at[x] = "ended"
    /\ at' = [x \in Receivers |-> IF x[1] = p THEN "receiving" ELSE at[x]]
    /\ UNCHANGED <<busVars, work, streamVars, crashes>>

-----------------------------------------------------------------------------
(* The broadcaster.                                                        *)
Registered(c) == stream[c] \in {"open", "leaving"}
QueueLen(c) == Len(log[c]) - taken[c]

(* _collect_targets.                                                       *)
Targets(assignee) ==
    IF assignee \in {Creator, None} THEN <<Creator>> ELSE <<Creator, assignee>>

(* Mutant of Copies: an unbounded queue.                                   *)
MutUnbounded(p, targets, c) ==
    IF PodOf[c] # p \/ ~Registered(c) THEN 0
    ELSE Cardinality({i \in DOMAIN targets : targets[i] = UserOf[c]})

(* How often broadcast gets the event into the queue of c: put_nowait once *)
(* per target, as long as the queue is not full.                           *)
Copies(p, targets, c) ==
    LET wanted == Cardinality({i \in DOMAIN targets : targets[i] = UserOf[c]})
        room == QueueSize - QueueLen(c)
    IN  IF PodOf[c] # p \/ ~Registered(c) THEN 0
        ELSE IF wanted <= room THEN wanted ELSE room

Broadcast(x, data) ==
    /\ at[x] = "broadcasting"
    /\ log' = [c \in Clients |->
                 log[c] \o [i \in 1..Copies(x[1], Targets(data.assignee), c) |-> work[x]]]
    /\ Drop(x, "receiving")
    /\ UNCHANGED <<busVars, stream, taken, crashes>>

(* The first step of the response's iteration over subscribe().            *)
Subscribe(c) ==
    /\ stream[c] = "new"
    /\ stream' = [stream EXCEPT ![c] = "open"]
    /\ UNCHANGED <<busVars, podVars, log, taken, crashes>>

Take(c) ==
    /\ stream[c] = "open" /\ QueueLen(c) > 0
    /\ taken' = [taken EXCEPT ![c] = @ + 1]
    /\ UNCHANGED <<busVars, podVars, stream, log, crashes>>

(* The client disconnects; the queue stays registered until the generator  *)
(* is closed.                                                              *)
Disconnect(c) ==
    /\ stream[c] = "open"
    /\ stream' = [stream EXCEPT ![c] = "leaving"]
    /\ UNCHANGED <<busVars, podVars, log, taken, crashes>>

Cleanup(c) ==
    /\ stream[c] = "leaving"
    /\ stream' = [stream EXCEPT ![c] = "gone"]
    /\ UNCHANGED <<busVars, podVars, log, taken, crashes>>

(* A pod is killed, and starts afresh; its locks stay until they expire.   *)
Crash(p) ==
    /\ crashes < MaxCrashes
    /\ crashes' = crashes + 1
    /\ at' = [x \in Receivers |-> IF x[1] = p THEN "receiving" ELSE at[x]]
    /\ work' = [x \in Receivers |-> IF x[1] = p THEN None ELSE work[x]]
    /\ stream' = [c \in Clients |-> IF PodOf[c] = p /\ Registered(c) THEN "gone"
                                                                    ELSE stream[c]]
    /\ UNCHANGED <<busVars, log, taken>>

ReceiverStep(x) ==
    \/ \E m \in Requests : Receive(x, m)
    \/ Handle(x)
    \/ Complete(x)
    \/ Abandon(x)
    \/ Idle(x)

ClientStep(c) == Subscribe(c) \/ Take(c) \/ Disconnect(c) \/ Cleanup(c)

NotificationsStep ==
    \/ \E m \in Requests : LockExpires(m)
    \/ \E x \in Receivers : ReceiverStep(x)
    \/ \E p \in Pods : Restart(p) \/ Crash(p)
    \/ \E c \in Clients : ClientStep(c)
=============================================================================
