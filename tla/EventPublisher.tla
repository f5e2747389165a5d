--------------------------- MODULE EventPublisher ---------------------------
(***************************************************************************)
(* The Service Bus sender that all background publishes of a task-service  *)
(* process share (app/routes/tasks.py: _get_sender, _reset_sender,         *)
(* _publish_event).                                                        *)
(*                                                                         *)
(* Nothing is awaited while _sb_lock is held and an uncontended            *)
(* asyncio.Lock does not yield, so creating the sender, and taking it out  *)
(* of the module's globals, are each one step; a publisher awaits the      *)
(* send, and the close of what it took out.  The server stops only when no *)
(* request and no background task is left: then close_sender runs alone.   *)
(*                                                                         *)
(* External, from how the code uses it: a send fails while the bus is      *)
(* down, on a sender that has lived through an outage ("the AMQP link or   *)
(* the underlying TCP connection may be dead") and, possibly, on a sender  *)
(* that somebody is closing.                                               *)
(***************************************************************************)
EXTENDS Naturals, FiniteSets

CONSTANTS Publishers,  \* background tasks that can publish at once
          Senders,     \* sender objects; one that nobody refers to is reused
          None

ASSUME PublisherAssumption == None \notin Senders

VARIABLES current,  \* _sb_sender (with its _sb_client)
          pc,       \* "idle", "sending" or "closing"
          using,    \* the sender a publisher awaits
          open,     \* senders whose client has not been told to close
          shut,     \* senders on which close() has been called
          dead,     \* senders whose connection an outage broke
          serving,  \* is the process up?
          busUp,
          apart     \* environment, fixed: do sends never overlap?

vars == <<current, pc, using, open, shut, dead, serving, busUp, apart>>

TypeOK ==
    /\ current \in Senders \cup {None}
    /\ pc \in [Publishers -> {"idle", "sending", "closing"}]
    /\ using \in [Publishers -> Senders \cup {None}]
    /\ \A p \in Publishers : pc[p] = "idle" <=> using[p] = None
    /\ open \subseteq Senders
    /\ shut \subseteq Senders
    /\ dead \subseteq Senders
    /\ serving \in BOOLEAN /\ busUp \in BOOLEAN /\ apart \in BOOLEAN

Init ==
    /\ current = None
    /\ pc = [p \in Publishers |-> "idle"]
    /\ using = [p \in Publishers |-> None]
    /\ open = {}
    /\ shut = {}
    /\ dead = {}
    /\ serving = TRUE
    /\ busUp = TRUE
    /\ apart \in BOOLEAN

-----------------------------------------------------------------------------
Referenced == {current} \cup {using[p] : p \in Publishers} \cup open

Go(p, label, sender) ==
    /\ pc' = [pc EXCEPT ![p] = label]
    /\ using' = [using EXCEPT ![p] = sender]

SendFails(p) ==
    /\ pc[p] = "sending"
    /\ ~busUp \/ using[p] \in shut \cup dead

(* Mutants of the definitions below.                                       *)
MutUnlockedCreate == TRUE
MutCloseFirst(p) ==
    /\ SendFails(p)
    /\ shut' = shut \cup ({current} \ {None})
    /\ Go(p, IF current = None THEN "idle" ELSE "closing", current)
    /\ UNCHANGED <<current, open, dead, serving, busUp, apart>>
MutNoReset(p) ==
    /\ SendFails(p)
    /\ Go(p, "idle", None)
    /\ UNCHANGED <<current, open, shut, dead, serving, busUp, apart>>
MutKeepsHandle(p) ==
    /\ pc[p] = "sending"
    /\ busUp
    /\ using[p] \notin dead
    /\ pc' = [pc EXCEPT ![p] = "idle"]
    /\ UNCHANGED <<current, using, open, shut, dead, serving, busUp, apart>>

-----------------------------------------------------------------------------
(* _get_sender builds a sender exactly when there is none.                 *)
NeedsSender == current = None

(* A background task publishes: the shared sender, built if need be, and   *)
(* the send on it.                                                         *)
Publish(p) ==
    /\ pc[p] = "idle"
    /\ serving
    /\ apart => \A q \in Publishers : pc[q] # "sending"
    /\ \/ /\ ~NeedsSender
          /\ Go(p, "sending", current)
          /\ UNCHANGED <<current, open, shut, dead>>
       \/ /\ NeedsSender
          /\ \E s \in Senders \ Referenced :
              /\ current' = s
              /\ open' = open \cup {s}
              /\ shut' = shut \ {s}
              /\ dead' = dead \ {s}
              /\ Go(p, "sending", s)
    /\ UNCHANGED <<serving, busUp, apart>>

(* The send completes; on a sender that is being closed it may, if the     *)
(* message was already on the wire.                                        *)
Sent(p) ==
    /\ pc[p] = "sending"
    /\ busUp
    /\ using[p] \notin dead
    /\ Go(p, "idle", None)
    /\ UNCHANGED <<current, open, shut, dead, serving, busUp, apart>>

(* The send raises: the event is lost, and _reset_sender takes out         *)
(* whatever sender is current by now, and closes that one.                 *)
FailAndReset(p) ==
    /\ SendFails(p)
    /\ current' = None
    /\ shut' = shut \cup ({current} \ {None})
    /\ Go(p, IF current = None THEN "idle" ELSE "closing", current)
    /\ UNCHANGED <<open, dead, serving, busUp, apart>>

(* close() returns or raises; the error is swallowed.                      *)
CloseEnds(p) ==
    /\ pc[p] = "closing"
    /\ open' = open \ {using[p]}
    /\ Go(p, "idle", None)
    /\ UNCHANGED <<current, shut, dead, serving, busUp, apart>>

(* lifespan: close_sender, then the process ends.  It closes the sender    *)
(* and then the client, and catches nothing: if the sender's close raises, *)
(* the client is not closed and both handles stay.                         *)
Shutdown ==
    /\ serving
    /\ \A p \in Publishers : pc[p] = "idle"
    /\ serving' = FALSE
    /\ \/ /\ current' = None
          /\ open' = open \ {current}
          /\ UNCHANGED shut
       \/ /\ current # None
          /\ shut' = shut \cup {current}
          /\ UNCHANGED <<current, open>>
    /\ UNCHANGED <<pc, using, dead, busUp, apart>>

(* The next process has globals of its own; the last one's sockets died    *)
(* with it.                                                                *)
Start ==
    /\ ~serving
    /\ serving' = TRUE
    /\ current' = None
    /\ open' = {}
    /\ UNCHANGED <<pc, using, shut, dead, busUp, apart>>

BusFails ==
    /\ busUp
    /\ busUp' = FALSE
    /\ dead' = dead \cup open
    /\ UNCHANGED <<current, pc, using, open, shut, serving, apart>>

BusRecovers ==
    /\ ~busUp
    /\ busUp' = TRUE
    /\ UNCHANGED <<current, pc, using, open, shut, dead, serving, apart>>

Next ==
    \/ \E p \in Publishers :
        Publish(p) \/ Sent(p) \/ FailAndReset(p) \/ CloseEnds(p)
    \/ Shutdown
    \/ Start
    \/ BusFails
    \/ BusRecovers

Spec == Init /\ [][Next]_vars

(* Requests keep coming, sends and closes end: the SDK bounds them with    *)
(* timeouts.                                                               *)
FairSpec ==
    /\ Spec
    /\ \A p \in Publishers :
        /\ WF_vars(Publish(p))
        /\ WF_vars(Sent(p) \/ FailAndReset(p))
        /\ WF_vars(CloseEnds(p))

-----------------------------------------------------------------------------
(* The shared sender is never one that somebody is closing, so no publish  *)
(* starts on a sender already shut (_reset_sender clears the globals       *)
(* before it awaits the close); a sender that is not the shared one and    *)
(* not yet closed is being closed by exactly one publisher; and when the   *)
(* process ends, every AMQP connection has been closed, but for the shared *)
(* one if its sender's close raised (close_sender catches nothing).        *)
Closers(s) == {p \in Publishers : pc[p] = "closing" /\ using[p] = s}
NoConnectionLeaks ==
    /\ serving /\ current # None => current \in open \ shut
    /\ \A s \in open \ {current} : Cardinality(Closers(s)) = 1
    /\ ~serving => open = {current} \ {None} /\ open \subseteq shut

(* "Without this reset the singleton stays non-None forever and every      *)
(* subsequent send fails", "future events flow again as soon as Service    *)
(* Bus recovers" (tasks.py:137-140, 199-200): a shared sender that an      *)
(* outage broke does not stay the shared one of a process that lives; and  *)
(* once the bus stays up, sends eventually stop meeting shut or broken     *)
(* senders - provided that they do not overlap.  If they do, a publisher   *)
(* that fails on a sender shut under it resets the healthy one that others *)
(* are sending on, who fail in turn, and so on for ever.                   *)
EventsFlowAgain ==
    /\ serving /\ current \in dead ~> current \notin dead \/ ~serving
    /\ apart => (<>[]busUp => <>[](\A p \in Publishers : ~SendFails(p)))
=============================================================================
