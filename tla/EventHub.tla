------------------------------ MODULE EventHub ------------------------------
(***************************************************************************)
(* The hub through which the chaos controller publishes what it does, and  *)
(* the /stream endpoint that passes it on to browsers (app/events.py,      *)
(* app/main.py).  A browser shows the last snapshot that reached it; other *)
(* events are only lines in its log.                                       *)
(*                                                                         *)
(* The endpoint registers a queue before the response starts.  The         *)
(* generator of the response greets the browser with a snapshot, and only  *)
(* then enters the part that reads the queue and in the end takes it out   *)
(* of the hub: it never does for a browser that has gone before that.      *)
(***************************************************************************)
EXTENDS Naturals, Sequences

CONSTANTS Streams,   \* browsers that can have a stream open
          Capacity,  \* maxsize of a queue
          Other,     \* an event without a snapshot
          None

ASSUME HubAssumption == Capacity \in Nat \ {0} /\ Other # None

VARIABLE stream      \* browser -> its stream, if it has one

NoStream == [at |-> "none",      \* see Stations
             hubbed |-> FALSE,   \* is its queue in _subscribers?
             queue |-> << >>,
             screen |-> None,    \* the last snapshot sent to the browser
             latest |-> None]    \* history: the last published to the queue

(* "lost": the browser left before the stream was open; "left": later.     *)
Stations == {"none", "subscribed", "greeted", "open", "left", "lost"}

HubTypeOK ==
    \A s \in Streams :
        /\ stream[s].at \in Stations
        /\ stream[s].hubbed \in BOOLEAN
        /\ Len(stream[s].queue) <= Capacity

HubInit == stream = [s \in Streams |-> NoStream]

-----------------------------------------------------------------------------
(* publish: put_nowait on every queue; a full one leaves the hub for good, *)
(* though its stream stays open and goes on reading what it has.           *)
Heard(x, event) == [x EXCEPT !.latest = IF event = Other THEN @ ELSE event]

(* A mutant of the next definition: the event is dropped, not the queue.    *)
MutDropsEvent(x, event) ==
    IF Len(x.queue) < Capacity
    THEN [Heard(x, event) EXCEPT !.queue = Append(@, event)]
    ELSE Heard(x, event)

PutNowait(x, event) ==
    IF Len(x.queue) < Capacity
    THEN [Heard(x, event) EXCEPT !.queue = Append(@, event)]
    ELSE IF x.at \in {"left", "lost"} THEN NoStream
    ELSE [x EXCEPT !.hubbed = FALSE]

Emit(event) ==
    stream' = [s \in Streams |-> IF stream[s].hubbed
                                THEN PutNowait(stream[s], event) ELSE stream[s]]

(* GET /stream.                                                            *)
Subscribe(s) ==
    /\ stream[s].at = "none"
    /\ stream' = [stream EXCEPT ![s] =
            [NoStream EXCEPT !.at = "subscribed", !.hubbed = TRUE]]

(* event_generator: a snapshot of its own first, whatever is queued.       *)
Greet(s, snapshot) ==
    /\ stream[s].at = "subscribed"
    /\ stream' = [stream EXCEPT ![s].at = "greeted", ![s].screen = snapshot]

Listen(s) ==
    /\ stream[s].at = "greeted"
    /\ stream' = [stream EXCEPT ![s].at = "open"]

(* A mutant of the next definition.                                        *)
MutNewestFirst(s) ==
    /\ stream[s].at = "open"
    /\ stream[s].queue # << >>
    /\ LET queue == stream[s].queue
           event == queue[Len(queue)] IN
       stream' = [stream EXCEPT ![s].queue = SubSeq(queue, 1, Len(queue) - 1),
                                ![s].screen = IF event = Other THEN @ ELSE event]

(* hub.stream: the next line of the queue.                                 *)
Deliver(s) ==
    /\ stream[s].at = "open"
    /\ stream[s].queue # << >>
    /\ stream' = [stream EXCEPT ![s].queue = Tail(@),
            ![s].screen = IF Head(stream[s].queue) = Other THEN @
                          ELSE Head(stream[s].queue)]

(* The browser goes away; a queue that nobody refers to is forgotten.       *)
Leave(s) ==
    LET x == stream[s] IN
    /\ x.at \in {"subscribed", "greeted", "open"}
    /\ stream' = [stream EXCEPT ![s] =
            IF ~x.hubbed THEN NoStream
            ELSE [x EXCEPT !.at = IF x.at = "open" THEN "left" ELSE "lost",
                           !.screen = None, !.latest = None]]

(* The generator's finally, once it is cancelled or collected.             *)
Unsubscribe(s) ==
    /\ stream[s].at = "left"
    /\ stream' = [stream EXCEPT ![s] = NoStream]

HubNext(snapshot) ==
    \E s \in Streams :
        \/ Subscribe(s)
        \/ Greet(s, snapshot)
        \/ Listen(s)
        \/ Deliver(s)
        \/ Leave(s)
        \/ Unsubscribe(s)

-----------------------------------------------------------------------------
NoneWaiting(queue) == \A i \in DOMAIN queue : queue[i] = Other
LastWaiting(queue, snapshot) ==
    /\ snapshot # Other
    /\ \E i \in DOMAIN queue : /\ queue[i] = snapshot
                              /\ \A j \in DOMAIN queue : j > i => queue[j] = Other

(* A stream that is still in the hub has missed nothing: the last snapshot *)
(* published since it subscribed is the last one in its queue or, once it  *)
(* has read that far, the one on the browser's screen.                     *)
StreamsMissNothing ==
    \A s \in Streams :
        LET x == stream[s] IN
        x.at = "open" /\ x.hubbed /\ x.latest # None =>
            \/ LastWaiting(x.queue, x.latest)
            \/ NoneWaiting(x.queue) /\ x.screen = x.latest
=============================================================================
