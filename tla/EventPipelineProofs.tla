------------------------- MODULE EventPipelineProofs -------------------------
(***************************************************************************)
(* Proofs about EventPipeline, for any numbers of requests, users, pods,   *)
(* receivers and clients.                                                  *)
(***************************************************************************)
EXTENDS EventPipeline, FiniteSetTheorems, SequenceTheorems, TLAPS

-----------------------------------------------------------------------------
(* The task-service.                                                       *)

(* A request that is not over has what it needs; a flushed write is alone  *)
(* with the row, and its event says what the row is going to be.           *)
Announces(r) ==
    Sets(r, "status") =>
        event[r] # None /\ event[r].status = ask[r].status

FlushInv ==
    \A r \in Requests :
        /\ pc[r] \in {"patching", "flushed"} => ask[r] \in Asks /\ loaded[r] \in Row
        /\ pc[r] = "deleting" => loaded[r] \in Row
        /\ pc[r] = "flushed" => Announces(r)
        /\ pc[r] = "flushed" /\ Writes(r) =>
              /\ row # None
              /\ \A o \in Requests : pc[o] = "flushed" /\ Writes(o) => o = r
        /\ pc[r] = "publishing" => event[r] # None

LEMMA PatchType ==
    ASSUME NEW r \in Requests, NEW t \in Row, ask[r] \in Asks, loaded[r] \in Row
    PROVE  /\ Patch(r, t) \in Row
           /\ Patch(r, t).status = IF Sets(r, "status") THEN ask[r].status
                                   ELSE t.status
           /\ ask[r].status \in Statuses \cup {Unset}
           /\ Sets(r, "status") => ask[r].status \notin {Unset, loaded[r].status}
  BY ChangesAssumption DEF Patch, Row, Sets

ChangesInv == ChangesTypeOK /\ FlushInv

(* What a step of the pipeline is for the task-service.                    *)
Published(c) == pc[c] = "publishing" /\ Leave(c, "done") /\ UNCHANGED <<row, event>>

ChangesStep ==
    \/ \E r \in Requests : RequestStep(r) \/ Published(r)
    \/ UNCHANGED changeVars

LEMMA StepsOfChanges == [Next]_vars => ChangesStep
  BY DEF Next, Publish, Published, ChangesStep, vars, changeVars

LEMMA LeaveEffect ==
    ASSUME ChangesTypeOK, NEW r \in Requests, NEW where \in {"done", "publishing"},
           Leave(r, where)
    PROVE  /\ pc' \in [Requests -> {"new", "patching", "deleting", "flushed",
                                    "publishing", "done"}]
           /\ ask' \in [Requests -> Asks \cup {None}]
           /\ loaded' \in [Requests -> Row \cup {None}]
           /\ pc'[r] = where
           /\ \A o \in Requests : o # r => /\ pc'[o] = pc[o] /\ ask'[o] = ask[o]
                                           /\ loaded'[o] = loaded[o]
  BY DEF ChangesTypeOK, Leave

(* A request that another one does not touch stays as it was.              *)
LEMMA OthersKeepInv ==
    ASSUME ChangesInv, NEW r \in Requests,
           \/ row' = row
           \/ \A o \in Requests : pc[o] = "flushed" /\ Writes(o) => o = r,
           pc'[r] \notin {"patching", "deleting", "flushed"},
           pc'[r] = "publishing" => event'[r] # None,
           \A o \in Requests : o # r =>
               /\ pc'[o] = pc[o] /\ ask'[o] = ask[o] /\ loaded'[o] = loaded[o]
               /\ event'[o] = event[o]
    PROVE  FlushInv'
<1>1. ASSUME NEW o \in Requests, o # r
      PROVE  /\ Announces(o)' <=> Announces(o)
             /\ Writes(o)' <=> Writes(o)
  BY <1>1 DEF Announces, Writes, Sets
<1>2. QED
  BY <1>1 DEF ChangesInv, FlushInv

LEMMA ChangesStart == Init => ChangesInv
<1> SUFFICES ASSUME Init
             PROVE  ChangesInv
  OBVIOUS
<1>1. row \in Row
  BY ChangesAssumption DEF Init, ChangesInit, Row
<1>2. QED
  BY <1>1 DEF Init, ChangesInit, ChangesInv, ChangesTypeOK, FlushInv

LEMMA LoadKeeps ==
    ASSUME ChangesInv, NEW r \in Requests, Load(r)
    PROVE  ChangesInv'
<1>1. CASE row = None
  <2>1. Leave(r, "done") /\ UNCHANGED <<row, event>>
    BY <1>1 DEF Load
  <2>2. ChangesTypeOK'
    BY <2>1, LeaveEffect DEF ChangesInv, ChangesTypeOK
  <2>3. FlushInv'
    BY <2>1, LeaveEffect, OthersKeepInv DEF ChangesInv
  <2>4. QED
    BY <2>2, <2>3 DEF ChangesInv
<1>2. CASE row # None
  <2>1. /\ loaded' = [loaded EXCEPT ![r] = row] /\ row \in Row
        /\ UNCHANGED <<row, event>>
        /\ \/ /\ pc' = [pc EXCEPT ![r] = "patching"]
              /\ \E a \in Asks : ask' = [ask EXCEPT ![r] = a]
           \/ /\ pc' = [pc EXCEPT ![r] = "deleting"]
              /\ UNCHANGED ask
    BY <1>2 DEF Load, ChangesInv, ChangesTypeOK
  <2>2. ChangesTypeOK'
    BY <2>1 DEF ChangesInv, ChangesTypeOK
  <2>3. /\ pc'[r] \in {"patching", "deleting"} /\ loaded'[r] \in Row
        /\ pc'[r] = "patching" => ask'[r] \in Asks
        /\ \A o \in Requests : o # r => /\ pc'[o] = pc[o] /\ ask'[o] = ask[o]
                                        /\ loaded'[o] = loaded[o]
    BY <2>1 DEF ChangesInv, ChangesTypeOK
  <2>4. ASSUME NEW o \in Requests, o # r
        PROVE  /\ Announces(o)' <=> Announces(o)
               /\ Writes(o)' <=> Writes(o)
    BY <2>1, <2>3, <2>4 DEF Announces, Writes, Sets
  <2>5. FlushInv'
    BY <2>1, <2>3, <2>4 DEF ChangesInv, FlushInv
  <2>6. QED
    BY <2>2, <2>5 DEF ChangesInv
<1>3. QED
  BY <1>1, <1>2

(* The flush: it takes the row's lock, and decides what to announce.       *)
LEMMA FlushKeeps ==
    ASSUME ChangesInv, NEW r \in Requests, Flush(r)
    PROVE  ChangesInv'
<1>1. CASE row = None
  <2>1. Leave(r, "done") /\ UNCHANGED <<row, event>>
    BY <1>1 DEF Flush
  <2>2. ChangesTypeOK'
    BY <2>1, LeaveEffect DEF ChangesInv, ChangesTypeOK
  <2>3. FlushInv'
    BY <2>1, LeaveEffect, OthersKeepInv DEF ChangesInv
  <2>4. QED
    BY <2>2, <2>3 DEF ChangesInv
<1>2. CASE row # None
  <2> DEFINE seen == Patch(r, row)
             due == ask[r].status # Unset /\ seen.status # loaded[r].status
             e == [type |-> "task.status_changed", status |-> seen.status,
                   assignee |-> seen.assignee]
  <2>1. /\ pc[r] = "patching" /\ (Writes(r) => ~Locked)
        /\ pc' = [pc EXCEPT ![r] = "flushed"]
        /\ event' = IF due THEN [event EXCEPT ![r] = e] ELSE event
        /\ UNCHANGED <<row, ask, loaded>>
    BY <1>2 DEF Flush
  <2>2. row \in Row /\ ask[r] \in Asks /\ loaded[r] \in Row
    BY <1>2, <2>1 DEF ChangesInv, ChangesTypeOK, FlushInv
  <2>3. /\ seen \in Row
        /\ seen.status = IF Sets(r, "status") THEN ask[r].status ELSE row.status
        /\ Sets(r, "status") => ask[r].status \notin {Unset, loaded[r].status}
    BY <2>2, PatchType
  <2>4. e \in Event /\ e # None /\ e.status = seen.status
    BY <2>3, EventsAssumption DEF Event, Row
  <2> HIDE DEF e, seen
  <2>5. ChangesTypeOK'
    BY <2>1, <2>4 DEF ChangesInv, ChangesTypeOK
  <2>6. /\ pc'[r] = "flushed"
        /\ \A o \in Requests : o # r => pc'[o] = pc[o] /\ event'[o] = event[o]
        /\ due => event'[r] = e
    BY <2>1 DEF ChangesInv, ChangesTypeOK
  <2>7. \A o \in Requests : Sets(o, "status")' = Sets(o, "status")
                            /\ Writes(o)' = Writes(o)
    BY <2>1 DEF Sets, Writes
  <2>8. Announces(r)'
    BY <2>1, <2>3, <2>4, <2>6, <2>7 DEF Announces
  <2>9. ASSUME NEW o \in Requests, o # r
        PROVE  Announces(o)' <=> Announces(o)
    BY <2>1, <2>6, <2>7, <2>9 DEF Announces
  <2>10. FlushInv'
    <3>1. ASSUME NEW o \in Requests, pc'[o] = "flushed", Writes(o)
          PROVE  row # None /\ \A q \in Requests :
                                  pc'[q] = "flushed" /\ Writes(q) => q = o
      BY <1>2, <2>1, <2>6, <3>1 DEF Locked, ChangesInv, FlushInv
    <3>2. ASSUME NEW o \in Requests
          PROVE  /\ pc'[o] \in {"patching", "flushed"}
                      => ask[o] \in Asks /\ loaded[o] \in Row
                 /\ pc'[o] = "deleting" => loaded[o] \in Row
                 /\ pc'[o] = "flushed" => Announces(o)'
                 /\ pc'[o] = "publishing" => event'[o] # None
      BY <2>2, <2>6, <2>8, <2>9 DEF ChangesInv, FlushInv
    <3>3. QED
      BY <2>1, <2>7, <3>1, <3>2 DEF FlushInv
  <2>11. QED
    BY <2>5, <2>10 DEF ChangesInv
<1>3. QED
  BY <1>1, <1>2

LEMMA CommitUpdateKeeps ==
    ASSUME ChangesInv, NEW r \in Requests, CommitUpdate(r)
    PROVE  ChangesInv'
<1>1. /\ pc[r] = "flushed"
      /\ row' = IF Writes(r) THEN Patch(r, row) ELSE row
      /\ Leave(r, IF event[r] = None THEN "done" ELSE "publishing")
      /\ UNCHANGED event
  BY DEF CommitUpdate
<1>2. row' \in Row \cup {None}
  <2>1. ask[r] \in Asks /\ loaded[r] \in Row
    BY <1>1 DEF ChangesInv, FlushInv
  <2>2. CASE Writes(r) /\ row # None
    BY <1>1, <2>1, <2>2, PatchType DEF ChangesInv, ChangesTypeOK
  <2>3. CASE ~Writes(r)
    BY <1>1, <2>3 DEF ChangesInv, ChangesTypeOK
  <2>4. CASE Writes(r) /\ row = None
    BY <1>1, <2>4 DEF ChangesInv, FlushInv
  <2>5. QED
    BY <2>2, <2>3, <2>4
<1>3. ChangesTypeOK'
  BY <1>1, <1>2, LeaveEffect DEF ChangesInv, ChangesTypeOK
<1>4. FlushInv'
  <2>1. \/ row' = row
        \/ \A o \in Requests : pc[o] = "flushed" /\ Writes(o) => o = r
    BY <1>1 DEF ChangesInv, FlushInv
  <2>2. QED
    BY <1>1, <2>1, LeaveEffect, OthersKeepInv DEF ChangesInv
<1>5. QED
  BY <1>3, <1>4 DEF ChangesInv

LEMMA CommitDeleteKeeps ==
    ASSUME ChangesInv, NEW r \in Requests, CommitDelete(r)
    PROVE  ChangesInv'
<1> DEFINE e == [type |-> "task.deleted", status |-> None,
                 assignee |-> loaded[r].assignee]
<1>1. /\ pc[r] = "deleting" /\ ~Locked /\ row' = None
      /\ Leave(r, "publishing") /\ event' = [event EXCEPT ![r] = e]
  BY DEF CommitDelete
<1>2. e \in Event /\ e # None
  <2>1. loaded[r] \in Row
    BY <1>1 DEF ChangesInv, FlushInv
  <2>2. e \in Event
    BY <2>1 DEF Event, Row
  <2>3. QED
    BY <2>2, EventsAssumption
<1> HIDE DEF e
<1>3. ChangesTypeOK'
  BY <1>1, <1>2, LeaveEffect DEF ChangesInv, ChangesTypeOK
<1>4. FlushInv'
  <2>1. /\ event'[r] # None
        /\ \A o \in Requests : o # r => event'[o] = event[o]
        /\ \A o \in Requests : ~(pc[o] = "flushed" /\ Writes(o))
    BY <1>1, <1>2 DEF ChangesInv, ChangesTypeOK, Locked
  <2>2. QED
    BY <1>1, <2>1, LeaveEffect, OthersKeepInv DEF ChangesInv
<1>5. QED
  BY <1>3, <1>4 DEF ChangesInv

LEMMA FailKeeps ==
    ASSUME ChangesInv, NEW r \in Requests, Fail(r)
    PROVE  ChangesInv'
<1>1. /\ Leave(r, "done") /\ event' = [event EXCEPT ![r] = None]
      /\ UNCHANGED row
  BY DEF Fail
<1>2. ChangesTypeOK'
  BY <1>1, LeaveEffect DEF ChangesInv, ChangesTypeOK
<1>3. \A o \in Requests : o # r => event'[o] = event[o]
  BY <1>1 DEF ChangesInv, ChangesTypeOK
<1>4. FlushInv'
  BY <1>1, <1>3, LeaveEffect, OthersKeepInv DEF ChangesInv
<1>5. QED
  BY <1>2, <1>4 DEF ChangesInv

LEMMA PublishedKeeps ==
    ASSUME ChangesInv, NEW r \in Requests, Published(r)
    PROVE  ChangesInv'
<1>1. Leave(r, "done") /\ UNCHANGED <<row, event>>
  BY DEF Published
<1>2. ChangesTypeOK'
  BY <1>1, LeaveEffect DEF ChangesInv, ChangesTypeOK
<1>3. FlushInv'
  BY <1>1, LeaveEffect, OthersKeepInv DEF ChangesInv
<1>4. QED
  BY <1>2, <1>3 DEF ChangesInv

LEMMA ChangesInvStep == ChangesInv /\ [Next]_vars => ChangesInv'
<1> SUFFICES ASSUME ChangesInv, ChangesStep
             PROVE  ChangesInv'
  BY StepsOfChanges
<1>1. CASE UNCHANGED changeVars
  BY <1>1 DEF changeVars, ChangesInv, ChangesTypeOK, FlushInv, Announces,
              Writes, Sets
<1>2. QED
  BY <1>1, LoadKeeps, FlushKeeps, CommitUpdateKeeps, CommitDeleteKeeps,
     FailKeeps, PublishedKeeps DEF ChangesStep, RequestStep

(* Whichever requests overlap, a committed change of the status has an     *)
(* event that tells it.                                                    *)
THEOREM ChangesAreAnnounced == FairSpec => EveryChangeIsAnnounced
<1> DEFINE Told == \A r \in Requests :
         pc[r] = "flushed" /\ pc'[r] # "flushed" /\ row # None /\ row' # row
         /\ row'.status # row.status
            => event'[r] # None /\ event'[r].status = row'.status
<1>1. ChangesInv /\ [Next]_vars => [Told]_changeVars
  <2> SUFFICES ASSUME ChangesInv, ChangesStep, NEW r \in Requests,
                      pc[r] = "flushed", pc'[r] # "flushed",
                      row # None, row' # row, row'.status # row.status
               PROVE  event'[r] # None /\ event'[r].status = row'.status
    BY StepsOfChanges
  <2>1. CommitUpdate(r)
    <3>1. ASSUME NEW o \in Requests, RequestStep(o) \/ Published(o), o # r
          PROVE  pc'[r] = pc[r]
      BY <3>1 DEF RequestStep, Load, Flush, CommitUpdate, CommitDelete, Fail,
                  Published, Leave, ChangesInv, ChangesTypeOK
    <3>2. RequestStep(r)
      BY <3>1 DEF ChangesStep, changeVars, Published
    <3>3. QED
      BY <3>2 DEF RequestStep, Load, Flush, CommitDelete, Fail
  <2>2. /\ row' = Patch(r, row) /\ event' = event /\ row \in Row
        /\ ask[r] \in Asks /\ loaded[r] \in Row /\ Announces(r)
    BY <2>1 DEF CommitUpdate, ChangesInv, ChangesTypeOK, FlushInv
  <2>3. QED
    BY <2>2, PatchType DEF Announces
<1>2. Spec => []ChangesInv
  BY ChangesStart, ChangesInvStep, PTL DEF Spec
<1>3. QED
  BY <1>1, <1>2, PTL DEF FairSpec, Spec, EveryChangeIsAnnounced

-----------------------------------------------------------------------------
(* The notification-service.                                               *)

Busy(x) == at[x] \in {"handling", "completing", "abandoning", "broadcasting"}
Has(c, m) == \E i \in DOMAIN log[c] : log[c][i] = m

(* What is on the bus was committed, and can still be delivered if it is   *)
(* queued; whoever pushes a message is the only one, and has completed it; *)
(* what was pushed is completed.                                           *)
OnBus ==
    \A m \in Requests :
        /\ state[m] # "unsent" => pc[m] = "done" /\ event[m] # None
        /\ state[m] \in {"unsent", "queued"} => tries[m] < MaxDeliveries
        /\ holder[m] # None => state[m] = "locked"

AtWork ==
    \A x \in Receivers :
        /\ Busy(x) => work[x] \in Requests
        /\ at[x] = "broadcasting" =>
              /\ state[work[x]] = "completed"
              /\ \A c \in Clients : ~Has(c, work[x])
              /\ \A y \in Receivers :
                    at[y] = "broadcasting" /\ work[y] = work[x] => y = x

WasTold == \A c \in Clients, m \in Requests : Has(c, m) => state[m] = "completed"

BusInv == OnBus /\ AtWork /\ WasTold

PipelineInv == ChangesInv /\ NotificationsTypeOK /\ BusInv

LEMMA Copying ==
    ASSUME NEW s \in Seq(Requests), NEW m \in Requests, NEW n \in {0, 1}
    PROVE  s \o [i \in 1..n |-> m] = IF n = 1 THEN Append(s, m) ELSE s
<1>1. CASE n = 0
  <2>1. [i \in 1..n |-> m] = << >>
    BY <1>1
  <2>2. QED
    BY <1>1, <2>1, ConcatEmptySeq
<1>2. CASE n = 1
  <2>1. [i \in 1..n |-> m] = <<m>>
    BY <1>2
  <2>2. QED
    BY <1>2, <2>1
<1>3. QED
  BY <1>1, <1>2

(* Nobody is among the targets twice.                                      *)
LEMMA OneCopy ==
    ASSUME NotificationsTypeOK, NEW c \in Clients, NEW p \in Pods,
           NEW a \in Users \cup {None}
    PROVE  /\ Copies(p, Targets(a), c) \in {0, 1}
           /\ Copies(p, Targets(a), c) = 1 =>
                /\ UserOf[c] \in {Creator, a}
                /\ QueueLen(c) < QueueSize
<1> DEFINE hits == {i \in DOMAIN Targets(a) : Targets(a)[i] = UserOf[c]}
<1>1. hits \in {{}, {1}, {2}} /\ (hits # {} => UserOf[c] \in {Creator, a})
  BY DEF Targets
<1>2. /\ Cardinality(hits) \in {0, 1}
      /\ Cardinality(hits) = 1 => UserOf[c] \in {Creator, a}
  BY <1>1, FS_EmptySet, FS_Singleton
<1> HIDE DEF hits
<1>3. /\ QueueLen(c) \in Nat /\ QueueLen(c) <= QueueSize
      /\ QueueSize \in Nat \ {0}
  <2>1. log[c] \in Seq(Requests) /\ taken[c] \in Nat
    BY DEF NotificationsTypeOK
  <2>2. Len(log[c]) \in Nat
    BY <2>1
  <2>3. taken[c] <= Len(log[c]) /\ Len(log[c]) <= taken[c] + QueueSize
    BY DEF NotificationsTypeOK
  <2>4. QED
    BY <2>1, <2>2, <2>3, NotificationsAssumption DEF QueueLen
<1>4. Copies(p, Targets(a), c) =
         IF PodOf[c] # p \/ ~Registered(c) THEN 0
         ELSE IF Cardinality(hits) <= QueueSize - QueueLen(c)
              THEN Cardinality(hits) ELSE QueueSize - QueueLen(c)
  BY DEF Copies, hits
<1>5. QED
  BY <1>2, <1>3, <1>4

LEMMA BusStarts == Init => NotificationsTypeOK /\ BusInv
  BY NotificationsAssumption
     DEF Init, NotificationsInit, NotificationsTypeOK, BusInv, OnBus, AtWork, WasTold,
         Has, Busy

(* What the task-service does leaves the requests alone whose event has    *)
(* been sent.                                                              *)
LEMMA RequestKeepsBus ==
    ASSUME PipelineInv, NEW r \in Requests, RequestStep(r), UNCHANGED notificationVars
    PROVE  NotificationsTypeOK' /\ BusInv'
<1>1. /\ pc[r] # "done"
      /\ \A m \in Requests : m # r => pc'[m] = pc[m] /\ event'[m] = event[m]
  BY DEF RequestStep, Load, Flush, CommitUpdate, CommitDelete, Fail, Leave,
         PipelineInv, ChangesInv, ChangesTypeOK
<1>2. UNCHANGED <<state, holder, tries, at, work, stream, log, taken, crashes>>
  BY DEF notificationVars, busVars, podVars, streamVars
<1>3. NotificationsTypeOK'
  BY <1>2 DEF PipelineInv, NotificationsTypeOK, QueueLen
<1>4. OnBus'
  BY <1>1, <1>2 DEF PipelineInv, BusInv, OnBus
<1>5. AtWork' /\ WasTold'
  BY <1>2 DEF PipelineInv, BusInv, AtWork, WasTold, Busy, Has
<1>6. QED
  BY <1>3, <1>4, <1>5 DEF BusInv

LEMMA PublishKeepsBus ==
    ASSUME PipelineInv, NEW r \in Requests, Publish(r)
    PROVE  NotificationsTypeOK' /\ BusInv'
<1>1. /\ pc[r] = "publishing" /\ pc'[r] = "done" /\ event[r] # None
      /\ \A m \in Requests : m # r => pc'[m] = pc[m]
      /\ UNCHANGED <<event, at, work, stream, log, taken, crashes, holder, tries>>
  BY LeaveEffect DEF Publish, Send, busVars, podVars, streamVars, PipelineInv,
                     ChangesInv, FlushInv
<1>2. \/ state' = state
      \/ state[r] = "unsent" /\ state' = [state EXCEPT ![r] = "queued"]
  BY DEF Publish, Send, busVars
<1>3. /\ \A m \in Requests : m # r => state'[m] = state[m]
      /\ \/ state'[r] = state[r]
         \/ state[r] = "unsent" /\ state'[r] = "queued"
      /\ \A m \in Requests : state[m] = "completed" => state'[m] = "completed"
  BY <1>2 DEF PipelineInv, NotificationsTypeOK
<1>4. NotificationsTypeOK'
  BY <1>1, <1>2 DEF PipelineInv, NotificationsTypeOK
<1>5. OnBus'
  BY <1>1, <1>3 DEF PipelineInv, BusInv, OnBus
<1>6. AtWork' /\ WasTold'
  BY <1>1, <1>3 DEF PipelineInv, BusInv, AtWork, WasTold, Busy, Has
<1>7. QED
  BY <1>4, <1>5, <1>6 DEF BusInv

(* Service Bus takes a lock away.                                          *)
LEMMA UnlockKeeps ==
    ASSUME PipelineInv, NEW m \in Requests, state[m] = "locked", Unlock(m),
           UNCHANGED <<pc, event>>
    PROVE  /\ OnBus'
           /\ state' \in [Requests -> {"unsent", "queued", "locked", "completed", "dead"}]
           /\ holder' \in [Requests -> Receivers \cup {None}]
           /\ tries' \in [Requests -> 0..MaxDeliveries]
           /\ \A o \in Requests : state[o] = "completed" => state'[o] = "completed"
<1>1. /\ state' = [state EXCEPT ![m] = IF tries[m] < MaxDeliveries THEN "queued" ELSE "dead"]
      /\ holder' = [holder EXCEPT ![m] = None] /\ tries' = tries
  BY DEF Unlock, Requeued
<1>2. QED
  BY <1>1 DEF PipelineInv, NotificationsTypeOK, BusInv, OnBus

LEMMA LockExpiresKeeps ==
    ASSUME PipelineInv, NEW m \in Requests, LockExpires(m), UNCHANGED changeVars
    PROVE  NotificationsTypeOK' /\ BusInv'
<1>1. /\ state[m] = "locked" /\ Unlock(m)
      /\ UNCHANGED <<pc, event, at, work, stream, log, taken, crashes>>
  BY DEF LockExpires, changeVars, podVars, streamVars
<1>2. NotificationsTypeOK'
  BY <1>1, UnlockKeeps DEF PipelineInv, NotificationsTypeOK
<1>3. AtWork' /\ WasTold'
  BY <1>1, UnlockKeeps DEF PipelineInv, BusInv, AtWork, WasTold, Busy, Has
<1>4. QED
  BY <1>1, <1>2, <1>3, UnlockKeeps DEF BusInv

LEMMA ReceiveKeeps ==
    ASSUME PipelineInv, NEW x \in Receivers, NEW m \in Requests, Receive(x, m),
           UNCHANGED changeVars
    PROVE  NotificationsTypeOK' /\ BusInv'
<1>1. /\ at[x] = "receiving" /\ state[m] = "queued"
      /\ state' = [state EXCEPT ![m] = "locked"]
      /\ holder' = [holder EXCEPT ![m] = x]
      /\ tries' = [tries EXCEPT ![m] = tries[m] + 1]
      /\ at' = [at EXCEPT ![x] = "handling"]
      /\ work' = [work EXCEPT ![x] = m]
      /\ UNCHANGED <<pc, event, stream, log, taken, crashes>>
  BY DEF Receive, changeVars, streamVars
<1>2. tries[m] + 1 \in 0..MaxDeliveries
  BY <1>1, NotificationsAssumption
     DEF PipelineInv, NotificationsTypeOK, BusInv, OnBus
<1>3. NotificationsTypeOK'
  BY <1>1, <1>2 DEF PipelineInv, NotificationsTypeOK
<1>4. OnBus'
  BY <1>1 DEF PipelineInv, NotificationsTypeOK, BusInv, OnBus
<1>5. \A o \in Requests : state[o] = "completed" => state'[o] = "completed"
  BY <1>1 DEF PipelineInv, NotificationsTypeOK
<1>6. \A y \in Receivers : /\ y # x => at'[y] = at[y] /\ work'[y] = work[y]
                           /\ y = x => at'[y] = "handling" /\ work'[y] = m
  BY <1>1 DEF PipelineInv, NotificationsTypeOK
<1>7. AtWork'
  BY <1>1, <1>5, <1>6 DEF PipelineInv, BusInv, AtWork, Busy, Has
<1>8. WasTold'
  BY <1>1, <1>5 DEF PipelineInv, BusInv, WasTold, Has
<1>9. QED
  BY <1>3, <1>4, <1>7, <1>8 DEF BusInv

LEMMA CompleteKeeps ==
    ASSUME PipelineInv, NEW x \in Receivers, Complete(x), UNCHANGED changeVars
    PROVE  NotificationsTypeOK' /\ BusInv'
<1> DEFINE m == work[x]
<1>1. /\ at[x] = "completing" /\ m \in Requests /\ work' = work /\ tries' = tries
      /\ UNCHANGED <<pc, event, stream, log, taken, crashes>>
  BY DEF Complete, Goto, changeVars, streamVars, PipelineInv, BusInv, AtWork, Busy
<1>2. CASE UNCHANGED <<state, holder>> /\ at' = [at EXCEPT ![x] = "abandoning"]
  <2>1. NotificationsTypeOK'
    BY <1>1, <1>2 DEF PipelineInv, NotificationsTypeOK
  <2>2. OnBus' /\ WasTold'
    BY <1>1, <1>2 DEF PipelineInv, BusInv, OnBus, WasTold, Has
  <2>3. AtWork'
    BY <1>1, <1>2 DEF PipelineInv, NotificationsTypeOK, BusInv, AtWork, Busy, Has
  <2>4. QED
    BY <2>1, <2>2, <2>3 DEF BusInv
<1>3. ASSUME holder[m] = x,
             state' = [state EXCEPT ![m] = "completed"],
             holder' = [holder EXCEPT ![m] = None],
             NEW next \in {"broadcasting", "abandoning"},
             at' = [at EXCEPT ![x] = next]
      PROVE  NotificationsTypeOK' /\ BusInv'
  <2>1. state[m] = "locked"
    BY <1>1, <1>3, NotificationsAssumption DEF PipelineInv, BusInv, OnBus
  <2>2. NotificationsTypeOK'
    BY <1>1, <1>3 DEF PipelineInv, NotificationsTypeOK
  <2>3. /\ \A o \in Requests : state[o] = "completed" => state'[o] = "completed"
        /\ state'[m] = "completed"
    BY <1>1, <1>3 DEF PipelineInv, NotificationsTypeOK
  <2>4. OnBus'
    BY <1>1, <1>3, <2>1 DEF PipelineInv, NotificationsTypeOK, BusInv, OnBus
  <2>5. WasTold'
    BY <1>1, <2>3 DEF PipelineInv, BusInv, WasTold, Has
  <2>6. \A c \in Clients : ~Has(c, m)
    BY <1>1, <2>1 DEF PipelineInv, BusInv, WasTold
  <2>7. \A y \in Receivers : at[y] = "broadcasting" => work[y] # m
    BY <2>1 DEF PipelineInv, BusInv, AtWork
  <2>8. \A y \in Receivers : /\ y # x => at'[y] = at[y]
                             /\ y = x => at'[y] = next
    BY <1>3 DEF PipelineInv, NotificationsTypeOK
  <2>9. AtWork'
    BY <1>1, <2>3, <2>6, <2>7, <2>8 DEF PipelineInv, BusInv, AtWork, Busy, Has
  <2>10. QED
    BY <2>2, <2>4, <2>5, <2>9 DEF BusInv
<1>4. QED
  BY <1>2, <1>3 DEF Complete, Goto

LEMMA AbandonKeeps ==
    ASSUME PipelineInv, NEW x \in Receivers, Abandon(x), UNCHANGED changeVars
    PROVE  NotificationsTypeOK' /\ BusInv'
<1> DEFINE m == work[x]
<1>1. /\ at[x] = "abandoning" /\ m \in Requests
      /\ UNCHANGED <<pc, event, stream, log, taken, crashes>>
      /\ work' = [work EXCEPT ![x] = None]
      /\ \E next \in {"receiving", "ended"} : at' = [at EXCEPT ![x] = next]
  BY DEF Abandon, Drop, changeVars, streamVars, PipelineInv, BusInv, AtWork, Busy
<1>2. /\ OnBus'
      /\ state' \in [Requests -> {"unsent", "queued", "locked", "completed", "dead"}]
      /\ holder' \in [Requests -> Receivers \cup {None}]
      /\ tries' \in [Requests -> 0..MaxDeliveries]
      /\ \A o \in Requests : state[o] = "completed" => state'[o] = "completed"
  <2>1. CASE holder[m] = x /\ Unlock(m)
    <3>1. state[m] = "locked"
      BY <1>1, <2>1, NotificationsAssumption DEF PipelineInv, BusInv, OnBus
    <3>2. QED
      BY <1>1, <2>1, <3>1, UnlockKeeps
  <2>2. CASE UNCHANGED busVars
    BY <1>1, <2>2 DEF busVars, PipelineInv, NotificationsTypeOK, BusInv, OnBus
  <2>3. QED
    BY <2>1, <2>2 DEF Abandon
<1>3. NotificationsTypeOK'
  BY <1>1, <1>2 DEF PipelineInv, NotificationsTypeOK
<1>4. \A y \in Receivers : /\ y # x => at'[y] = at[y] /\ work'[y] = work[y]
                           /\ y = x => at'[y] \in {"receiving", "ended"}
  BY <1>1 DEF PipelineInv, NotificationsTypeOK
<1>5. AtWork' /\ WasTold'
  BY <1>1, <1>2, <1>4 DEF PipelineInv, BusInv, AtWork, WasTold, Busy, Has
<1>6. QED
  BY <1>2, <1>3, <1>5 DEF BusInv

(* Steps of a pod that do not concern Service Bus: a receiver goes on to   *)
(* somewhere it need not be alone, receivers start or end.                 *)
LEMMA PodKeeps ==
    ASSUME PipelineInv, UNCHANGED <<pc, event, state, holder, tries, log>>,
           NotificationsTypeOK',
           \A y \in Receivers :
               \/ at'[y] \in {"receiving", "ended"}
               \/ at'[y] = at[y] /\ work'[y] = work[y]
               \/ at[y] = "handling" /\ at'[y] # "broadcasting" /\ work'[y] = work[y]
    PROVE  BusInv'
<1>1. OnBus' /\ WasTold'
  BY DEF PipelineInv, BusInv, OnBus, WasTold, Has
<1>2. AtWork'
  BY DEF PipelineInv, BusInv, AtWork, Busy, Has
<1>3. QED
  BY <1>1, <1>2 DEF BusInv

LEMMA PodStepKeeps ==
    ASSUME PipelineInv, UNCHANGED changeVars,
           \/ \E x \in Receivers : Handle(x) \/ Idle(x)
           \/ \E p \in Pods : Restart(p) \/ Crash(p)
    PROVE  NotificationsTypeOK' /\ BusInv'
<1>1. ASSUME NEW x \in Receivers, Handle(x) \/ Idle(x)
      PROVE  NotificationsTypeOK' /\ BusInv'
  <2>1. /\ at[x] \in {"handling", "receiving"}
        /\ \E next \in {"completing", "abandoning", "ended"} :
              /\ at' = [at EXCEPT ![x] = next]
              /\ at[x] = "receiving" => next = "ended"
        /\ UNCHANGED <<pc, event, state, holder, tries, work, stream, log, taken, crashes>>
    BY <1>1 DEF Handle, Idle, Goto, AfterHandler, busVars, streamVars, changeVars
  <2>2. NotificationsTypeOK'
    BY <2>1 DEF PipelineInv, NotificationsTypeOK
  <2>3. QED
    BY <2>1, <2>2, PodKeeps DEF PipelineInv, NotificationsTypeOK
<1>2. ASSUME NEW p \in Pods, Restart(p)
      PROVE  NotificationsTypeOK' /\ BusInv'
  <2>1. /\ at' = [x \in Receivers |-> IF x[1] = p THEN "receiving" ELSE at[x]]
        /\ UNCHANGED <<pc, event, state, holder, tries, work, stream, log, taken, crashes>>
    BY <1>2 DEF Restart, busVars, streamVars, changeVars
  <2>2. NotificationsTypeOK'
    BY <2>1 DEF PipelineInv, NotificationsTypeOK
  <2>3. QED
    BY <2>1, <2>2, PodKeeps
<1>3. ASSUME NEW p \in Pods, Crash(p)
      PROVE  NotificationsTypeOK' /\ BusInv'
  <2>1. /\ at' = [x \in Receivers |-> IF x[1] = p THEN "receiving" ELSE at[x]]
        /\ work' = [x \in Receivers |-> IF x[1] = p THEN None ELSE work[x]]
        /\ stream' = [c \in Clients |-> IF PodOf[c] = p /\ Registered(c) THEN "gone"
                                                                   ELSE stream[c]]
        /\ crashes < MaxCrashes /\ crashes' = crashes + 1
        /\ UNCHANGED <<pc, event, state, holder, tries, log, taken>>
    BY <1>3 DEF Crash, busVars, changeVars
  <2>2. NotificationsTypeOK'
    BY <2>1, NotificationsAssumption DEF PipelineInv, NotificationsTypeOK
  <2>3. QED
    BY <2>1, <2>2, PodKeeps
<1>4. QED
  BY <1>1, <1>2, <1>3

LEMMA ClientStepKeeps ==
    ASSUME PipelineInv, UNCHANGED changeVars, NEW c \in Clients, ClientStep(c)
    PROVE  NotificationsTypeOK' /\ BusInv'
<1>1. UNCHANGED <<pc, event, state, holder, tries, at, work, log, crashes>>
  BY DEF ClientStep, Subscribe, Take, Disconnect, Cleanup, busVars, podVars, changeVars
<1>2. /\ stream' \in [Clients -> {"new", "open", "leaving", "gone"}]
      /\ taken' \in [Clients -> Nat]
      /\ \A o \in Clients : taken'[o] <= Len(log[o]) /\ Len(log[o]) <= taken'[o] + QueueSize
  <2>1. CASE Take(c)
    <3>1. /\ taken' = [taken EXCEPT ![c] = taken[c] + 1] /\ stream' = stream
          /\ Len(log[c]) - taken[c] > 0
      BY <2>1 DEF Take, QueueLen
    <3>2. \A o \in Clients : Len(log[o]) \in Nat /\ taken[o] \in Nat
      BY DEF PipelineInv, NotificationsTypeOK
    <3>3. \A o \in Clients : taken'[o] = IF o = c THEN taken[o] + 1 ELSE taken[o]
      BY <3>1 DEF PipelineInv, NotificationsTypeOK
    <3>4. QED
      BY <3>1, <3>2, <3>3, NotificationsAssumption DEF PipelineInv, NotificationsTypeOK
  <2>2. CASE ~Take(c)
    BY <2>2 DEF ClientStep, Subscribe, Disconnect, Cleanup, PipelineInv, NotificationsTypeOK
  <2>3. QED
    BY <2>1, <2>2
<1>3. NotificationsTypeOK'
  BY <1>1, <1>2 DEF PipelineInv, NotificationsTypeOK
<1>4. QED
  BY <1>1, <1>3, PodKeeps

(* Who is told, and of what.                                               *)
LEMMA BroadcastEffect ==
    ASSUME PipelineInv, NEW x \in Receivers, Broadcast(x, event[work[x]])
    PROVE  /\ work[x] \in Committed /\ event[work[x]] \in Event
           /\ \E S \in SUBSET {c \in Clients :
                    UserOf[c] \in {Creator, event[work[x]].assignee}} :
                /\ \A c \in S : QueueLen(c) < QueueSize
                /\ log' = [c \in Clients |-> IF c \in S THEN Append(log[c], work[x])
                                                          ELSE log[c]]
<1> DEFINE m == work[x]
           a == event[m].assignee
<1>1. /\ at[x] = "broadcasting" /\ m \in Requests /\ state[m] = "completed"
      /\ log' = [c \in Clients |->
                   log[c] \o [i \in 1..Copies(x[1], Targets(a), c) |-> m]]
  BY DEF Broadcast, PipelineInv, BusInv, AtWork, Busy
<1>2. m \in Committed /\ event[m] \in Event
  BY <1>1 DEF PipelineInv, BusInv, OnBus, Committed, ChangesInv, ChangesTypeOK
<1>3. a \in Users \cup {None} /\ x[1] \in Pods
  BY <1>2, NotificationsAssumption DEF Event
<1> DEFINE n(c) == Copies(x[1], Targets(a), c)
           S == {c \in Clients : n(c) = 1}
<1>4. \A c \in Clients : /\ n(c) \in {0, 1}
                         /\ n(c) = 1 => UserOf[c] \in {Creator, a} /\ QueueLen(c) < QueueSize
  BY <1>3, OneCopy DEF PipelineInv
<1>5. \A c \in Clients : log[c] \in Seq(Requests)
  BY DEF PipelineInv, NotificationsTypeOK
<1> HIDE DEF n, m, a
<1>6. log' = [c \in Clients |-> log[c] \o [i \in 1..n(c) |-> m]]
  BY <1>1 DEF n
<1>7. \A c \in Clients : log[c] \o [i \in 1..n(c) |-> m]
                           = IF c \in S THEN Append(log[c], m) ELSE log[c]
  BY <1>1, <1>4, <1>5, Copying
<1>8. log' = [c \in Clients |-> IF c \in S THEN Append(log[c], m) ELSE log[c]]
  BY <1>6, <1>7
<1>9. S \in SUBSET {c \in Clients : UserOf[c] \in {Creator, a}}
  BY <1>4
<1>10. \A c \in S : QueueLen(c) < QueueSize
  BY <1>4
<1> HIDE DEF S
<1>11. QED
  BY <1>2, <1>8, <1>9, <1>10 DEF m, a

LEMMA BroadcastKeeps ==
    ASSUME PipelineInv, NEW x \in Receivers, Broadcast(x, event[work[x]]),
           UNCHANGED changeVars
    PROVE  NotificationsTypeOK' /\ BusInv'
<1> DEFINE m == work[x]
<1>1. /\ at[x] = "broadcasting" /\ m \in Requests /\ state[m] = "completed"
      /\ at' = [at EXCEPT ![x] = "receiving"]
      /\ work' = [work EXCEPT ![x] = None]
      /\ UNCHANGED <<pc, event, state, holder, tries, stream, taken, crashes>>
  BY DEF Broadcast, Drop, busVars, changeVars, PipelineInv, BusInv, AtWork, Busy
<1>2. PICK S \in SUBSET Clients :
         /\ \A c \in S : QueueLen(c) < QueueSize
         /\ log' = [c \in Clients |-> IF c \in S THEN Append(log[c], m) ELSE log[c]]
  BY BroadcastEffect
<1>3. \A c \in Clients : log'[c] = IF c \in S THEN Append(log[c], m) ELSE log[c]
  BY <1>2
<1>4. \A c \in Clients : log[c] \in Seq(Requests) /\ taken[c] \in Nat
                         /\ taken[c] <= Len(log[c]) /\ Len(log[c]) <= taken[c] + QueueSize
  BY DEF PipelineInv, NotificationsTypeOK
<1>5. ASSUME NEW c \in Clients
      PROVE  /\ log'[c] \in Seq(Requests)
             /\ taken[c] <= Len(log'[c]) /\ Len(log'[c]) <= taken[c] + QueueSize
             /\ \A o \in Requests : Has(c, o)' => Has(c, o) \/ o = m
  <2>1. CASE c \in S
    <3>1. log'[c] = Append(log[c], m) /\ Len(log[c]) - taken[c] < QueueSize
      BY <1>2, <1>3, <2>1 DEF QueueLen
    <3>2. /\ Append(log[c], m) \in Seq(Requests)
          /\ Len(Append(log[c], m)) = Len(log[c]) + 1 /\ Len(log[c]) \in Nat
          /\ \A i \in DOMAIN Append(log[c], m) :
                Append(log[c], m)[i] = IF i \in DOMAIN log[c] THEN log[c][i] ELSE m
      BY <1>1, <1>4
    <3>3. QED
      BY <1>4, <3>1, <3>2, NotificationsAssumption DEF Has
  <2>2. CASE c \notin S
    BY <1>3, <1>4, <2>2 DEF Has
  <2>3. QED
    BY <2>1, <2>2
<1>6. NotificationsTypeOK'
  BY <1>1, <1>2, <1>5 DEF PipelineInv, NotificationsTypeOK
<1>7. OnBus' /\ WasTold'
  BY <1>1, <1>5 DEF PipelineInv, BusInv, OnBus, WasTold
<1>8. \A y \in Receivers : /\ y # x => at'[y] = at[y] /\ work'[y] = work[y]
                           /\ y = x => at'[y] = "receiving"
  BY <1>1 DEF PipelineInv, NotificationsTypeOK
<1>9. \A y \in Receivers : at[y] = "broadcasting" /\ y # x => work[y] # m
  BY <1>1 DEF PipelineInv, BusInv, AtWork
<1>10. AtWork'
  BY <1>1, <1>5, <1>8, <1>9 DEF PipelineInv, BusInv, AtWork, Busy
<1>11. QED
  BY <1>6, <1>7, <1>10 DEF BusInv

LEMMA PipelineInvStep == PipelineInv /\ [Next]_vars => PipelineInv'
<1> SUFFICES ASSUME PipelineInv, [Next]_vars
             PROVE  NotificationsTypeOK' /\ BusInv'
  BY ChangesInvStep DEF PipelineInv
<1>1. CASE UNCHANGED vars
  <2>1. UNCHANGED <<pc, event, state, holder, tries, at, work, stream, log, taken, crashes>>
    BY <1>1 DEF vars, changeVars, notificationVars, busVars, podVars, streamVars
  <2>2. NotificationsTypeOK'
    BY <2>1 DEF PipelineInv, NotificationsTypeOK
  <2>3. QED
    BY <2>1, <2>2, PodKeeps
<1>2. CASE NotificationsStep /\ UNCHANGED changeVars
  BY <1>2, LockExpiresKeeps, ReceiveKeeps, CompleteKeeps, AbandonKeeps, PodStepKeeps,
     ClientStepKeeps DEF NotificationsStep, ReceiverStep
<1>3. QED
  BY <1>1, <1>2, RequestKeepsBus, PublishKeepsBus, BroadcastKeeps DEF Next

LEMMA PipelineInvHolds == Spec => []PipelineInv
<1>1. Init => PipelineInv
  BY ChangesStart, BusStarts DEF PipelineInv
<1>2. QED
  BY <1>1, PipelineInvStep, PTL DEF Spec

(* Counters, queues and deliveries stay within their bounds, for every     *)
(* number of pods and clients.                                             *)
THEOREM TypeCorrect == FairSpec => []TypeOK
<1>1. PipelineInv => TypeOK
  BY DEF PipelineInv, ChangesInv, TypeOK
<1>2. QED
  BY <1>1, PipelineInvHolds, PTL DEF FairSpec

-----------------------------------------------------------------------------
(* The streams.                                                            *)

Concerned == [m \in Requests |->
                {c \in Clients : event[m] # None /\ UserOf[c] \in {Creator, event[m].assignee}}]

(* No step of the task-service takes a commit back or changes its event.   *)
LEMMA CommitsStay ==
    ASSUME PipelineInv, \/ UNCHANGED changeVars
                        \/ \E r \in Requests : RequestStep(r) \/ Published(r)
    PROVE  /\ Committed' \subseteq Requests /\ Committed \subseteq Committed'
           /\ \A m \in Committed : event'[m] = event[m]
<1>1. ASSUME NEW m \in Committed
      PROVE  m \in Committed' /\ event'[m] = event[m]
  <2>1. CASE UNCHANGED changeVars
    BY <2>1 DEF changeVars, Committed
  <2>2. ASSUME NEW r \in Requests, RequestStep(r)
        PROVE  m \in Committed' /\ event'[m] = event[m]
    BY <2>2 DEF Committed, RequestStep, Load, Flush, CommitUpdate, CommitDelete, Fail,
                Leave, PipelineInv, ChangesInv, ChangesTypeOK
  <2>3. ASSUME NEW r \in Requests, Published(r)
        PROVE  m \in Committed' /\ event'[m] = event[m]
    BY <2>3 DEF Committed, Published, Leave, PipelineInv, ChangesInv, ChangesTypeOK
  <2>4. QED
    BY <2>1, <2>2, <2>3
<1>2. QED
  BY <1>1 DEF Committed

LEMMA DeliveryStarts == Init => Delivery!Init
  BY DEF Init, NotificationsInit, ChangesInit, Delivery!Init, Committed

LEMMA DeliveryStep ==
    PipelineInv /\ [Next]_vars => [Delivery!Next]_Delivery!vars
<1> SUFFICES ASSUME PipelineInv, [Next]_vars
             PROVE  [Delivery!Next]_Delivery!vars
  OBVIOUS
<1>1. ASSUME log' = log, ChangesStep
      PROVE  Delivery!Commit
  <2>1. /\ Committed' \subseteq Requests /\ Committed \subseteq Committed'
        /\ \A m \in Committed : event'[m] = event[m] /\ m \in Requests
    BY <1>1, CommitsStay DEF ChangesStep, Committed
  <2>2. \A m \in Committed : Concerned'[m] = Concerned[m]
    BY <2>1 DEF Concerned
  <2>3. QED
    BY <1>1, <2>1, <2>2 DEF Delivery!Commit, Concerned
<1>2. ASSUME NEW x \in Receivers, Broadcast(x, event[work[x]]), UNCHANGED changeVars
      PROVE  Delivery!Announce(work[x]) /\ work[x] \in Requests
  <2> DEFINE m == work[x]
  <2>1. /\ m \in Committed /\ m \in Requests /\ event[m] # None
        /\ \A c \in Clients : ~Has(c, m)
    BY <1>2, BroadcastEffect
       DEF Committed, Broadcast, PipelineInv, BusInv, AtWork
  <2>2. PICK S \in SUBSET {c \in Clients : UserOf[c] \in {Creator, event[m].assignee}} :
           log' = [c \in Clients |-> IF c \in S THEN Append(log[c], m) ELSE log[c]]
    BY <1>2, BroadcastEffect
  <2>3. S \in SUBSET {c \in Concerned[m] : ~Has(c, m)}
    BY <2>1, <2>2 DEF Concerned
  <2>4. UNCHANGED <<Committed, Concerned>>
    BY <1>2 DEF changeVars, Committed, Concerned
  <2>5. QED
    BY <2>1, <2>2, <2>3, <2>4 DEF Delivery!Announce, Delivery!Heard, Concerned, Has
<1>3. CASE \E x \in Receivers : Broadcast(x, event[work[x]]) /\ UNCHANGED changeVars
  BY <1>2, <1>3 DEF Delivery!Next
<1>4. CASE ~\E x \in Receivers : Broadcast(x, event[work[x]]) /\ UNCHANGED changeVars
  <2>1. log' = log
    BY <1>4 DEF Next, vars, notificationVars, streamVars, Publish, NotificationsStep,
                LockExpires, ReceiverStep, Receive, Handle, Complete, Abandon, Idle,
                Restart, Crash, ClientStep, Subscribe, Take, Disconnect, Cleanup
  <2>2. QED
    BY <1>1, <2>1, StepsOfChanges DEF Delivery!Next
<1>5. QED
  BY <1>3, <1>4

(* Streams are only told of committed changes that concern their user, and *)
(* of each at most once, whatever crashes, expires or overflows.           *)
THEOREM DeliveryRefines == FairSpec => DeliveryIsBestEffort
  BY DeliveryStarts, DeliveryStep, PipelineInvHolds, PTL
     DEF FairSpec, Spec, DeliveryIsBestEffort, Delivery!Spec
=============================================================================
