----------------------------- MODULE TaskChanges -----------------------------
(***************************************************************************)
(* Changes of one task by its creator: update_task and delete_task of the  *)
(* task-service (app/routes/tasks.py), from the SELECT that loads the row  *)
(* to the event that a background task publishes after the commit.         *)
(*                                                                         *)
(* PostgreSQL runs at READ COMMITTED: an UPDATE or DELETE waits for the    *)
(* row's lock and then works on the latest committed row.  The ORM updates *)
(* only the columns whose value differs from the one it loaded, and        *)
(* expire_on_commit is off.                                                *)
(***************************************************************************)
EXTENDS TaskEvents

CONSTANTS Asks,     \* what a PATCH may ask for; it can clear the assignee
          Unset,    \* a field that it leaves alone
          Todo,     \* the status of every new task
          Assigned  \* whom create_task may have assigned it to, or None

ASSUME ChangesAssumption ==
    /\ Todo \in Statuses
    /\ Assigned \subseteq Users \cup {None}
    /\ Unset \notin Statuses \cup Users \cup {None}
    /\ Asks \subseteq [status : Statuses \cup {Unset}, assignee : Users \cup {None, Unset}]

VARIABLES row,    \* the committed row, None once deleted
          pc,     \* where each request is
          ask,    \* what a PATCH asks for
          loaded, \* the row as it loaded it
          event   \* the event that it will publish or has published, or None

changeVars == <<row, pc, ask, loaded, event>>

Row == [status : Statuses, assignee : Users \cup {None}]

ChangesTypeOK ==
    /\ row \in Row \cup {None}
    /\ pc \in [Requests -> {"new", "patching", "deleting", "flushed", "publishing", "done"}]
    /\ ask \in [Requests -> Asks \cup {None}]
    /\ loaded \in [Requests -> Row \cup {None}]
    /\ event \in [Requests -> Event \cup {None}]

ChangesInit ==
    /\ row \in [status : {Todo}, assignee : Assigned]
    /\ pc = [r \in Requests |-> "new"]
    /\ ask = [r \in Requests |-> None]
    /\ loaded = [r \in Requests |-> None]
    /\ event = [r \in Requests |-> None]

-----------------------------------------------------------------------------
(* Mutant of Sets: a statement that writes whatever the payload has.       *)
MutSetsPayload(r, field) == ask[r][field] # Unset

(* The columns that the UPDATE of request r writes over row t.             *)
Sets(r, field) == ask[r][field] \notin {Unset, loaded[r][field]}
Patch(r, t) == [f \in {"status", "assignee"} |->
                   IF Sets(r, f) THEN ask[r][f] ELSE t[f]]
Writes(r) == Sets(r, "status") \/ Sets(r, "assignee")

(* A flushed UPDATE holds the row's lock until the transaction ends.       *)
Locked == \E o \in Requests : pc[o] = "flushed" /\ Writes(o)

(* Over, as far as the request is concerned.                               *)
Leave(r, where) ==
    /\ pc' = [pc EXCEPT ![r] = where]
    /\ ask' = [ask EXCEPT ![r] = None]
    /\ loaded' = [loaded EXCEPT ![r] = None]

-----------------------------------------------------------------------------
(* _get_authorized_task; the caller is the creator.                        *)
Load(r) ==
    /\ pc[r] = "new"
    /\ IF row = None
       THEN Leave(r, "done")
       ELSE /\ loaded' = [loaded EXCEPT ![r] = row]
            /\ \/ /\ pc' = [pc EXCEPT ![r] = "patching"]
                  /\ \E a \in Asks : ask' = [ask EXCEPT ![r] = a]
               \/ /\ pc' = [pc EXCEPT ![r] = "deleting"]
                  /\ UNCHANGED ask
    /\ UNCHANGED <<row, event>>

(* update_task: setattr, flush, refresh, and the event that the background *)
(* task is going to publish.  A vanished row fails the UPDATE, or the      *)
(* refresh when there is nothing to update.                                *)
Flush(r) ==
    /\ pc[r] = "patching"
    /\ Writes(r) => ~Locked
    /\ IF row = None
       THEN Leave(r, "done") /\ UNCHANGED event
       ELSE /\ UNCHANGED <<ask, loaded>>
            /\ pc' = [pc EXCEPT ![r] = "flushed"]
            /\ LET seen == Patch(r, row) IN
               event' = IF ask[r].status # Unset /\ seen.status # loaded[r].status
                        THEN [event EXCEPT ![r] =
                                [type |-> "task.status_changed", status |-> seen.status,
                                 assignee |-> seen.assignee]]
                        ELSE event
    /\ UNCHANGED row

(* get_db commits and the response is sent.  Nobody else writes a row      *)
(* between its UPDATE and its commit, so row is still the updated row.     *)
CommitUpdate(r) ==
    /\ pc[r] = "flushed"
    /\ row' = IF Writes(r) THEN Patch(r, row) ELSE row
    /\ Leave(r, IF event[r] = None THEN "done" ELSE "publishing")
    /\ UNCHANGED event

(* delete_task: the DELETE is flushed by the commit.  Deleting a row that  *)
(* has gone in the meantime succeeds too.                                  *)
CommitDelete(r) ==
    /\ pc[r] = "deleting"
    /\ ~Locked
    /\ row' = None
    /\ Leave(r, "publishing")
    /\ event' = [event EXCEPT ![r] = [type |-> "task.deleted", status |-> None,
                                      assignee |-> loaded[r].assignee]]

(* The database fails before or at the commit: rollback, no background     *)
(* task.                                                                   *)
Fail(r) ==
    /\ pc[r] \in {"patching", "deleting", "flushed"}
    /\ Leave(r, "done")
    /\ event' = [event EXCEPT ![r] = None]
    /\ UNCHANGED row

Committed == {r \in Requests : pc[r] \in {"publishing", "done"} /\ event[r] # None}

RequestStep(r) == Load(r) \/ Flush(r) \/ CommitUpdate(r) \/ CommitDelete(r) \/ Fail(r)

-----------------------------------------------------------------------------
(* Every committed change of the status is announced by the request that   *)
(* made it, although the decision compares with a row loaded earlier.      *)
EveryChangeIsAnnounced ==
    [][\A r \in Requests :
         pc[r] = "flushed" /\ pc'[r] # "flushed" /\ row # None /\ row' # row
         /\ row'.status # row.status
            => event'[r] # None /\ event'[r].status = row'.status]_changeVars
=============================================================================
