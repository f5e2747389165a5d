------------------------------ MODULE TaskEvents ------------------------------
(***************************************************************************)
(* The events about one task that the task-service publishes and the       *)
(* notification-service consumes: each names the creator and the assignee  *)
(* that it concerns.                                                       *)
(***************************************************************************)
EXTENDS Naturals, Sequences, FiniteSets

CONSTANTS Requests,  \* the PATCH and DELETE requests that are ever made
          Statuses,
          Users,
          Creator,
          None

(* An event, and the message that carries it, is named by the request that *)
(* publishes it.                                                           *)
Event == [type : {"task.status_changed", "task.deleted"},
          status : Statuses \cup {None}, assignee : Users \cup {None}]

ASSUME EventsAssumption ==
    /\ Creator \in Users
    /\ None \notin Statuses \cup Users
    /\ None \notin Event
=============================================================================
