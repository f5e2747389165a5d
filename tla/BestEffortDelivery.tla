-------------------------- MODULE BestEffortDelivery --------------------------
(***************************************************************************)
(* What a client of the notification stream may rely on: it is only told   *)
(* of changes that were committed, each of them at most once, and only if  *)
(* the change concerns its user.  It may miss any of them, and it may      *)
(* learn of them in any order ("SSE is best-effort",                       *)
(* consumer.py:131-133).                                                   *)
(***************************************************************************)
EXTENDS Sequences

CONSTANTS Changes, Clients

VARIABLES committed,  \* the changes that were committed
          concerns,   \* change -> the clients whose user it concerns
          told        \* client -> the changes it was told of, in order

vars == <<committed, concerns, told>>

Init ==
    /\ committed \subseteq Changes
    /\ told = [c \in Clients |-> << >>]

Commit ==
    /\ committed' \subseteq Changes
    /\ committed \subseteq committed'
    /\ \A x \in committed : concerns'[x] = concerns[x]
    /\ UNCHANGED told

Heard(c, x) == \E i \in DOMAIN told[c] : told[c][i] = x

Announce(x) ==
    /\ x \in committed
    /\ \E S \in SUBSET {c \in concerns[x] : ~Heard(c, x)} :
         told' = [c \in Clients |-> IF c \in S THEN Append(told[c], x) ELSE told[c]]
    /\ UNCHANGED <<committed, concerns>>

Next == Commit \/ \E x \in Changes : Announce(x)

Spec == Init /\ [][Next]_vars
=============================================================================
