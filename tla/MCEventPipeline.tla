--------------------------- MODULE MCEventPipeline ---------------------------
EXTENDS EventPipeline
CONSTANTS p1, p2, c1, c2, u1, u2, done
ThePods == {p1, p2}
TheReceivers == {<<p1, "task-events">>, <<p1, "user-events">>, <<p2, "task-events">>}
TheClients == {c1}
TheUserOf == [c \in TheClients |-> IF c = c1 THEN u1 ELSE u2]
ThePodOf == [c \in TheClients |-> p1]
TheAsks == {[status |-> done, assignee |-> Unset], [status |-> Todo, assignee |-> u2]}
=============================================================================
