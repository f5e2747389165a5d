-------------------------- MODULE CursorPagination --------------------------
(***************************************************************************)
(* A client that walks the pages of GET /api/v1/tasks or                   *)
(* GET /api/v1/projects while rows come and go: the keyset filter and the  *)
(* limit + 1 query of list_tasks and list_projects, and make_cursor_page   *)
(* (app/pagination.py).                                                    *)
(*                                                                         *)
(* A row is its sort key <<created_at, id>>.  Each page is one query, so   *)
(* it sees one state of the table.  Between two pages rows appear (they    *)
(* are created, or assigned to the caller, or match the status filter at   *)
(* last) and disappear (deleted, reassigned, soft-deleted projects); a new *)
(* row may sort anywhere, because created_at is the start of its           *)
(* transaction and transactions commit in any order.                       *)
(***************************************************************************)
EXTENDS Naturals, FiniteSets

CONSTANTS Times,  \* values of created_at
          Ids,    \* values of id
          Limit,  \* the client's page size
          NoCursor

ASSUME PaginationAssumption ==
    /\ Times \subseteq Nat
    /\ Ids \subseteq Nat
    /\ Limit \in Nat \ {0}
    /\ NoCursor \notin Times \X Ids

VARIABLES rows,      \* what the caller's filters select at the moment
          phase,     \* "idle", "walking" (a next_cursor is held), "done"
          cursor,    \* the next_cursor of the last page, or NoCursor
          page,      \* the items of the last page
          seen,      \* history: items of all pages of this walk
          steady,    \* history: rows selected ever since the walk began
          boundary   \* history: the rows that cursors of this walk encoded

walkVars == <<rows, phase, cursor, page, seen, steady, boundary>>

Row == Times \X Ids

WalkTypeOK ==
    /\ rows \subseteq Row
    /\ phase \in {"idle", "walking", "done"}
    /\ cursor \in Row \cup {NoCursor}
    /\ cursor # NoCursor <=> phase = "walking"
    /\ page \subseteq seen
    /\ seen \subseteq Row
    /\ steady \subseteq rows
    /\ boundary \subseteq Row

WalkInit ==
    /\ rows \in SUBSET Row
    /\ phase = "idle"
    /\ cursor = NoCursor
    /\ page = {}
    /\ seen = {}
    /\ steady = {}
    /\ boundary = {}

-----------------------------------------------------------------------------
(* Mutants of the definitions below.                                       *)
MutDateAtMost(c) == {k \in rows : k[1] <= c[1]}
MutDateOnly(c) == {k \in rows : k[1] < c[1]}

-----------------------------------------------------------------------------
(* (created_at, id) < (cursor_dt, cursor_id): the order of the pages is    *)
(* descending, so this row comes later in the listing.                     *)
Before(a, b) == a[1] < b[1] \/ (a[1] = b[1] /\ a[2] < b[2])

(* The keyset filter: what the query with cursor c may return.             *)
Beyond(c) == {k \in rows : Before(k, c)}

FullPage(top) == Cardinality(top) = Limit

(* One query for limit + 1 rows of `matching` in descending order, and     *)
(* make_cursor_page on its result: with an item number limit + 1, that     *)
(* item becomes the cursor and the client gets the items before it.        *)
Fetch(matching) ==
    \/ /\ Cardinality(matching) <= Limit
       /\ page' = matching
       /\ cursor' = NoCursor
       /\ phase' = "done"
       /\ UNCHANGED boundary
    \/ \E next \in matching :
        LET top == {k \in matching : Before(next, k)} IN
        /\ FullPage(top)
        /\ page' = top
        /\ cursor' = next
        /\ phase' = "walking"
        /\ boundary' = boundary \cup {next}

FirstPage ==
    /\ phase = "idle"
    /\ Fetch(rows)
    /\ steady' = rows
    /\ seen' = page'
    /\ UNCHANGED rows

NextPage ==
    /\ phase = "walking"
    /\ Fetch(Beyond(cursor))
    /\ seen' = seen \cup page'
    /\ UNCHANGED <<rows, steady>>

Appear(k) ==
    /\ k \notin rows
    /\ rows' = rows \cup {k}
    /\ UNCHANGED <<phase, cursor, page, seen, steady, boundary>>

Disappear(k) ==
    /\ k \in rows
    /\ rows' = rows \ {k}
    /\ steady' = steady \ {k}
    /\ UNCHANGED <<phase, cursor, page, seen, boundary>>

WalkNext ==
    \/ FirstPage
    \/ NextPage
    \/ \E k \in Row : Appear(k) \/ Disappear(k)

WalkSpec == WalkInit /\ [][WalkNext]_walkVars

-----------------------------------------------------------------------------
(* Every page lies wholly after everything the client has seen, whatever   *)
(* was created or deleted meanwhile: no row is ever returned twice, rows   *)
(* with equal created_at included (pagination.py:7-9, tasks.py:322).       *)
PagesDescend ==
    [][seen # {} /\ page' # page
          => \A a \in page', b \in seen : Before(a, b)]_walkVars

(* When a walk is done, a row that was there all along and was not         *)
(* returned is one that a cursor encoded: at most one row is lost at each  *)
(* page boundary, and never a row between two that were returned.          *)
OnlyBoundaryRowsLost == phase = "done" => steady \ seen \subseteq boundary

(* "Cursor pagination is immune to both defects" (tasks.py:323), the       *)
(* second being that a page skips an item: a row that was there all along  *)
(* is returned.                                                            *)
NothingSkipped == phase = "done" => steady \subseteq seen
=============================================================================
