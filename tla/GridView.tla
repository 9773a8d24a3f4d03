------------------------------ MODULE GridView ------------------------------
(***************************************************************************)
(* The data grid of the console's Tables page, in one browser tab          *)
(* (src/public/console/views/tables.js, renderGrid) under the router of    *)
(* src/public/console/app.js (renderSection).  The user moves between the  *)
(* Data and the Schema tab of one table; every visit renders a grid of its *)
(* own, and all of them share the page, the filters and the selection of   *)
(* the table (gridState).  Nothing orders answers: a load may return after *)
(* a later one, or when its grid is no longer on the page.  A filter is    *)
(* the set of rows it lets through, and stands for search, sort and page   *)
(* size too, which the code treats alike.                                  *)
(***************************************************************************)
EXTENDS Integers, Sequences, FiniteSets

CONSTANTS GridRows,     \* row ids, in the order the table is read
          GridFilters,  \* sets of rows
          GridSize,     \* pageSize
          MaxVisits,    \* bound: visits of the two tabs
          MaxLoads      \* bound: loads after the first

ASSUME GridAssumption ==
  /\ GridRows \subseteq Nat /\ IsFiniteSet(GridRows) /\ GridSize \in Nat \ {0}
  /\ GridRows \in GridFilters /\ \A f \in GridFilters : f \subseteq GridRows
  /\ MaxLoads \in Nat

VARIABLES
  lakeRows,    \* the table
  page, filter, selected,   \* gridState of the table
  visits,      \* renderSection calls: [tab, stage]
  shown,       \* the visit whose grid is on the page, or 0
  loads,       \* loads under way: [nr, of, stage, page, filter, rows, pages]
  loadsSent,   \* loads so far
  current,     \* the response the grid on the page is drawn from
  ticked,      \* the rows whose checkbox is ticked in it
  canDelete,   \* its "Delete selected" is enabled
  asking,      \* what the dialog asks to delete: a visit and row ids, or none
  deletions    \* POST /rows/delete under way: [of, ids]

gridState == <<page, filter, selected>>
requests == <<loads, loadsSent, deletions>>
grid == <<shown, current, ticked, canDelete>>
gridvars == <<lakeRows, gridState, visits, requests, grid, asking>>

NoDialog == [of |-> 0, ids |-> {}]
Drawn(rows, pages, failed) == [rows |-> rows, pages |-> pages, failed |-> failed]
Undrawn == Drawn({}, 0, FALSE)
Visits == DOMAIN visits
Grids == {v \in Visits : visits[v].tab = "data" /\ visits[v].stage \in {"loading", "done"}}

\* The tab location.hash names is the one visited last.
Tab == visits[Len(visits)].tab

GridTypeOK ==
  /\ lakeRows \subseteq GridRows /\ selected \subseteq GridRows
  /\ page \in 1..Cardinality(GridRows) /\ filter \in GridFilters
  /\ \A v \in Visits : visits[v].tab \in {"data", "schema"}
                       /\ visits[v].stage \in {"fetching", "loading", "done", "failed"}
  /\ shown \in {0} \cup Grids /\ canDelete \in BOOLEAN
  /\ current.rows \subseteq GridRows /\ ticked \subseteq current.rows
  /\ loadsSent \in 0..MaxLoads
  /\ \A l \in loads : l.of \in Grids /\ l.stage \in {"sent", "counted", "read"}
  /\ asking.ids \subseteq GridRows
  /\ \A d \in deletions : d.of \in Grids /\ d.ids \subseteq GridRows

-----------------------------------------------------------------------------
(* The gateway: rows are counted, and then read                            *)

Passing(f) == lakeRows \cap f
PageCount(n) == IF n = 0 THEN 1 ELSE (n + GridSize - 1) \div GridSize
Smaller(a, b) == IF a < b THEN a ELSE b

MovesOn(l, to) == loads' = (loads \ {l}) \cup {to}

ServerCounts(l) ==
  /\ l.stage = "sent"
  /\ LET n == PageCount(Cardinality(Passing(l.filter)))
     IN MovesOn(l, [l EXCEPT !.stage = "counted", !.pages = n, !.page = Smaller(@, n)])
  /\ UNCHANGED <<lakeRows, gridState, visits, loadsSent, deletions, grid, asking>>

PageOf(rows, p) ==
  {r \in rows : LET before == Cardinality({s \in rows : s < r})
                IN (p - 1) * GridSize <= before /\ before < p * GridSize}

ServerReads(l) ==
  /\ l.stage = "counted"
  /\ MovesOn(l, [l EXCEPT !.stage = "read", !.rows = PageOf(Passing(l.filter), l.page)])
  /\ UNCHANGED <<lakeRows, gridState, visits, loadsSent, deletions, grid, asking>>

ServerDeletes(d) ==
  /\ d.ids \cap lakeRows # {} /\ lakeRows' = lakeRows \ d.ids
  /\ UNCHANGED <<gridState, visits, requests, grid, asking>>

-----------------------------------------------------------------------------
(* Loads                                                                   *)

\* load() asks for what gridState says when it is called.
Load(v, p, f, under) ==
  /\ loadsSent < MaxLoads /\ loadsSent' = loadsSent + 1
  /\ loads' = under \cup {[nr |-> loadsSent, of |-> v, stage |-> "sent", page |-> p, filter |-> f,
                           rows |-> {}, pages |-> 1]}

\* A grid's first load is awaited by renderSection, which then puts the grid on
\* the page, unless location.hash is another tab's by then.
Arriving(v) == visits[v].stage = "loading" /\ Tab = "data"

StillSelected(rows) == selected

\* "Drop selections that are no longer visible."
Visible(rows) == selected \cap rows

\* What the grid of v shows of an answer, if it is on the page or comes to it.
Draw(v, answer, marked) ==
  /\ visits' = [visits EXCEPT ![v].stage = "done"]
  /\ IF v = shown \/ Arriving(v)
     THEN /\ shown' = v /\ current' = answer
          /\ ticked' = marked \cap answer.rows /\ canDelete' = (marked # {})
     ELSE UNCHANGED grid

LoadReturns(l) ==
  /\ l.stage = "read" /\ loads' = loads \ {l}
  /\ page' = l.page /\ selected' = Visible(l.rows)
  /\ Draw(l.of, Drawn(l.rows, l.pages, FALSE), selected')
  /\ UNCHANGED <<lakeRows, filter, loadsSent, deletions, asking>>

\* The error replaces the rows; the pager and the selection stay.
LoadFails(l) ==
  /\ loads' = loads \ {l}
  /\ Draw(l.of, Drawn({}, current.pages, TRUE), selected)
  /\ UNCHANGED <<lakeRows, gridState, loadsSent, deletions, asking>>

-----------------------------------------------------------------------------
(* The router                                                              *)

LeavePage == shown' = 0 /\ current' = Undrawn /\ ticked' = {} /\ canDelete' = FALSE

\* hashchange: the page says "Loading" and the other tab is rendered, also under
\* an open dialog.
Visit ==
  /\ Len(visits) < MaxVisits /\ LeavePage
  /\ visits' = Append(visits, [tab |-> IF Tab = "data" THEN "schema" ELSE "data",
                               stage |-> "fetching"])
  /\ UNCHANGED <<lakeRows, gridState, requests, asking>>

\* renderTable has the schema: the Schema tab is put on the page, unless the hash
\* moved on, and the grid is loaded.
SchemaReturns(v) ==
  /\ visits[v].stage = "fetching"
  /\ IF visits[v].tab = "data"
     THEN Load(v, page, filter, loads) /\ visits' = [visits EXCEPT ![v].stage = "loading"]
     ELSE UNCHANGED <<loads, loadsSent>> /\ visits' = [visits EXCEPT ![v].stage = "done"]
  /\ UNCHANGED <<lakeRows, gridState, deletions, grid, asking>>

\* An error is put on the page whatever the hash is by then.
SchemaFails(v) ==
  /\ visits[v].stage = "fetching" /\ visits' = [visits EXCEPT ![v].stage = "failed"]
  /\ LeavePage
  /\ UNCHANGED <<lakeRows, gridState, requests, asking>>

-----------------------------------------------------------------------------
(* The user, on the grid that is on the page, while no dialog covers it    *)

GridIsFree == shown # 0 /\ asking = NoDialog

\* A filter is added or removed, a column's sort or the page size is changed.
ChangeFilter(f) ==
  /\ GridIsFree /\ f # filter /\ filter' = f /\ page' = 1 /\ Load(shown, 1, f, loads)
  /\ UNCHANGED <<lakeRows, selected, visits, deletions, grid, asking>>

\* Refresh, or a page of the response the pager is drawn from.
GoTo(p) ==
  /\ GridIsFree /\ p \in {page} \cup 1..current.pages /\ page' = p /\ Load(shown, p, filter, loads)
  /\ UNCHANGED <<lakeRows, filter, selected, visits, deletions, grid, asking>>

\* One checkbox, or the one that selects all rows and redraws the grid.
Mark(rows, on) ==
  /\ GridIsFree /\ rows # {} /\ rows \subseteq current.rows
  /\ selected' = IF on THEN selected \cup rows ELSE selected \ rows
  /\ ticked' = IF rows = current.rows THEN selected' \cap rows
               ELSE IF on THEN ticked \cup rows ELSE ticked \ rows
  /\ canDelete' = (selected' # {})
  /\ UNCHANGED <<lakeRows, page, filter, visits, requests, shown, current, asking>>

TickRow(r) == Mark({r}, r \notin ticked)
TickAll == Mark(current.rows, ~(current.rows \subseteq ticked))

PressDelete ==
  /\ GridIsFree /\ canDelete /\ selected # {} /\ asking' = [of |-> shown, ids |-> selected]
  /\ UNCHANGED <<lakeRows, gridState, visits, requests, grid>>

\* withBusy disables the button of the grid that asked.
AnswerDialog(yes) ==
  /\ asking # NoDialog /\ asking' = NoDialog
  /\ deletions' = deletions \cup IF yes THEN {asking} ELSE {}
  /\ canDelete' = (canDelete /\ ~(yes /\ asking.of = shown))
  /\ UNCHANGED <<lakeRows, gridState, visits, loads, loadsSent, shown, current, ticked>>

Enable(v) == canDelete' = (canDelete \/ v = shown)

DeleteReturns(d) ==
  /\ d.ids \cap lakeRows = {} /\ deletions' = deletions \ {d}
  /\ selected' = {} /\ Load(d.of, page, filter, loads) /\ Enable(d.of)
  /\ UNCHANGED <<lakeRows, page, filter, visits, shown, current, ticked, asking>>

DeleteFails(d) ==
  /\ deletions' = deletions \ {d} /\ Enable(d.of)
  /\ UNCHANGED <<lakeRows, gridState, visits, loads, loadsSent, shown, current, ticked, asking>>

-----------------------------------------------------------------------------

\* The first visit of the Data tab has loaded its grid.
GridInit ==
  /\ lakeRows = GridRows /\ page = 1 /\ filter = GridRows /\ selected = {}
  /\ visits = <<[tab |-> "data", stage |-> "done"]>> /\ shown = 1
  /\ current = Drawn(PageOf(GridRows, 1), PageCount(Cardinality(GridRows)), FALSE)
  /\ loads = {} /\ loadsSent = 0 /\ ticked = {} /\ canDelete = FALSE
  /\ asking = NoDialog /\ deletions = {}

GridNext ==
  \/ \E l \in loads : ServerCounts(l) \/ ServerReads(l) \/ LoadReturns(l) \/ LoadFails(l)
  \/ \E d \in deletions : ServerDeletes(d) \/ DeleteReturns(d) \/ DeleteFails(d)
  \/ \E r \in GridRows : TickRow(r)
  \/ Visit \/ (\E v \in Visits : SchemaReturns(v) \/ SchemaFails(v))
  \/ (\E f \in GridFilters : ChangeFilter(f)) \/ (\E p \in 1..Cardinality(GridRows) : GoTo(p))
  \/ TickAll \/ PressDelete \/ \E yes \in BOOLEAN : AnswerDialog(yes)

GridSpec == GridInit /\ [][GridNext]_gridvars

-----------------------------------------------------------------------------
(* What "Delete selected" would delete is ticked in the rows on the page,  *)
(* whatever order answers of this and earlier visits come in, unless the   *)
(* page shows that its last load failed (tables.js:263).                   *)
SelectionShown ==
  (shown # 0 /\ ~current.failed) => selected \subseteq ticked
=============================================================================
