---------------------------- MODULE SavedGraphs ----------------------------
(***************************************************************************)
(* One saved property graph: its rows in _graph_registry, the              *)
(* definition each DuckDB instance of a gateway holds in memory, and the   *)
(* requests of /graphs that touch both (index.js, db.js, graphs.js).       *)
(* Saving is a DELETE and then an INSERT; POST rebuilds the graph of the   *)
(* primary instance; a query runs on the user instance, which builds it    *)
(* from the registry and takes "already exists" for success.               *)
(***************************************************************************)
EXTENDS Naturals, Sequences

CONSTANTS Callers,       \* the requests in flight at once
          Defs,          \* valid definitions of the graph
          BadDef,        \* a body that buildCreatePropertyGraphSql refuses
          NoDef,         \* the graph is not in an instance's memory
          MaxGraphCalls  \* bound: requests made in all

ASSUME GraphAssumption == MaxGraphCalls \in Nat

VARIABLES graphRows,          \* definitions registered under the name, oldest first
          held,          \* instance -> the definition in its memory, or NoDef
          calling,           \* caller -> its request
          graphCalls     \* requests made

graphVars == <<graphRows, held, calling, graphCalls>>

Instances == {"primary", "user"}
Call(op, pc, def, seen, status) ==
    [op |-> op, pc |-> pc, def |-> def, seen |-> seen, status |-> status, ran |-> NoDef]
NoCall == Call("none", "idle", NoDef, {}, 0)

GraphTypeOK ==
    /\ graphRows \in Seq(Defs)
    /\ held \in [Instances -> Defs \cup {NoDef}]
    /\ calling \in [Callers -> [op : {"none", "post", "delete", "query"},
                            pc : {"idle", "clear", "insert", "drop", "create",
                                  "load", "run", "done"},
                            def : Defs \cup {BadDef, NoDef},
                            seen : SUBSET (Defs \cup {NoDef}),
                            status : {0, 200, 400, 404}, ran : Defs \cup {NoDef}]]
    /\ graphCalls \in 0 .. MaxGraphCalls

GraphInit ==
    /\ graphRows = << >>
    /\ held = [i \in Instances |-> NoDef]
    /\ calling = [c \in Callers |-> NoCall]
    /\ graphCalls = 0

-----------------------------------------------------------------------------
(* What a reader of the registry can find, and the answers of requests.    *)

Registered(rs) == IF rs = << >> THEN {NoDef} ELSE {rs[i] : i \in DOMAIN rs}

\* the requests under way remember all the registry has held since they began
Witnessing(rs, others) ==
    [c \in Callers |-> IF others[c].pc \in {"idle", "done"} THEN others[c]
                       ELSE [others[c] EXCEPT !.seen = @ \cup Registered(rs)]]

Moved(x, pc) == [x EXCEPT !.pc = pc]
Replied(x, status) == [x EXCEPT !.pc = "done", !.status = status]
Located(x, def) == [x EXCEPT !.pc = "run", !.def = def]
Ran(x, def) == [Replied(x, 200) EXCEPT !.ran = def]

CallGoes(c, pc) == calling' = [calling EXCEPT ![c] = Moved(@, pc)]
Replies(c, status) == calling' = [calling EXCEPT ![c] = Replied(@, status)]

BeginCall(c, op, pc, def) ==
    /\ calling[c].pc \in {"idle", "done"}
    /\ graphCalls < MaxGraphCalls
    /\ graphCalls' = graphCalls + 1
    /\ calling' = [calling EXCEPT ![c] = Call(op, pc, def, Registered(graphRows), 0)]
    /\ UNCHANGED <<graphRows, held>>

\* POST /graphs builds the statement first: a bad body never reaches the registry
BeginPost(c) == \E d \in Defs : BeginCall(c, "post", "clear", d)
RefuseBody(c) ==
    /\ calling[c].pc \in {"idle", "done"}
    /\ graphCalls < MaxGraphCalls
    /\ graphCalls' = graphCalls + 1
    /\ calling' = [calling EXCEPT ![c] = Call("post", "done", BadDef, {}, 400)]
    /\ UNCHANGED <<graphRows, held>>
BeginDelete(c) == BeginCall(c, "delete", "clear", NoDef)
BeginGraphQuery(c) == BeginCall(c, "query", "load", NoDef)

\* saveGraphDefinition and deleteGraphDefinition: DELETE WHERE name = ?
ClearRows(c) ==
    /\ calling[c].pc = "clear"
    /\ graphRows' = << >>
    /\ calling' = Witnessing(graphRows', [calling EXCEPT ![c] =
                     Moved(@, IF calling[c].op = "post" THEN "insert" ELSE "drop")])
    /\ UNCHANGED <<held, graphCalls>>

InsertRow(c) ==
    /\ calling[c].pc = "insert"
    /\ graphRows' = Append(graphRows, calling[c].def)
    /\ calling' = Witnessing(graphRows', [calling EXCEPT ![c] = Moved(@, "drop")])
    /\ UNCHANGED <<held, graphCalls>>

\* DROP PROPERTY GRAPH on the primary instance; an absent graph is no error
DropHeld(c) ==
    /\ calling[c].pc = "drop"
    /\ held' = [held EXCEPT !["primary"] = NoDef]
    /\ IF calling[c].op = "post" THEN CallGoes(c, "create") ELSE Replies(c, 200)
    /\ UNCHANGED <<graphRows, graphCalls>>

\* CREATE PROPERTY GRAPH: another POST may have created it since the drop (500)
CreateHeld(c) ==
    /\ calling[c].pc = "create"
    /\ held["primary"] = NoDef
    /\ held' = [held EXCEPT !["primary"] = calling[c].def]
    /\ Replies(c, 200)
    /\ UNCHANGED <<graphRows, graphCalls>>

CreateRefused(c) ==
    /\ calling[c].pc = "create"
    /\ held["primary"] # NoDef
    /\ Replies(c, 0)
    /\ UNCHANGED <<graphRows, held, graphCalls>>

-----------------------------------------------------------------------------
(* POST /graphs/:name/query: ensureGraphMaterialized on the user instance. *)

\* Mutant: a graph the instance holds is queried without a look at the registry.
LoadRowUnlessHeld(c) ==
    /\ calling[c].pc = "load"
    /\ \E d \in IF held["user"] = NoDef THEN Registered(graphRows) ELSE {held["user"]} :
         IF d = NoDef THEN Replies(c, 404)
         ELSE calling' = [calling EXCEPT ![c] = Located(@, d)]
    /\ UNCHANGED <<graphRows, held, graphCalls>>

LoadRow(c) ==
    /\ calling[c].pc = "load"
    /\ \E d \in Registered(graphRows) :
         IF d = NoDef THEN Replies(c, 404)
         ELSE calling' = [calling EXCEPT ![c] = Located(@, d)]
    /\ UNCHANGED <<graphRows, held, graphCalls>>

\* CREATE PROPERTY GRAPH, where "already exists" is success, and the pattern query
Materialized(old, def) == IF old = NoDef THEN def ELSE old

RunQuery(c) ==
    /\ calling[c].pc = "run"
    /\ held' = [held EXCEPT !["user"] = Materialized(@, calling[c].def)]
    /\ calling' = [calling EXCEPT ![c] = Ran(@, held'["user"])]
    /\ UNCHANGED <<graphRows, graphCalls>>

\* an instance is rebuilt after a fault or a restart: its memory is empty
InstanceRestarts(i) ==
    /\ held[i] # NoDef
    /\ held' = [held EXCEPT ![i] = NoDef]
    /\ UNCHANGED <<graphRows, calling, graphCalls>>

GraphNext ==
    \/ \E c \in Callers :
         \/ BeginPost(c) \/ RefuseBody(c) \/ BeginDelete(c) \/ BeginGraphQuery(c)
         \/ ClearRows(c) \/ InsertRow(c) \/ DropHeld(c) \/ CreateHeld(c)
         \/ CreateRefused(c) \/ LoadRow(c) \/ RunQuery(c)
    \/ \E i \in Instances : InstanceRestarts(i)

-----------------------------------------------------------------------------
QueryDone(c) == calling[c].op = "query" /\ calling[c].pc = "done"

(* The registry decides whether a graph can be queried, whatever an        *)
(* instance still holds: a query is refused only if the graph was          *)
(* unregistered at some moment of its life (between the DELETE and the     *)
(* INSERT of an edit too), and answered only if it was registered at one,  *)
(* so a deleted graph is never queried again (ensureGraphMaterialized).    *)
RegistryDecides ==
    \A c \in Callers : QueryDone(c) =>
        /\ calling[c].status = 404 => NoDef \in calling[c].seen
        /\ calling[c].status = 200 => calling[c].seen \cap Defs # {}

(* "dropping any prior version so edits take effect immediately"           *)
(* (README.md:1108): a query runs on a definition that was registered at   *)
(* some moment of its life.                                                *)
QueriesSeeEdits ==
    \A c \in Callers : QueryDone(c) /\ calling[c].status = 200 => calling[c].ran \in calling[c].seen
=============================================================================
