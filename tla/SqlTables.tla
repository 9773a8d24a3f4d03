----------------------------- MODULE SqlTables -----------------------------
(***************************************************************************)
(* Which tables a caller's SELECT is authorised for: the walk over         *)
(* DuckDB's parse of it (src/sql-tables.js) and the check of every table   *)
(* the walk names (authorizeUserSql), beside the tables DuckDB's binder    *)
(* reads.  A query is a finite tree of nodes:                              *)
(*   "select"      from: its table references, sub: its subqueries         *)
(*   "with"        name: an entry of a cte_map, sub: <<the entry's body,   *)
(*                 the rest of the node>>                                  *)
(*   "recursive"   name: the CTE it defines, sub: <<anchor, term>>         *)
(*   "other"       a table function, SHOW, or a construct not known        *)
(* A reference is a path of names, each [text, upper]: a name in lower     *)
(* case and whether it is so written.                                      *)
(***************************************************************************)
EXTENDS Naturals, Sequences, SequencesExt

CONSTANTS Trees,     \* the queries to try,
          Depth,     \* of each node of a query, how far it is above its leaves
          Names,     \* lower-case names
          References, \* table references
          Tables,    \* lower-case names of the lake's base tables
          Views,     \*   and of its views
          System,    \* names that begin with "_"
          MayRead    \* the tables the caller has read access to

lower(name) == name.text

Nodes == DOMAIN Depth
NodeKinds == {"select", "with", "recursive", "other"}
Binders == {"with", "recursive"}

ASSUME SqlAssumption ==
    /\ Trees \subseteq Nodes
    /\ \A p \in References : Len(p) > 0 /\ (Len(p) = 1 => lower(p[1]) \in Names)
    /\ Depth \in [Nodes -> Nat]
    /\ \A node \in Nodes :
         /\ node.kind \in NodeKinds /\ node.from \subseteq References
         /\ node.kind \in Binders => lower(node.name) \in Names /\ DOMAIN node.sub = {1, 2}
         /\ \A i \in DOMAIN node.sub :
              node.sub[i] \in Nodes /\ Depth[node.sub[i]] < Depth[node]

VARIABLES sql,       \* the query of the request
          verdict    \* "none", "runs", or the status of the refusal

sqlVars == <<sql, verdict>>

\* What is not recognised is refused.
Unsupported(node) == IF node.kind = "other" THEN {<< >>} ELSE {}

-----------------------------------------------------------------------------
(* extractTableReferences: scope is the set of CTE names in sight.         *)

\* Mutant: a CTE sees itself.
ScopeOfItself(node, i, scope) ==
    IF node.kind \in Binders THEN scope \cup {lower(node.name)} ELSE scope

\* a CTE is in sight after its own body; a recursive one in its term
ScopeOf(node, i, scope) ==
    IF node.kind \in Binders /\ i = 2 THEN scope \cup {lower(node.name)} ELSE scope

Walk[node \in Nodes] ==
    [scope \in SUBSET Names |->
       Unsupported(node)
         \cup {p \in node.from : ~(Len(p) = 1 /\ lower(p[1]) \in scope)}
         \cup UNION {Walk[node.sub[i]][ScopeOf(node, i, scope)] : i \in DOMAIN node.sub}]

\* analyzeUserSql: a path may only name a table of ducklake.main
InMain(path) ==
    LET qualifiers == [i \in 1 .. Len(path) - 1 |-> lower(path[i])]
    IN  qualifiers \in {<<>>, <<"main">>, <<"ducklake">>, <<"ducklake", "main">>}

\* authorizeUserSql, after the walk: the table exists, is no view and may be read
Refusal(path) ==
    LET table == lower(Last(path))
    IN  IF path = << >> THEN "400"
        ELSE IF ~InMain(path) THEN "403"
        ELSE IF table \in System THEN "404"
        ELSE IF table \notin Tables \cup Views THEN "404"
        ELSE IF table \in Views THEN "403"
        ELSE IF table \notin MayRead THEN "403" ELSE "none"

authorizeUserSql(tree) ==
    LET refusals == {Refusal(p) : p \in Walk[tree][{}]} \ {"none"}
    IN  IF refusals = {} THEN "runs" ELSE CHOOSE s \in refusals : TRUE

-----------------------------------------------------------------------------
(* External: DuckDB's binder, by inlining.  An environment maps the CTEs   *)
(* in sight to what their bodies read; a recursive CTE names its own rows  *)
(* in its term.                                                            *)

Envs == UNION {[S -> SUBSET (References \cup {<< >>})] : S \in SUBSET Names}

Bind(env, name, reads) == [n \in DOMAIN env \cup {lower(name)} |->
                             IF n = lower(name) THEN reads ELSE env[n]]

ReadBy(p, env) ==
    IF Len(p) = 1 /\ lower(p[1]) \in DOMAIN env THEN env[lower(p[1])] ELSE {p}

\* The body of a CTE is read where its name is.
PartsRead(node) == IF node.kind = "with" THEN {2} ELSE DOMAIN node.sub

\* The environment of part i, where bound is what the body of a CTE reads.
EnvOf(node, i, env, bound) ==
    CASE node.kind = "with" -> Bind(env, node.name, bound)
      [] node.kind = "recursive" /\ i = 2 -> Bind(env, node.name, {})
      [] OTHER -> env

Reads[node \in Nodes] ==
    [env \in Envs |->
       LET bound == IF node.kind = "with" THEN Reads[node.sub[1]][env] ELSE {}
       IN  Unsupported(node)
             \cup (UNION {ReadBy(p, env) : p \in node.from})
             \cup UNION {Reads[node.sub[i]][EnvOf(node, i, env, bound)] : i \in PartsRead(node)}]

-----------------------------------------------------------------------------
SqlInit == sql \in Trees /\ verdict = "none"

Authorize ==
    /\ verdict = "none"
    /\ verdict' = authorizeUserSql(sql)
    /\ UNCHANGED sql

SqlNext == Authorize

SqlSpec == SqlInit /\ [][SqlNext]_sqlVars

SqlTypeOK == verdict \in {"none", "runs", "400", "403", "404"}

(* A query that is let through reads nothing but base tables of            *)
(* ducklake.main its caller may read, wherever WITH clauses, nested        *)
(* subqueries, recursive terms or spelling hide a table's name behind a    *)
(* CTE's (sql-tables.js:33, index.js:211).                                 *)
OnlyReadable ==
    verdict = "runs" =>
        \A p \in Reads[sql][<< >>] :
            p # << >> /\ InMain(p) /\ lower(Last(p)) \in Tables \cap MayRead
=============================================================================
