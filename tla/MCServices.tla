----------------------------- MODULE MCServices -----------------------------
(***************************************************************************)
(* Services of a gateway that share no state, for TLC: safety only.  Each  *)
(* behaviour is one of one of them; the variables of the others stay as    *)
(* they began.                                                             *)
(***************************************************************************)
EXTENDS KeyedIngest, MCIngestRequests, Maintenance, Access, ConsolePages, RecordBlobs,
        TableChanges, Cron, StructTypes, ZipArchive, SqlTables, QueryStream,
        SavedGraphs, LakeHistory

CONSTANTS g1, g2, k1, a1, a2,         \* Access: gateways, a request, changers
          r1, r2, r3, x, y, z, p, q,  \* RecordBlobs: requests, ids, paths
          u1, u2, u3,                 \* TableChanges: users
          c1, c2, c3                  \* LoginThrottle: sign-ins

\* A reader on one gateway while administrators of both change one thing, or
\* two gateways migrate at once.
MCAccessHost == (k1 :> g1) @@ (a1 :> g1) @@ (a2 :> g2)
MCAccessNeed == [c \in Checks |-> "read"]
Quiet == << >>
\* What a start does to the rows of a user, whatever the ACL.
Bootstraps == {legacyBootstrap, bootstrapSuperuser, bootstrapUser("writer", "allow_read")}
Jobs ==
  {<<updateUser("inactive"), Quiet>>, <<setUserRoles(<<"reader", "writer">>), Quiet>>,
   <<createUser(<<"reader">>), Quiet>>, <<syncRemoved, Quiet>>,
   <<setTablePermission("deny"), Quiet>>,
   <<ensureTableAcl("owner"), updateTableAcl("reader")>>, <<migrateToAcl, migrateToAcl>>}
    \cup {<<b, Quiet>> : b \in Bootstraps}
\* A gateway whose schedule and startup come due beside manual runs of another.
MCActivations == {<<g1, "schedule">>, <<g1, "startup">>, <<g2, "manual">>}

\* Jobs that meet the ACL of the table.
AboutAcl == job[a2] # Quiet \/ job[a1] = setTablePermission("deny")

JobsOf(pair) == [a \in Changers |-> IF a = a1 THEN pair[1] ELSE pair[2]]

\* Two ids share a file; a download beside two other requests.
MCPathOf == (x :> p) @@ (y :> p) @@ (z :> q)
MCBlobAsks ==
  {f \in [Requests -> [op : Ops, id : Records]] :
     /\ f[r3] = [op |-> "download", id |-> x]
     /\ f[r1].op # "download" /\ f[r1].id \in {x, y}
     /\ f[r2].op \in {"upload", "remove", "prune"} /\ f[r2].id \in {x, y}
     /\ \A r \in {r1, r2} : f[r].op = "prune" => f[r].id = x}

\* An edit beside two requests, in one of the two orders.
OfATable == <<"edit", "renameColumn", "dropColumn", "convert", "setKeys", "renameTable",
             "dropTable", "makeGraph", "dropGraph">>
MCChangeAsks ==
  UNION {{[u \in Users |-> CASE u = u1 -> "edit" [] u = u2 -> OfATable[i] [] OTHER -> OfATable[j]] :
            j \in i .. Len(OfATable)} : i \in DOMAIN OfATable}

\* Two people behind one address.
MCGuessKeys == (c1 :> {"ip", "ann"}) @@ (c2 :> {"ip", "bob"}) @@ (c3 :> {"ip", "ann"})

\* A calendar of two months, of two and three days.
MCCalendar ==
  [day \in 0 .. 29 |-> IF day % 5 < 2 THEN [month |-> 1, date |-> (day % 5) + 1]
                       ELSE [month |-> 2, date |-> (day % 5) - 1]]
Part(kind, a, b, by) == [kind |-> kind, a |-> a, b |-> b, step |-> by]
MCExpressions ==
  [minute : {Star, {Part("n", 1, 0, 0)}, {Part("n", 2, 0, 0), Part("n", 0, 0, 0)}},
   hour : {Star, {Part("n", 1, 0, 0)}},
   day : {Star, {Part("n", 3, 0, 0)}, {Part("*", 0, 0, 2)}},
   month : {Star, {Part("n", 2, 0, 0)}},
   weekday : {Star, {Part("range", 1, 2, 0)}, {Part("n", 0, 0, 0)}}]

\* Columns: an integer, or a STRUCT of an integer, a text or a STRUCT of integers.
Prim(n) == << >> :> n
Whole == Prim("INTEGER")
Struct(f) ==
  [path \in {<< >>} \cup UNION {{<<n>> \o rest : rest \in DOMAIN f[n]} : n \in DOMAIN f} |->
     IF path = << >> THEN "STRUCT" ELSE f[path[1]][Tail(path)]]
Nested == {Struct([f \in S |-> Whole]) : S \in {{"x"}, {"y"}, {"x", "y"}}}
MCColumnTypes ==
  {Whole, Struct([f \in {"b"} |-> Whole])}
    \cup {Struct([f \in {"a"} |-> t]) : t \in {Whole, Prim(Text)} \cup Nested}
    \cup {Struct([a |-> t, b |-> Whole]) : t \in {Prim(Text)} \cup Nested}

\* Queries over the caller's table b and another's table a: WITH clauses of up to
\* two CTEs, recursive ones and ones with a WITH clause of their own, a subquery.
Named(t) == [text |-> t, upper |-> FALSE]
Upper(t) == [text |-> t, upper |-> TRUE]
Node(kind, n, named, sub) == [kind |-> kind, name |-> n, from |-> named, sub |-> sub]
Select(path, sub) == Node("select", Named("a"), {path}, sub)
With(n, inner, rest) == Node("with", n, {}, <<inner, rest>>)
Recursive(n, anchor, term) == Node("recursive", n, {}, <<anchor, term>>)
Function == Node("other", Named("a"), {}, << >>)
Paths3 == {<<Named("a")>>, <<Upper("a")>>, <<Named("b")>>}
MCReferences == Paths3 \cup {<<Named("main"), Named("a")>>}
Plain == {Select(path, << >>) : path \in MCReferences}
Recursives == {Recursive(n, s, t) : n \in {Named("a"), Upper("b")}, s, t \in Plain}
OneDeep == {With(Named(n), s, Select(<<Named(m)>>, << >>)) : n, m \in {"a", "b"}, s \in Plain}
Selects == {Select(path, sub) : path \in Paths3, sub \in {<< >>} \cup {<<s>> : s \in Plain}}
Withs == {With(Named(m), t, q0) : m \in {"a", "b"}, t \in Plain, q0 \in Selects}
MCTrees ==
  Selects
    \cup {With(n, s, q0) : n \in {Named("a"), Upper("b")}, q0 \in Selects,
                          s \in Plain \cup Recursives \cup OneDeep \cup {Function}}
    \cup {With(Named(n), s, w) : n \in {"a", "b"}, s \in Plain, w \in Withs}
MCNodes == MCTrees \cup Plain \cup Recursives \cup OneDeep \cup Withs \cup {Function}
MCDepth[node \in MCNodes] ==
  IF node.sub = << >> THEN 0 ELSE 1 + Max({MCDepth[node.sub[i]] : i \in DOMAIN node.sub})

VARIABLE part   \* the service this behaviour is about

pools == <<avars, lvars, tvars, mvars>>
tables == <<vars, bvars, cvars, structvars>>
readers == <<sqlVars, streamVars, askVars, graphVars>>
others == <<cronvars, zvars, historyVars, gridvars>>

-----------------------------------------------------------------------------
(* One initial state of each service, for the behaviours about another.    *)

AccessRests == job = JobsOf(<<Quiet, Quiet>>) /\ accessRows = [k \in Kinds |-> {}] /\ AccessInit
BlobRests == ask = (CHOOSE f \in BlobAsks : TRUE) /\ hasTable = FALSE /\ BlobInit
ChangesRests == asks = (CHOOSE f \in ChangeAsks : TRUE) /\ keys = NoKeys /\ graph = "no"
                  /\ rule = Rule("t", "a") /\ ChangesInit
MaintRests == period = 1 /\ MaintInit
CronRests == cron = (CHOOSE e \in Expressions : TRUE) /\ from = 0 /\ CronInit
StructRests == column = Whole /\ incoming = [b \in Batches |-> Whole] /\ StructInit
SqlRests == sql = (CHOOSE t \in Trees : TRUE) /\ verdict = "none"
StreamRests == format = "json" /\ cap = 1 /\ total = 0 /\ StreamInit
AskRests == functions = {} /\ AskInit
IngestRests == req = [w \in Writers |-> CHOOSE r \in Asks[w] : TRUE] /\ Init

TablesRest == IngestRests /\ BlobRests /\ ChangesRests /\ StructRests
ReadersRest == SqlRests /\ StreamRests /\ AskRests /\ CronRests

ServicesInit ==
  /\ LoginsInit /\ ThrottleInit /\ ZipInit /\ GraphInit /\ HistoryInit /\ GridInit
  /\ \/ /\ part \in {"logins", "throttle", "zip", "graphs", "history", "grid"}
        /\ AccessRests /\ TablesRest /\ ReadersRest /\ MaintRests
     \/ /\ part = "access" /\ TablesRest /\ ReadersRest /\ MaintRests
        /\ \E pair \in Jobs : job = JobsOf(pair)
        /\ AccessInit /\ (Migrating => accessRows["user"] = {})
        /\ AboutAcl \/ accessRows["acl"] = {}
     \/ /\ part = "maintenance" /\ AccessRests /\ TablesRest /\ ReadersRest /\ MaintInit
     \/ /\ part = "ingest" /\ AccessRests /\ ReadersRest /\ MaintRests
        /\ BlobRests /\ ChangesRests /\ StructRests /\ Init
     \/ /\ part = "blobs" /\ AccessRests /\ ReadersRest /\ MaintRests
        /\ IngestRests /\ ChangesRests /\ StructRests /\ BlobInit
     \/ /\ part = "changes" /\ AccessRests /\ ReadersRest /\ MaintRests
        /\ IngestRests /\ BlobRests /\ StructRests /\ ChangesInit
        /\ (rule = Rule("t", "c") => keys = NoKeys /\ graph = "no")
     \/ /\ part = "struct" /\ AccessRests /\ ReadersRest /\ MaintRests
        /\ IngestRests /\ BlobRests /\ ChangesRests /\ StructInit
     \/ /\ part = "sql" /\ AccessRests /\ TablesRest /\ MaintRests
        /\ StreamRests /\ AskRests /\ CronRests /\ SqlInit
     \/ /\ part = "stream" /\ AccessRests /\ TablesRest /\ MaintRests
        /\ SqlRests /\ AskRests /\ CronRests /\ StreamInit
     \/ /\ part = "ask" /\ AccessRests /\ TablesRest /\ MaintRests
        /\ SqlRests /\ StreamRests /\ CronRests /\ AskInit
     \/ /\ part = "cron" /\ AccessRests /\ TablesRest /\ MaintRests
        /\ SqlRests /\ StreamRests /\ AskRests /\ CronInit

ServicesNext ==
  /\ part' = part
  /\ \/ part = "access" /\ AccessNext
        /\ UNCHANGED <<lvars, tvars, mvars, tables, readers, others>>
     \/ part = "logins" /\ LoginsNext
        /\ UNCHANGED <<avars, tvars, mvars, tables, readers, others>>
     \/ part = "throttle" /\ ThrottleNext
        /\ UNCHANGED <<avars, lvars, mvars, tables, readers, others>>
     \/ part = "maintenance" /\ MaintNext
        /\ UNCHANGED <<avars, lvars, tvars, tables, readers, others>>
     \/ part = "ingest" /\ Next
        /\ UNCHANGED <<pools, bvars, cvars, structvars, readers, others>>
     \/ part = "blobs" /\ BlobNext
        /\ UNCHANGED <<pools, vars, cvars, structvars, readers, others>>
     \/ part = "changes" /\ ChangesNext
        /\ UNCHANGED <<pools, vars, bvars, structvars, readers, others>>
     \/ part = "struct" /\ StructNext
        /\ UNCHANGED <<pools, vars, bvars, cvars, readers, others>>
     \/ part = "sql" /\ SqlNext
        /\ UNCHANGED <<pools, tables, streamVars, askVars, graphVars, others>>
     \/ part = "stream" /\ StreamNext
        /\ UNCHANGED <<pools, tables, sqlVars, askVars, graphVars, others>>
     \/ part = "ask" /\ AskNext
        /\ UNCHANGED <<pools, tables, sqlVars, streamVars, graphVars, others>>
     \/ part = "graphs" /\ GraphNext
        /\ UNCHANGED <<pools, tables, sqlVars, streamVars, askVars, others>>
     \/ part = "cron" /\ CronNext
        /\ UNCHANGED <<pools, tables, readers, zvars, historyVars, gridvars>>
     \/ part = "zip" /\ ZipNext
        /\ UNCHANGED <<pools, tables, readers, cronvars, historyVars, gridvars>>
     \/ part = "history" /\ HistoryNext
        /\ UNCHANGED <<pools, tables, readers, cronvars, zvars, gridvars>>
     \/ part = "grid" /\ GridNext
        /\ UNCHANGED <<pools, tables, readers, cronvars, zvars, historyVars>>

ServicesSpec == ServicesInit /\ [][ServicesNext]_<<part, pools, tables, readers, others>>

\* The type invariant of the service a behaviour is about.
TypesOK ==
  CASE part = "access" -> AccessTypeOK
    [] part = "logins" -> LoginsTypeOK
    [] part = "throttle" -> ThrottleTypeOK
    [] part = "maintenance" -> MaintTypeOK
    [] part = "ingest" -> TypeOK
    [] part = "blobs" -> BlobTypeOK
    [] part = "changes" -> ChangesTypeOK
    [] part = "struct" -> StructTypeOK
    [] part = "sql" -> SqlTypeOK
    [] part = "stream" -> StreamTypeOK
    [] part = "ask" -> AskTypeOK
    [] part = "graphs" -> GraphTypeOK
    [] part = "history" -> HistoryTypeOK
    [] part = "grid" -> GridTypeOK
    [] OTHER -> TRUE
=============================================================================
