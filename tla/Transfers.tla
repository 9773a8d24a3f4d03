----------------------------- MODULE Transfers ------------------------------
(***************************************************************************)
(* Exports and imports of whole tables: runExport and runMultiExport       *)
(* (src/export.js), which the routes of src/index.js and the console call, *)
(* and POST /tables/:tableName/import with importFile                      *)
(* (src/console/data.js).                                                  *)
(*                                                                         *)
(* The rows of a table are known by the import that wrote them last: a     *)
(* version, 0 for a table that does not exist.  External: DuckDB's         *)
(* transactions read one snapshot and conflict with a commit since.        *)
(***************************************************************************)
EXTENDS Integers, FiniteSets

CONSTANTS
  Exports,      \* export requests, each served once
  ExportKinds,  \* what they may ask: functions to [format, zip]
  Imports,      \* import requests, each served once
  ImportAsks,   \* what they may ask: functions to [mode, table]
  LakeTables,
  FirstLakes,   \* what the lake may hold at first: functions to {0, 1}
  Slots,        \* values EXPORT_CONCURRENCY may be set to
  MaxMisses     \* bound: calls that fail for a reason of their own, clients that leave

Modes == {"auto", "create", "append", "replace"}

ASSUME TransfersAssumption ==
  /\ IsFiniteSet(Exports) /\ Exports \cap Imports = {}
  /\ ImportAsks \subseteq [Imports -> [mode : Modes, table : LakeTables]]
  /\ FirstLakes \subseteq [LakeTables -> {0, 1}]

VARIABLES
  lake,          \* table -> version of its rows
  pasts,         \* history: every state of the lake
  concurrency,   \* EXPORT_CONCURRENCY, changed live
  activeExports, \* exports that hold a slot, as the code counts them
  kindOf,        \* what each export asks,
  transferStage, \*   its next step,
  gone,          \*   whether its response is destroyed,
  counted,       \*   the versions its headers or manifest describe,
  sent,          \*   the versions it has sent,
  temp,          \*   and the temp files that exist, of exports and imports
  askOf,         \* what each import asks,
  importStage,   \*   its next step,
  mode,          \*   the mode it resolved,
  base,          \*   and the version its transaction began on
  misses

tvars == <<lake, pasts, concurrency, activeExports, kindOf, transferStage, gone, counted, sent,
           temp, askOf, importStage, mode, base, misses>>

exportVars == <<activeExports, kindOf, transferStage, gone, counted, sent>>
importVars == <<askOf, importStage, mode, base>>

Emptied == -2   \* a table whose rows a replace has deleted

TransfersInit ==
  /\ lake \in FirstLakes /\ pasts = {lake}
  /\ concurrency \in Slots /\ activeExports = 0
  /\ kindOf \in ExportKinds
  /\ transferStage = [e \in Exports |-> "idle"]
  /\ gone = [e \in Exports |-> FALSE]
  /\ counted = [e \in Exports |-> [t \in LakeTables |-> -1]]
  /\ sent = counted
  /\ temp = {}
  /\ askOf \in ImportAsks
  /\ importStage = [i \in Imports |-> "idle"]
  /\ mode = [i \in Imports |-> askOf[i].mode]
  /\ base = [i \in Imports |-> 0]
  /\ misses = 0

(***************************************************************************)
(* Exports                                                                 *)
(***************************************************************************)
Underway(e) == transferStage[e] \notin {"idle", "done", "failed", "rejected"}

\* One table, or the whole lake as a ZIP.
Wanted(e) == {t \in LakeTables : lake[t] # 0}

Step(e, s) == transferStage' = [transferStage EXCEPT ![e] = s]

\* Mutant: only an export that sent its file gives its slot back.
GiveBackLate(e) ==
  /\ activeExports' = IF transferStage[e] = "open" THEN activeExports ELSE activeExports - 1
  /\ temp' = temp \ {e}

\* finally: the connection, the temp file and the slot are given back.
GiveBack(e) == activeExports' = activeExports - 1 /\ temp' = temp \ {e}

Admit(e) ==
  /\ transferStage[e] = "idle"
  /\ IF activeExports >= concurrency
     THEN Step(e, "rejected") /\ UNCHANGED activeExports
     ELSE Step(e, "open") /\ activeExports' = activeExports + 1
  /\ UNCHANGED <<lake, pasts, concurrency, kindOf, gone, counted, sent, temp, misses>>

OpenConnection(e) ==
  /\ transferStage[e] = "open" /\ Step(e, "count")
  /\ UNCHANGED <<lake, pasts, concurrency, activeExports, kindOf, gone, counted, sent, temp, misses>>

\* BEGIN TRANSACTION, then a count of every table.
CountTables(e) ==
  /\ transferStage[e] = "count"
  /\ Wanted(e) # {}
  /\ \E T \in {S \in SUBSET Wanted(e) : S # {}} :
       /\ IF kindOf[e].zip THEN T = Wanted(e) ELSE Cardinality(T) = 1
       /\ counted' = [counted EXCEPT ![e] = [t \in LakeTables |-> IF t \in T THEN lake[t] ELSE -1]]
  /\ Step(e, IF kindOf[e].format = "parquet" /\ ~kindOf[e].zip THEN "copy" ELSE "send")
  /\ UNCHANGED <<lake, pasts, concurrency, activeExports, kindOf, gone, sent, temp, misses>>

\* COPY to a temp file, before the headers.
CopyToParquet(e) ==
  /\ transferStage[e] = "copy" /\ Step(e, "send")
  /\ temp' = temp \cup {e}
  /\ UNCHANGED <<lake, pasts, concurrency, activeExports, kindOf, gone, counted, sent, misses>>

\* Mutant: no transaction, each statement reads the lake as it is.
ReadsNow(e, t) == lake[t]

\* The version of t that the export's transaction reads.
Reads(e, t) == counted[e][t]

\* One table's rows, through a temp file of its own in a ZIP of Parquet files.
SendTable(e) ==
  /\ transferStage[e] = "send" /\ ~gone[e]
  /\ \E t \in LakeTables :
       /\ counted[e][t] # -1 /\ sent[e][t] = -1
       /\ sent' = [sent EXCEPT ![e][t] = Reads(e, t)]
  /\ UNCHANGED <<lake, pasts, concurrency, activeExports, kindOf, transferStage, gone, counted, temp, misses>>

CommitExport(e) ==
  /\ transferStage[e] = "send" /\ ~gone[e]
  /\ \A t \in LakeTables : counted[e][t] # -1 => sent[e][t] # -1
  /\ Step(e, "done") /\ GiveBack(e)
  /\ UNCHANGED <<lake, pasts, concurrency, kindOf, gone, counted, sent, misses>>

\* A call throws, or its timeout interrupts it before the headers are sent.
ExportFails(e) ==
  /\ Underway(e) /\ misses < MaxMisses /\ misses' = misses + 1
  /\ Step(e, "failed") /\ GiveBack(e)
  /\ UNCHANGED <<lake, pasts, concurrency, kindOf, gone, counted, sent>>

NothingToCount(e) ==
  /\ transferStage[e] = "count" /\ Wanted(e) = {}
  /\ Step(e, "failed") /\ GiveBack(e)
  /\ UNCHANGED <<lake, pasts, concurrency, kindOf, gone, counted, sent, misses>>

\* The client leaves; its next write will find out.
ExportClientLeaves(e) ==
  /\ Underway(e) /\ ~gone[e] /\ misses < MaxMisses /\ misses' = misses + 1
  /\ gone' = [gone EXCEPT ![e] = TRUE]
  /\ UNCHANGED <<lake, pasts, concurrency, activeExports, kindOf, transferStage, counted, sent, temp>>

\* EXPORT_TIMEOUT_MS after the headers: the response is destroyed.
TimesOut(e) == transferStage[e] = "send"

\* Mutant: the timeout of a response under way only interrupts its query.
NeverTimesOut(e) == FALSE

TimeoutDestroys(e) ==
  /\ TimesOut(e) /\ ~gone[e]
  /\ gone' = [gone EXCEPT ![e] = TRUE]
  /\ UNCHANGED <<lake, pasts, concurrency, activeExports, kindOf, transferStage, counted, sent, temp, misses>>

\* write() finds the response destroyed, or wakes by its "close".
WriteRejects(e) ==
  /\ transferStage[e] = "send" /\ gone[e]
  /\ Step(e, "failed") /\ GiveBack(e)
  /\ UNCHANGED <<lake, pasts, concurrency, kindOf, gone, counted, sent, misses>>

EngineStep(e) == OpenConnection(e) \/ CountTables(e) \/ NothingToCount(e) \/ CopyToParquet(e)

ExportStep(e) ==
  /\ \/ Admit(e) \/ EngineStep(e) \/ SendTable(e) \/ CommitExport(e) \/ ExportFails(e)
     \/ ExportClientLeaves(e) \/ TimeoutDestroys(e) \/ WriteRejects(e)
  /\ UNCHANGED importVars

ChangeConcurrency ==
  /\ concurrency' \in Slots \ {concurrency}
  /\ UNCHANGED <<lake, pasts, exportVars, temp, importVars, misses>>

(***************************************************************************)
(* Imports                                                                 *)
(***************************************************************************)
Table(i) == askOf[i].table
To(i, s) == importStage' = [importStage EXCEPT ![i] = s]
Loads(i) == importStage[i] \notin {"idle", "done", "refused"}

\* A new version of i's rows, seen by everyone at once.
Commit(i, v) == lake' = [lake EXCEPT ![Table(i)] = v] /\ pasts' = pasts \cup {lake'}

\* After the access check, the body is spooled to a temp file.
Spool(i) ==
  /\ importStage[i] = "idle" /\ To(i, "plan")
  /\ temp' = temp \cup {i}
  /\ UNCHANGED <<lake, pasts, askOf, mode, base, misses>>

\* DESCRIBE, then the mode: what "auto" and "replace" mean now, 409 for
\* "create" when the table is there, 404 for "append" when it is not.
PlanImport(i) ==
  /\ importStage[i] = "plan"
  /\ LET there == lake[Table(i)] # 0
         m == IF mode[i] \in {"auto", "replace"} /\ ~there THEN "create"
              ELSE IF mode[i] = "auto" THEN "append" ELSE mode[i]
         refused == there = (m = "create")
     IN /\ mode' = [mode EXCEPT ![i] = m]
        /\ IF refused THEN To(i, "refused") /\ temp' = temp \ {i}
                      ELSE To(i, "write") /\ UNCHANGED temp
  /\ UNCHANGED <<lake, pasts, askOf, base, misses>>

\* CREATE TABLE AS, or INSERT; both commit on their own.  A table that was
\* created meanwhile refuses the first, one that was dropped is not modelled.
WriteRows(i) ==
  /\ importStage[i] = "write" /\ mode[i] \in {"create", "append"}
  /\ IF mode[i] = "create" /\ lake[Table(i)] # 0
     THEN To(i, "refused") /\ UNCHANGED <<lake, pasts>>
     ELSE To(i, "done") /\ Commit(i, lake[Table(i)] + 1)
  /\ temp' = temp \ {i}
  /\ UNCHANGED <<askOf, mode, base, misses>>

\* Mutant: the DELETE commits on its own.
AfterDeleteAlone(i) == Emptied

\* What other transactions see after a replace's DELETE.
AfterDelete(i) == lake[Table(i)]

\* BEGIN and DELETE
DeleteOld(i) ==
  /\ importStage[i] = "write" /\ mode[i] = "replace"
  /\ base' = [base EXCEPT ![i] = lake[Table(i)]]
  /\ Commit(i, AfterDelete(i))
  /\ To(i, "insert")
  /\ UNCHANGED <<temp, askOf, mode, misses>>

\* INSERT and COMMIT, which a commit since BEGIN refuses: ROLLBACK and 409.
InsertNew(i) ==
  /\ importStage[i] = "insert"
  /\ IF lake[Table(i)] \in {base[i], Emptied}
     THEN To(i, "done") /\ Commit(i, base[i] + 1)
     ELSE To(i, "refused") /\ UNCHANGED <<lake, pasts>>
  /\ temp' = temp \ {i}
  /\ UNCHANGED <<askOf, mode, base, misses>>

\* A call throws: what a replace did is rolled back, and the file removed.
ImportFails(i) ==
  /\ Loads(i) /\ misses < MaxMisses /\ misses' = misses + 1
  /\ To(i, "refused") /\ temp' = temp \ {i}
  /\ UNCHANGED <<lake, pasts, askOf, mode, base>>

ImportStep(i) ==
  /\ Spool(i) \/ PlanImport(i) \/ WriteRows(i) \/ DeleteOld(i) \/ InsertNew(i) \/ ImportFails(i)
  /\ UNCHANGED <<concurrency, exportVars>>

TransfersNext ==
  \/ \E e \in Exports : ExportStep(e)
  \/ \E i \in Imports : ImportStep(i)
  \/ ChangeConcurrency

TransfersFairness ==
  \A e \in Exports : /\ WF_tvars(EngineStep(e) /\ UNCHANGED importVars)
                     /\ WF_tvars(TimeoutDestroys(e) /\ UNCHANGED importVars)
                     /\ WF_tvars(WriteRejects(e) /\ UNCHANGED importVars)

TransfersSpec == TransfersInit /\ [][TransfersNext]_tvars /\ TransfersFairness

-----------------------------------------------------------------------------
TransfersTypeOK ==
  /\ \A t \in LakeTables : lake[t] \in Int
  /\ concurrency \in Slots /\ activeExports \in 0..Cardinality(Exports)
  /\ transferStage \in [Exports -> {"idle", "rejected", "open", "count", "copy", "send", "done", "failed"}]
  /\ importStage \in [Imports -> {"idle", "plan", "write", "insert", "done", "refused"}]
  /\ temp \subseteq Exports \cup Imports

\* A finished export sent what its headers or its manifest describe, and that
\* is one state the lake was in, whatever was imported meanwhile; the slots
\* counted are those of exports under way; and no request that is over leaves
\* a temp file (src/export.js, src/index.js and src/console/data.js).
TransfersWhole ==
  /\ \A e \in Exports :
       transferStage[e] = "done" =>
         /\ sent[e] = counted[e]
         /\ \E p \in pasts : \A t \in LakeTables :
              sent[e][t] # -1 => sent[e][t] = p[t] /\ p[t] # Emptied
  /\ activeExports = Cardinality({e \in Exports : Underway(e)})
  /\ \A e \in Exports \cap temp : Underway(e)
  /\ \A i \in Imports \cap temp : Loads(i)

\* Every export gives its slot back, also when its client neither reads on
\* nor leaves: the timeout ends it (src/export.js).
SlotsComeBack == \A e \in Exports : []<>~Underway(e)
=============================================================================
