---------------------------- MODULE TableChanges ----------------------------
(***************************************************************************)
(* The console's data page (src/console/data.js): cells edited in place,   *)
(* columns and tables renamed, dropped and converted, and what refers to   *)
(* them by name: key columns (src/table-keys.js), table ACLs, prune rules  *)
(* and property graphs (src/index.js, POST /graphs).                       *)
(*                                                                         *)
(* One table "t", which may become "u", with a column "a", which may       *)
(* become "b", and another column "c".  Each request is a list of steps,   *)
(* one per statement or transaction, so requests interleave between them.  *)
(***************************************************************************)
EXTENDS Integers, Sequences, FiniteSets

CONSTANTS
  Users,          \* requests, each served once
  ChangeAsks,     \* what they may ask: functions to the names in Steps
  MaxChangeFaults \* bound: steps that fail

VARIABLES
  asks, todo,  \* what each request asks, and the steps it has left
  changeOutcome,     \* "", "ok" or "refused"
  name,        \* of the table: "t", "u" or "gone"
  columns, dated, \* its columns; whether the type of "a" is a date or a number
  cell, saw,   \* the value of one row's "a"; what each user's page shows of it
  keys,        \* _table_keys: the key columns declared for "t" and for "u"
  acl,         \* table name of its ACL and permissions, or "none"
  rule,        \* [table, column] of a prune rule by age
  graph,       \* "no", "dates" or "numbers" as it was made with "a", or "broken":
               \* registered on a table it cannot use
  changeFaults,
  strained     \* history: a step failed, or two changes overlapped

cvars == <<asks, todo, changeOutcome, name, columns, dated, cell, saw, keys, acl, rule,
           graph, changeFaults, strained>>

data == <<name, columns, dated, cell>>
refs == <<keys, acl, rule, graph>>

Steps ==
  [edit         |-> <<"look", "update">>,
   renameColumn |-> <<"look", "graphs", "renameColumn", "findKey", "renameKeys", "renameInRules">>,
   dropColumn   |-> <<"look", "graphs", "keys", "dropColumn">>,
   convert      |-> <<"look", "graphs", "rules", "convert">>,
   setKeys      |-> <<"look", "storeKeys">>,
   renameTable  |-> <<"look", "graphs", "renameTable", "moveAcl", "moveKeys", "moveRule">>,
   dropTable    |-> <<"look", "graphs", "dropTable", "dropAcl", "dropKeys">>,
   makeGraph    |-> <<"saveGraph">>,
   dropGraph    |-> <<"dropGraph">>]

ASSUME ChangesAssumption ==
  /\ Users \cap {"first", "nothing"} = {}
  /\ ChangeAsks \subseteq [Users -> DOMAIN Steps] /\ MaxChangeFaults \in Nat

Keys(t, u) == [t |-> t, u |-> u]
NoKeys == Keys({}, {})
Rule(table, column) == [table |-> table, column |-> column]

ChangesInit ==
  /\ asks \in ChangeAsks
  /\ todo = [u \in Users |-> <<>>]
  /\ changeOutcome = [u \in Users |-> ""]
  /\ name = "t" /\ columns = {"a", "c"} /\ dated = TRUE
  /\ cell = "first" /\ saw = [u \in Users |-> "nothing"]
  /\ keys \in {NoKeys, Keys({"a"}, {})}
  /\ acl = "t"
  /\ rule \in {Rule("t", "a"), Rule("t", "c")}
  /\ graph \in {"no", "dates"}
  /\ changeFaults = 0 /\ strained = FALSE

Running(u) == todo[u] # <<>>
Schema(u) == asks[u] # "edit"

\* A request arrives; an edit names the value its page was loaded with.
AskChange(u) ==
  /\ changeOutcome[u] = "" /\ ~Running(u)
  /\ todo' = [todo EXCEPT ![u] = Steps[asks[u]]]
  /\ saw' = [saw EXCEPT ![u] = cell]
  /\ strained' = (strained \/ (Schema(u) /\ \E v \in Users \ {u} : Running(v) /\ Schema(v)))
  /\ UNCHANGED <<asks, changeOutcome, data, refs, changeFaults>>

At(u, s) == Running(u) /\ Head(todo[u]) = s

Refuse(u) ==
  /\ todo' = [todo EXCEPT ![u] = <<>>]
  /\ changeOutcome' = [changeOutcome EXCEPT ![u] = "refused"]

Proceed(u) ==
  /\ todo' = [todo EXCEPT ![u] = Tail(@)]
  /\ changeOutcome' = IF Len(todo[u]) = 1 THEN [changeOutcome EXCEPT ![u] = "ok"] ELSE changeOutcome

\* A step that only reads: refused, or on to the next one.
Check(u, s, ok) ==
  /\ At(u, s)
  /\ IF ok THEN Proceed(u) ELSE Refuse(u)
  /\ UNCHANGED <<data, refs>>

Has(c) == name = "t" /\ c \in columns

\* requireTable, the column and the new name; assertNoGraphs; getTableKeys;
\* listPruneRules of convertColumnType.
LookAgain(u) == Check(u, "look", IF asks[u] \in {"renameTable", "dropTable"}
                                 THEN name = "t" ELSE Has("a"))
NoGraphs(u) == Check(u, "graphs", graph = "no")
NotAKey(u) == Check(u, "keys", "a" \notin keys.t)
NoRule(u) == Check(u, "rules", rule # Rule("t", "a"))

\* Mutant: the last one wins.
SeenOnce(u) == TRUE

\* One cell, if it still holds what the user saw.
SeenStill(u) == cell = saw[u]

UpdateCell(u) ==
  /\ At(u, "update")
  /\ IF Has("a") /\ SeenStill(u)
     THEN Proceed(u) /\ cell' = u
     ELSE Refuse(u) /\ UNCHANGED cell
  /\ UNCHANGED <<name, columns, dated, refs>>

\* A change of the schema; it fails when the column or the table is gone.
Alter(u, s, there, t, c, d) ==
  /\ At(u, s)
  /\ IF there THEN Proceed(u) /\ name' = t /\ columns' = c /\ dated' = d
              ELSE Refuse(u) /\ UNCHANGED <<name, columns, dated>>
  /\ UNCHANGED <<cell, refs>>

RenameColumn(u) == Alter(u, "renameColumn", Has("a"), name, (columns \ {"a"}) \cup {"b"}, dated)
DropColumn(u) == Alter(u, "dropColumn", Has("a"), name, columns \ {"a"}, dated)
ConvertColumn(u) == Alter(u, "convert", Has("a"), name, columns, FALSE)
RenameTable(u) == Alter(u, "renameTable", name = "t", "u", columns, dated)
DropTable(u) == Alter(u, "dropTable", name = "t", "gone", columns, dated)

\* What follows a change, one statement or transaction at a time.
Follow(u, s, k, a, r) ==
  /\ At(u, s) /\ Proceed(u)
  /\ keys' = k /\ acl' = a /\ rule' = r
  /\ UNCHANGED <<data, graph>>

\* renameKeyColumn: the keys are read, then stored under the new name.
FindKey(u) ==
  /\ At(u, "findKey")
  /\ todo' = [todo EXCEPT ![u] = IF "a" \in keys.t THEN Tail(@) ELSE Tail(Tail(@))]
  /\ UNCHANGED <<changeOutcome, data, refs>>

RenamedKeys == Keys({"b"}, keys.u)

\* Mutant: the key keeps the old name.
KeptKeys == keys

MovedRule == IF rule.table = "t" THEN Rule("u", rule.column) ELSE rule

RenameKeys(u) == Follow(u, "renameKeys", RenamedKeys, acl, rule)
RenameInRules(u) ==
  Follow(u, "renameInRules", keys, acl,
         IF rule = Rule("t", "a") THEN Rule("t", "b") ELSE rule)
StoreKeys(u) == Follow(u, "storeKeys", Keys({"a"}, keys.u), acl, rule)
MoveAcl(u) == Follow(u, "moveAcl", keys, IF acl = "t" THEN "u" ELSE acl, rule)
MoveKeys(u) == Follow(u, "moveKeys", Keys({}, keys.t \cup keys.u), acl, rule)
MoveRule(u) == Follow(u, "moveRule", keys, acl, MovedRule)
DropAcl(u) == Follow(u, "dropAcl", keys, IF acl = "t" THEN "none" ELSE acl, rule)
DropKeys(u) == Follow(u, "dropKeys", Keys({}, keys.u), acl, rule)

\* saveGraphDefinition, then CREATE PROPERTY GRAPH, which needs the column.
SaveGraph(u) ==
  /\ At(u, "saveGraph")
  /\ graph' = IF ~Has("a") THEN "broken" ELSE IF dated THEN "dates" ELSE "numbers"
  /\ IF Has("a") THEN Proceed(u) ELSE Refuse(u)
  /\ UNCHANGED <<data, keys, acl, rule>>

DropGraph(u) ==
  /\ At(u, "dropGraph") /\ Proceed(u) /\ graph' = "no"
  /\ UNCHANGED <<data, keys, acl, rule>>

\* A call throws: the request stops, or goes on where the error is swallowed.
Swallowed == {"renameInRules", "moveAcl", "moveKeys", "moveRule", "dropAcl", "dropKeys"}

StepFails(u) ==
  /\ Running(u) /\ changeFaults < MaxChangeFaults
  /\ changeFaults' = changeFaults + 1 /\ strained' = TRUE
  /\ IF Head(todo[u]) \in Swallowed THEN Proceed(u) ELSE Refuse(u)
  /\ UNCHANGED <<asks, saw, data, refs>>

ChangeStep(u) ==
  /\ \/ LookAgain(u) \/ NoGraphs(u) \/ NotAKey(u) \/ NoRule(u) \/ UpdateCell(u)
     \/ RenameColumn(u) \/ DropColumn(u) \/ ConvertColumn(u) \/ RenameTable(u) \/ DropTable(u)
     \/ FindKey(u) \/ RenameKeys(u) \/ RenameInRules(u) \/ StoreKeys(u) \/ MoveAcl(u) \/ MoveKeys(u)
     \/ MoveRule(u) \/ DropAcl(u) \/ DropKeys(u) \/ SaveGraph(u) \/ DropGraph(u)
  /\ UNCHANGED <<asks, saw, changeFaults, strained>>

ChangesNext == \E u \in Users : AskChange(u) \/ ChangeStep(u) \/ StepFails(u)

ChangesSpec == ChangesInit /\ [][ChangesNext]_cvars

-----------------------------------------------------------------------------
ChangesTypeOK ==
  /\ asks \in [Users -> DOMAIN Steps] /\ changeOutcome \in [Users -> {"", "ok", "refused"}]
  /\ name \in {"t", "u", "gone"} /\ columns \subseteq {"a", "b", "c"}
  /\ keys \in [t : SUBSET {"a", "b"}, u : SUBSET {"a", "b"}]
  /\ acl \in {"t", "u", "none"} /\ graph \in {"no", "dates", "numbers", "broken"}
  /\ rule \in [table : {"t", "u"}, column : {"a", "b", "c"}] /\ dated \in BOOLEAN

\* Of users whose pages showed the same value, one changes it
\* (src/console/data.js, updateCell).  And whenever no request runs, keys, the
\* ACL, prune rules and graphs name the table and the columns as they are now,
\* a converted column is not one a rule prunes by, unless two changes
\* overlapped or a statement failed (renameColumn, dropColumn,
\* convertColumnType, renameTable, dropTable).
ReferencesFollow ==
  /\ \A u, v \in Users :
       (/\ asks[u] = "edit" /\ asks[v] = "edit"
        /\ changeOutcome[u] = "ok" /\ changeOutcome[v] = "ok"
        /\ saw[u] = saw[v]) => u = v
  /\ (~strained /\ \A u \in Users : ~Running(u)) =>
       /\ \A t \in {"t", "u"} : keys[t] # {} => t = name /\ keys[t] \subseteq columns
       /\ acl = IF name = "gone" THEN "none" ELSE name
       /\ name # "gone" => rule.table = name
       /\ "b" \in columns => rule.column # "a"
       /\ (rule.column = "a" /\ "a" \in columns) => dated
       /\ graph = "dates" => (Has("a") /\ dated)
       /\ graph = "numbers" => (Has("a") /\ ~dated)
=============================================================================
