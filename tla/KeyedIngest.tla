---------------------------- MODULE KeyedIngest ----------------------------
(***************************************************************************)
(* Ingestion of batches into one table (src/ingest.js: ingestRows), with   *)
(* the declared key columns of src/table-keys.js, by requests of any number *)
(* of gateways that interleave at every await.                             *)
(*                                                                         *)
(* The table has two columns that can serve as keys, "a" and "b", and may  *)
(* have a third, "x", that a batch brings along.  Batches are well formed: *)
(* the 400s of a malformed one, which come before anything is written, are *)
(* left out.  DuckLake is modelled by the comments of src/ingest.js: of    *)
(* overlapping keyed transactions on the table one commits, plain appends  *)
(* conflict with nothing.                                                  *)
(***************************************************************************)
EXTENDS Integers, Sequences, FiniteSets

CONSTANTS
  Writers,
  Asks,       \* the requests each writer may send
  Attempts,   \* INGEST_CONFLICT_RETRIES
  First,      \* rows of the table at the start; {} when there is no table
  FirstKey,   \* its declared key column, or None
  Faults,     \* what may fail: "acl", "keys"
  None

KeyColumns == {"a", "b"}
Modes == {"append", "upsert", "dedupe"}
Answers == {"ok", "conflict", "mismatch", "nokey", "denied", "error"}
Counts == [inserted : Nat, matched : Nat]

ASSUME IngestAssumption ==
  /\ Attempts \in Nat \ {0}
  /\ FirstKey \in KeyColumns \cup {None}
  /\ Faults \subseteq {"acl", "keys"}
  /\ \A w \in Writers : \A r \in Asks[w] :
       /\ r.mode \in Modes /\ r.key \in KeyColumns \cup {None} /\ r.x \in BOOLEAN
       /\ r.batch \in Seq([a : Nat, b : Nat]) /\ r.batch # <<>>
  /\ IsFiniteSet(First) /\ \A r \in First : r.id[1] \notin Writers  \* nobody's rows
  /\ None \notin KeyColumns \cup Answers \cup Counts

VARIABLES
  exists,     \* the table exists
  table,      \* its rows
  hasX,       \* it has column x
  declared,   \* its key in _table_keys, or None
  merges,     \* number of keyed transactions committed
  pc,         \* where each request is
  req,        \* the request
  key,        \* the key it goes by
  seesX,      \* column x was there when it read the columns
  writesX,    \* it writes column x
  snapshot,   \* the table as its transaction sees it, with merges and hasX
  attempt,    \* keyed transactions it began
  counts,     \* inserted, and updated or skipped, as it will report them
  answer,     \* "ok", "conflict" (409), see Answers, or None
  effect      \* history: what its batch did to the table, or None

vars == <<exists, table, hasX, declared, merges, pc, req, key, seesX, writesX,
          snapshot, attempt, counts, answer, effect>>

lake == <<exists, table, hasX, declared, merges>>

NoCounts == [inserted |-> 0, matched |-> 0]
NoSnapshot == [rows |-> {}, merges |-> 0, hasX |-> FALSE]

Init ==
  /\ exists = (First # {})
  /\ table = First
  /\ hasX = FALSE
  /\ declared = FirstKey
  /\ merges = 0
  /\ pc = [w \in Writers |-> "idle"]
  /\ req \in [Writers -> UNION {Asks[w] : w \in Writers}]
  /\ \A w \in Writers : req[w] \in Asks[w]
  /\ key = [w \in Writers |-> None]
  /\ seesX = [w \in Writers |-> FALSE]
  /\ writesX = [w \in Writers |-> FALSE]
  /\ snapshot = [w \in Writers |-> NoSnapshot]
  /\ attempt = [w \in Writers |-> 0]
  /\ counts = [w \in Writers |-> NoCounts]
  /\ answer = [w \in Writers |-> None]
  /\ effect = [w \in Writers |-> None]

Keyed(w) == req[w].mode # "append"

Goto(w, label) == pc' = [pc EXCEPT ![w] = label]

Reply(w, a) ==
  /\ answer' = [answer EXCEPT ![w] = a]
  /\ Goto(w, "done")

----------------------------------------------------------------------------
(* The statements *)

\* The rows of the batch as they reach the table.
BatchRows(w, x) ==
  {[id |-> <<w, i>>, by |-> w, pos |-> i, a |-> req[w].batch[i].a, b |-> req[w].batch[i].b,
    x |-> IF req[w].x /\ x THEN "value" ELSE "null"] : i \in DOMAIN req[w].batch}

\* Mutant: the order in which the batch is read decides.
DeduppedAnyOrder(rows, k, mode) ==
  {r \in rows : \A s \in rows : s[k] = r[k] => s.pos <= r.pos}

\* dedupSql: one row per key, the last of an upsert, the first of a dedupe.
Dedupped(rows, k, mode) ==
  {r \in rows : \A s \in rows : s[k] = r[k] =>
                  IF mode = "upsert" THEN s.pos <= r.pos ELSE s.pos >= r.pos}

Matching(rows, other, k) == {r \in rows : \E s \in other : s[k] = r[k]}

\* MERGE INTO: matching rows are updated in place, the others are inserted.
Update(rows, source, k) ==
  {[CHOOSE s \in source : s[k] = r[k] EXCEPT !.id = r.id] : r \in Matching(rows, source, k)}

Merged(rows, source, k, mode) ==
  IF mode = "upsert"
  THEN (rows \ Matching(rows, source, k)) \cup Update(rows, source, k)
       \cup (source \ Matching(source, rows, k))
  ELSE rows \cup (source \ Matching(source, rows, k))

Source(w) == Dedupped(BatchRows(w, writesX[w]), key[w], req[w].mode)

\* The counts query of the transaction.
Counted(w, rows) ==
  [inserted |-> Cardinality(Source(w) \ Matching(Source(w), rows, key[w])),
   matched |-> Cardinality(Matching(Source(w), rows, key[w]))]

----------------------------------------------------------------------------
(* A table that does not exist yet *)

Start(w) ==
  /\ pc[w] = "idle"
  /\ \/ exists /\ Goto(w, "access")
     \/ ~exists /\ Goto(w, IF Keyed(w) THEN "choose" ELSE "create")
  /\ UNCHANGED <<lake, req, key, seesX, writesX, snapshot, attempt, counts, answer, effect>>

\* The key named by the request, else the declared one.
ChooseKey(w) ==
  LET k == IF req[w].key # None THEN req[w].key ELSE declared IN
  /\ pc[w] = "choose"
  /\ IF k = None
     THEN Reply(w, "nokey") /\ UNCHANGED key
     ELSE Goto(w, "create") /\ key' = [key EXCEPT ![w] = k] /\ UNCHANGED answer
  /\ UNCHANGED <<lake, req, seesX, writesX, snapshot, attempt, counts, effect>>

\* CREATE TABLE AS: the batch, deduplicated when it is keyed.
Create(w) ==
  LET rows == BatchRows(w, TRUE)
      new == IF Keyed(w) THEN Dedupped(rows, key[w], req[w].mode) ELSE rows IN
  /\ pc[w] = "create"
  /\ ~exists
  /\ exists' = TRUE
  /\ table' = new
  /\ hasX' = req[w].x
  /\ writesX' = [writesX EXCEPT ![w] = req[w].x]
  /\ counts' = [counts EXCEPT ![w] = [inserted |-> Cardinality(rows), matched |-> 0]]
  /\ effect' = [effect EXCEPT ![w] = [inserted |-> Cardinality(new), matched |-> 0]]
  /\ Goto(w, IF Keyed(w) THEN "count" ELSE "acl")
  /\ UNCHANGED <<declared, merges, req, key, seesX, snapshot, attempt, answer>>

\* Another request created the table first: its commit came before this
\* statement began ("already exists") or while it ran (a conflict, not retried).
CreateLoses(w) ==
  /\ pc[w] = "create"
  /\ exists
  /\ \/ Goto(w, "access") /\ UNCHANGED answer
     \/ Reply(w, "conflict")
  /\ UNCHANGED <<lake, req, key, seesX, writesX, snapshot, attempt, counts, effect>>

\* SELECT count(*) of the new table, a statement of its own.
CountCreated(w) ==
  /\ pc[w] = "count"
  /\ counts' = [counts EXCEPT ![w].inserted = Cardinality(table)]
  /\ Goto(w, "acl")
  /\ UNCHANGED <<lake, req, key, seesX, writesX, snapshot, attempt, answer, effect>>

\* onCreated registers the owner.  An error is reported as one.
OnCreated(w) ==
  /\ pc[w] = "acl"
  /\ \/ IF Keyed(w) THEN Goto(w, "declare") /\ UNCHANGED answer ELSE Reply(w, "ok")
     \/ "acl" \in Faults /\ Reply(w, "error")
  /\ UNCHANGED <<lake, req, key, seesX, writesX, snapshot, attempt, counts, effect>>

\* Mutant: the old keys are deleted and no new ones inserted.
SetTableKeysDeleting(w) ==
  /\ declared' = None
  /\ UNCHANGED <<exists, table, hasX, merges>>

\* setTableKeys: delete and insert in a transaction.  It may lose against
\* other changes of _table_keys as often as it tries.
SetTableKeys(w) ==
  /\ declared' = key[w]
  /\ UNCHANGED <<exists, table, hasX, merges>>

DeclareCreated(w) ==
  /\ pc[w] = "declare"
  /\ \/ SetTableKeys(w) /\ Reply(w, "ok")
     \/ "keys" \in Faults /\ Reply(w, "conflict") /\ UNCHANGED lake
  /\ UNCHANGED <<req, key, seesX, writesX, snapshot, attempt, counts, effect>>

----------------------------------------------------------------------------
(* A table that exists *)

\* beforeExisting: who may write is not modelled, only that it may be refused.
CheckAccess(w) ==
  /\ pc[w] = "access"
  /\ \/ Goto(w, "keys") /\ UNCHANGED answer
     \/ Reply(w, "denied")
  /\ UNCHANGED <<lake, req, key, seesX, writesX, snapshot, attempt, counts, effect>>

\* The declared key is read; the key of the request must agree with it, and
\* stands in for it where there is none.  key is None until it is declared.
ReadKeys(w) ==
  /\ pc[w] = "keys"
  /\ \/ ~Keyed(w) /\ Goto(w, "columns") /\ UNCHANGED <<key, answer>>
     \/ /\ Keyed(w) /\ declared # None /\ req[w].key \notin {None, declared}
        /\ Reply(w, "mismatch")
        /\ UNCHANGED key
     \/ /\ Keyed(w) /\ declared = None /\ req[w].key = None
        /\ Reply(w, "nokey")
        /\ UNCHANGED key
     \/ /\ Keyed(w)
        /\ IF declared = None THEN req[w].key # None ELSE req[w].key \in {None, declared}
        /\ key' = [key EXCEPT ![w] = declared]
        /\ Goto(w, "columns")
        /\ UNCHANGED answer
  /\ UNCHANGED <<lake, req, seesX, writesX, snapshot, attempt, counts, effect>>

\* evolveSchema reads the columns of the table ...
ReadColumns(w) ==
  /\ pc[w] = "columns"
  /\ seesX' = [seesX EXCEPT ![w] = hasX]
  /\ Goto(w, "alter")
  /\ UNCHANGED <<lake, req, key, writesX, snapshot, attempt, counts, answer, effect>>

AfterAlter(w) == IF ~Keyed(w) THEN "insert" ELSE IF key[w] = None THEN "setKeys" ELSE "begin"

\* ... and adds the one the batch brings.  Where the ALTER fails, because another
\* request added it meanwhile, the batch goes on without the column.
AddColumn(w) ==
  LET adds == req[w].x /\ ~seesX[w] IN
  /\ pc[w] = "alter"
  /\ hasX' = (hasX \/ adds)
  /\ writesX' = [writesX EXCEPT ![w] = req[w].x /\ (seesX[w] \/ ~hasX)]
  /\ Goto(w, AfterAlter(w))
  /\ UNCHANGED <<exists, table, declared, merges, req, key, seesX, snapshot, attempt,
                 counts, answer, effect>>

\* INSERT of an append.
Insert(w) ==
  LET rows == BatchRows(w, writesX[w])
      n == [inserted |-> Cardinality(rows), matched |-> 0] IN
  /\ pc[w] = "insert"
  /\ table' = table \cup rows
  /\ counts' = [counts EXCEPT ![w] = n]
  /\ effect' = [effect EXCEPT ![w] = n]
  /\ Reply(w, "ok")
  /\ UNCHANGED <<exists, hasX, declared, merges, req, key, seesX, writesX, snapshot, attempt>>

\* The first keyed write to a table without a key declares the one it names.
DeclareFirst(w) ==
  /\ pc[w] = "setKeys"
  /\ \/ /\ declared' = req[w].key
        /\ key' = [key EXCEPT ![w] = req[w].key]
        /\ Goto(w, "begin")
        /\ UNCHANGED answer
     \/ /\ "keys" \in Faults
        /\ Reply(w, "conflict")
        /\ UNCHANGED <<declared, key>>
  /\ UNCHANGED <<exists, table, hasX, merges, req, seesX, writesX, snapshot, attempt,
                 counts, effect>>

\* Mutant: what a first attempt counted is kept.
BeginCountingOnce(w) ==
  /\ pc[w] = "begin"
  /\ snapshot' = [snapshot EXCEPT ![w] = [rows |-> table, merges |-> merges, hasX |-> hasX]]
  /\ counts' = IF attempt[w] = 0 THEN [counts EXCEPT ![w] = Counted(w, table)] ELSE counts
  /\ attempt' = [attempt EXCEPT ![w] = @ + 1]
  /\ Goto(w, "commit")
  /\ UNCHANGED <<lake, req, key, seesX, writesX, answer, effect>>

\* BEGIN and the counts query: from here on the transaction sees this snapshot.
Begin(w) ==
  /\ pc[w] = "begin"
  /\ snapshot' = [snapshot EXCEPT ![w] = [rows |-> table, merges |-> merges, hasX |-> hasX]]
  /\ counts' = [counts EXCEPT ![w] = Counted(w, table)]
  /\ attempt' = [attempt EXCEPT ![w] = @ + 1]
  /\ Goto(w, "commit")
  /\ UNCHANGED <<lake, req, key, seesX, writesX, answer, effect>>

\* Mutant: a dedupe conflicts with nothing, as INSERT ... WHERE NOT EXISTS would.
OverlapsUnlessDedupe(w) ==
  snapshot[w].merges # merges /\ req[w].mode # "dedupe"

\* Another keyed transaction committed since this one began.
Overlaps(w) == snapshot[w].merges # merges

\* MERGE INTO and COMMIT: rows appended since the snapshot stay as they are.
Commit(w) ==
  LET old == snapshot[w].rows IN
  /\ pc[w] = "commit"
  /\ ~Overlaps(w)
  /\ table' = (table \ old) \cup Merged(old, Source(w), key[w], req[w].mode)
  /\ merges' = merges + 1
  /\ effect' = [effect EXCEPT ![w] = Counted(w, old)]
  /\ Reply(w, "ok")
  /\ UNCHANGED <<exists, hasX, declared, req, key, seesX, writesX, snapshot, attempt, counts>>

\* Mutant: the commit is tried again, not the transaction.
ConflictRetried(w) ==
  /\ pc[w] = "commit"
  /\ Overlaps(w) \/ snapshot[w].hasX # hasX
  /\ UNCHANGED vars

\* Mutant: one attempt too many.
ConflictOneMore(w) ==
  /\ pc[w] = "commit"
  /\ Overlaps(w) \/ snapshot[w].hasX # hasX
  /\ IF attempt[w] <= Attempts
     THEN Goto(w, "begin") /\ UNCHANGED answer
     ELSE Reply(w, "conflict")
  /\ UNCHANGED <<lake, req, key, seesX, writesX, snapshot, attempt, counts, effect>>

\* The commit is rejected, also when the table was altered since: the
\* transaction is rolled back and tried again, until the attempts are used up.
Conflict(w) ==
  /\ pc[w] = "commit"
  /\ Overlaps(w) \/ snapshot[w].hasX # hasX
  /\ IF attempt[w] < Attempts
     THEN Goto(w, "begin") /\ UNCHANGED answer
     ELSE Reply(w, "conflict")
  /\ UNCHANGED <<lake, req, key, seesX, writesX, snapshot, attempt, counts, effect>>

Ingest(w) ==
  \/ Start(w) \/ ChooseKey(w) \/ Create(w) \/ CreateLoses(w) \/ CountCreated(w)
  \/ OnCreated(w) \/ DeclareCreated(w)
  \/ CheckAccess(w) \/ ReadKeys(w) \/ ReadColumns(w) \/ AddColumn(w) \/ Insert(w)
  \/ DeclareFirst(w) \/ Begin(w) \/ Commit(w) \/ Conflict(w)

Next == \E w \in Writers : Ingest(w)

Fairness == \A w \in Writers : WF_vars(Ingest(w))

Spec == Init /\ [][Next]_vars
FairSpec == Spec /\ Fairness

----------------------------------------------------------------------------
(* Properties *)

Ids == {r.id : r \in First} \cup (Writers \X Nat)
Rows == [id : Ids, by : Writers, pos : Nat \ {0}, a : Nat, b : Nat, x : {"value", "null"}]

TypeOK ==
  /\ exists \in BOOLEAN /\ hasX \in BOOLEAN /\ merges \in Nat
  /\ \A r \in table \ First : r \in Rows
  /\ table # {} => exists
  /\ declared \in KeyColumns \cup {None}
  /\ \A w \in Writers : req[w] \in Asks[w]
  /\ pc \in [Writers -> {"idle", "choose", "create", "count", "acl", "declare", "access", "keys",
                         "columns", "alter", "insert", "setKeys", "begin", "commit", "done"}]
  /\ key \in [Writers -> KeyColumns \cup {None}]
  /\ seesX \in [Writers -> BOOLEAN] /\ writesX \in [Writers -> BOOLEAN]
  /\ attempt \in [Writers -> 0..Attempts]
  /\ counts \in [Writers -> Counts]
  /\ answer \in [Writers -> Answers \cup {None}]
  /\ effect \in [Writers -> Counts \cup {None}]

\* Rows that an upsert or a dedupe inserted.
KeyedRows == {r \in table : r.id[1] \in Writers /\ Keyed(r.id[1])}

\* Keyed writes never duplicate a key among the rows they insert, however they
\* overlap and are retried: "keys never end up duplicated by concurrent keyed
\* writes" (README.md section 9.2).
KeysUnique ==
  declared # None =>
    \A r, s \in KeyedRows : r[declared] = s[declared] => r = s

\* The answer to a keyed write counts what its batch did, also after retries:
\* test-upsert.js adds up "inserted" over concurrent writers.
CountsExact ==
  \A w \in Writers : answer[w] = "ok" /\ attempt[w] > 0 => counts[w] = effect[w]

\* What the answers promise of the table: keys are unique and counts exact.
IngestSafe == KeysUnique /\ CountsExact

\* Every request whose key differs from the key of the table is refused (409), so
\* that all rows are written by the declared key.
OneKey ==
  \A w \in Writers : answer[w] = "ok" /\ Keyed(w) => key[w] = declared

\* A column that the batch brings is stored with its rows: it is skipped only for
\* an incompatible type.
ColumnsStored ==
  \A w \in Writers : answer[w] = "ok" /\ req[w].x => writesX[w]

\* The batches take effect as KeyedTable says, one at a time, each as a whole and
\* with the answer that belongs to it.  For requests that go by column a.
Promise ==
  INSTANCE KeyedTable WITH
    Key <- "a",
    asked <- req,
    outcome <- [w \in Writers |->
                  IF answer[w] = "ok" THEN "ok"
                  ELSE IF answer[w] # None THEN "rejected"
                  ELSE IF effect[w] # None THEN "applied" ELSE "open"]

Atomic == Promise!Spec

\* Every request is answered: retries end, and no request waits for another.
Answered == \A w \in Writers : <>(answer[w] # None)
============================================================================
