----------------------------- MODULE RecordBlobs ----------------------------
(***************************************************************************)
(* Records with a BLOB that is kept as a file (USE_FILESYSTEM_BLOBS=1):    *)
(* the routes of src/index.js that upload, download, change and delete them,*)
(* and the prune job of src/console/retention.js that deletes rows and     *)
(* their files.                                                            *)
(*                                                                         *)
(* Every statement runs on its own, so requests interleave between them.   *)
(* A file is known by the upload that wrote it.  Access to the table is    *)
(* Access' matter; column conversion and metadata columns, which touch     *)
(* neither the rows nor the files, are left out.                           *)
(***************************************************************************)
EXTENDS FiniteSets, Integers

CONSTANTS
  Requests,     \* requests and prune jobs, each served once
  Records,      \* values of the id column
  PathOf,       \* Records -> paths: ids that differ only in unsafe characters share one
  BlobAsks,     \* what the requests may ask: functions to [op, id]
  SafetyLimit,  \* the prune rule's safetyLimit
  Earlier,      \* the upload that wrote what there is at first
  NoFile,
  MaxBlobFaults \* bound: statements and calls that fail

VARIABLES
  ask, reached,      \* what each request asks, and its next statement
  seenRow,         \* ids a request read and still acts on
  heard,        \* what each download was answered
  hasTable, hasColumn,
  recordRows,         \* of the table: [by, id, old], the age being what a rule prunes by
  blobFiles,        \* path -> the upload that wrote it, or NoFile
  blobFaults,
  calm,         \* history: requests no change of the same record or file overlapped,
  last,         \*   the last upload of each record, or NoFile,
  settled       \*   records whose last change overlapped no other and did not fail

bvars == <<ask, reached, seenRow, heard, hasTable, hasColumn, recordRows, blobFiles, blobFaults,
           calm, last, settled>>

Ops == {"upload", "download", "remove", "patch", "drop", "prune"}
Paths == {PathOf[i] : i \in Records}

ASSUME BlobAssumption ==
  BlobAsks \subseteq [Requests -> [op : Ops, id : Records]] /\ DOMAIN PathOf = Records

Id(r) == ask[r].id
RowsAt(i) == {w \in recordRows : w.id = i}
OldRows == {w \in recordRows : w.old}
RecordIds(R) == {w.id : w \in R}

Changes(r) == ask[r].op # "download"
Active(r) == reached[r] \notin {"idle", "done", "failed"}
Meet(q, r) == "prune" \in {ask[q].op, ask[r].op} \/ PathOf[Id(q)] = PathOf[Id(r)]

FirstStep == [upload |-> "table", download |-> "select", remove |-> "select",
              patch |-> "patch", drop |-> "delete", prune |-> "evaluate"]

BlobInit ==
  /\ ask \in BlobAsks
  /\ reached = [r \in Requests |-> "idle"]
  /\ seenRow = [r \in Requests |-> {}]
  /\ heard = [r \in Requests |-> NoFile]
  /\ hasTable \in BOOLEAN /\ hasColumn = hasTable
  /\ \E S \in SUBSET Records :
       /\ S # {} => hasTable
       /\ \A i, j \in S : PathOf[i] = PathOf[j] => i = j
       /\ recordRows = {[by |-> Earlier, id |-> i, old |-> TRUE] : i \in S}
       /\ blobFiles = [p \in Paths |-> IF \E i \in S : PathOf[i] = p THEN Earlier ELSE NoFile]
       /\ last = [i \in Records |-> IF i \in S THEN Earlier ELSE NoFile]
  /\ blobFaults = 0
  /\ calm = {}
  /\ settled = Records

Go(r, s) == reached' = [reached EXCEPT ![r] = s]

\* The ids whose file r may have changed or removed.
Touched(r) == IF ask[r].op = "prune" THEN Records
              ELSE {i \in Records : PathOf[i] = PathOf[Id(r)]}

\* A change that is over: its record is settled if nothing overlapped it.
Settle(r) ==
  IF r \notin calm THEN settled' = settled \ Touched(r)
  ELSE settled' = CASE ask[r].op \in {"upload", "remove"} -> (settled \ Touched(r)) \cup {Id(r)}
                    [] ask[r].op = "drop" -> settled \cup {Id(r)}
                    [] OTHER -> settled

FinishRequest(r) == Go(r, "done") /\ Settle(r)

BeginRequest(r) ==
  /\ reached[r] = "idle"
  /\ Go(r, FirstStep[ask[r].op])
  /\ LET met == {q \in Requests \ {r} : Active(q) /\ Meet(q, r)}
     IN calm' = (calm \ IF Changes(r) THEN met ELSE {})
                  \cup {s \in {r} : \A q \in met : ~Changes(q)}
  /\ UNCHANGED <<ask, seenRow, heard, hasTable, hasColumn, recordRows, blobFiles, blobFaults, last, settled>>

(***************************************************************************)
(* POST /blobs                                                             *)
(***************************************************************************)
ProbeTable(r) ==
  /\ reached[r] = "table"
  /\ Go(r, IF hasTable THEN "known" ELSE "unknown")
  /\ UNCHANGED <<hasTable, hasColumn, seenRow, heard, recordRows, blobFiles, last, settled>>

ProbeColumn(r) ==
  /\ reached[r] \in {"known", "unknown"}
  /\ Go(r, IF hasColumn THEN "count" ELSE IF reached[r] = "known" THEN "alter" ELSE "create")
  /\ UNCHANGED <<hasTable, hasColumn, seenRow, heard, recordRows, blobFiles, last, settled>>

\* CREATE TABLE: "already exists" when another request was first.
CreateTable(r) ==
  /\ reached[r] = "create"
  /\ IF hasTable THEN Go(r, "alter") /\ UNCHANGED <<hasTable, hasColumn>>
                 ELSE Go(r, "count") /\ hasTable' = TRUE /\ hasColumn' = TRUE
  /\ UNCHANGED <<seenRow, heard, recordRows, blobFiles, last, settled>>

AddBlobColumn(r) ==
  /\ reached[r] = "alter"
  /\ Go(r, "count") /\ hasColumn' = TRUE
  /\ UNCHANGED <<hasTable, seenRow, heard, recordRows, blobFiles, last, settled>>

CountRows(r) ==
  /\ reached[r] = "count"
  /\ seenRow' = [seenRow EXCEPT ![r] = RecordIds(RowsAt(Id(r)))]
  /\ Go(r, "write")
  /\ UNCHANGED <<hasTable, hasColumn, heard, recordRows, blobFiles, last, settled>>

\* Mutant: an upload of a record that is there keeps its file.
WrittenOnce(r) == IF seenRow[r] = {} THEN r ELSE blobFiles[PathOf[Id(r)]]

\* What fs.writeFile leaves at r's path.
WrittenRow(r) == r

WriteBlob(r) ==
  /\ reached[r] = "write"
  /\ blobFiles' = [blobFiles EXCEPT ![PathOf[Id(r)]] = WrittenRow(r)]
  /\ Go(r, "store")
  /\ UNCHANGED <<hasTable, hasColumn, seenRow, heard, recordRows, last, settled>>

\* UPDATE or INSERT, as the count said; both set "updated".
StoreRow(r) ==
  /\ reached[r] = "store"
  /\ recordRows' = IF seenRow[r] # {}
             THEN (recordRows \ RowsAt(Id(r))) \cup {[w EXCEPT !.old = FALSE] : w \in RowsAt(Id(r))}
             ELSE recordRows \cup {[by |-> r, id |-> Id(r), old |-> FALSE]}
  /\ last' = [last EXCEPT ![Id(r)] = r]
  /\ FinishRequest(r)
  /\ UNCHANGED <<hasTable, hasColumn, seenRow, heard, blobFiles>>

(***************************************************************************)
(* GET, DELETE and PATCH                                                   *)
(***************************************************************************)
SelectPath(r) ==
  /\ reached[r] = "select"
  /\ Go(r, IF RowsAt(Id(r)) = {} THEN "done"
           ELSE IF ask[r].op = "remove" THEN "unlink" ELSE "read")
  /\ UNCHANGED <<hasTable, hasColumn, seenRow, heard, recordRows, blobFiles, last, settled>>

ReadFile(r) ==
  /\ reached[r] = "read"
  /\ heard' = [heard EXCEPT ![r] = blobFiles[PathOf[Id(r)]]]
  /\ Go(r, "done")
  /\ UNCHANGED <<hasTable, hasColumn, seenRow, recordRows, blobFiles, last, settled>>

Unlink(r) ==
  /\ reached[r] = "unlink"
  /\ blobFiles' = [blobFiles EXCEPT ![PathOf[Id(r)]] = NoFile]
  /\ Go(r, "delete")
  /\ UNCHANGED <<hasTable, hasColumn, seenRow, heard, recordRows, last, settled>>

\* DELETE of the whole record; DELETE /records leaves its file behind.
DeleteRows(r) ==
  /\ reached[r] = "delete"
  /\ recordRows' = recordRows \ RowsAt(Id(r))
  /\ last' = [last EXCEPT ![Id(r)] = NoFile]
  /\ FinishRequest(r)
  /\ UNCHANGED <<hasTable, hasColumn, seenRow, heard, blobFiles>>

RemoveRecord(r) == ask[r].op = "remove" /\ DeleteRows(r)
DropRecord(r) == ask[r].op = "drop" /\ DeleteRows(r)

Patch(r) ==
  /\ reached[r] = "patch"
  /\ recordRows' = (recordRows \ RowsAt(Id(r))) \cup {[w EXCEPT !.old = FALSE] : w \in RowsAt(Id(r))}
  /\ Go(r, "done")
  /\ UNCHANGED <<hasTable, hasColumn, seenRow, heard, blobFiles, last, settled>>

(***************************************************************************)
(* A prune job on the table                                                *)
(***************************************************************************)
Evaluate(r) ==
  /\ reached[r] = "evaluate"
  /\ Go(r, IF Cardinality(OldRows) \in 1..SafetyLimit THEN "collect" ELSE "done")
  /\ UNCHANGED <<hasTable, hasColumn, seenRow, heard, recordRows, blobFiles, last, settled>>

CollectFiles(r) ==
  /\ reached[r] = "collect"
  /\ seenRow' = [seenRow EXCEPT ![r] = RecordIds(OldRows)]
  /\ Go(r, "purge")
  /\ UNCHANGED <<hasTable, hasColumn, heard, recordRows, blobFiles, last, settled>>

\* The records all of whose rows are old.
Purged == RecordIds(OldRows) \ RecordIds(recordRows \ OldRows)

\* DELETE evaluates the predicate again.
Purge(r) ==
  /\ reached[r] = "purge"
  /\ recordRows' = recordRows \ OldRows
  /\ last' = [i \in Records |-> IF i \in Purged THEN NoFile ELSE last[i]]
  /\ settled' = settled \ {i \in Records \ Purged :
                             \E j \in RecordIds(OldRows) : PathOf[i] = PathOf[j]}
  /\ Go(r, "sweep")
  /\ UNCHANGED <<hasTable, hasColumn, seenRow, heard, blobFiles>>

SweepFile(r) ==
  /\ reached[r] = "sweep"
  /\ IF seenRow[r] = {}
     THEN FinishRequest(r) /\ UNCHANGED <<seenRow, blobFiles>>
     ELSE \E i \in seenRow[r] :
            /\ blobFiles' = [blobFiles EXCEPT ![PathOf[i]] = NoFile]
            /\ seenRow' = [seenRow EXCEPT ![r] = @ \ {i}]
            /\ UNCHANGED <<reached, settled>>
  /\ UNCHANGED <<hasTable, hasColumn, heard, recordRows, last>>

\* A statement or a file call throws: the request answers 500.
RequestFails(r) ==
  /\ Active(r) /\ blobFaults < MaxBlobFaults
  /\ blobFaults' = blobFaults + 1
  /\ Go(r, "failed")
  /\ settled' = IF Changes(r) THEN settled \ Touched(r) ELSE settled
  /\ UNCHANGED <<ask, seenRow, heard, hasTable, hasColumn, recordRows, blobFiles, calm, last>>

\* Rows pass the rule's age.
Age ==
  \E w \in recordRows :
    /\ ~w.old
    /\ recordRows' = (recordRows \ {w}) \cup {[w EXCEPT !.old = TRUE]}
    /\ UNCHANGED <<ask, reached, seenRow, heard, hasTable, hasColumn, blobFiles, blobFaults,
                   calm, last, settled>>

Statement(r) ==
  /\ \/ ProbeTable(r) \/ ProbeColumn(r) \/ CreateTable(r) \/ AddBlobColumn(r)
     \/ CountRows(r) \/ WriteBlob(r) \/ StoreRow(r)
     \/ SelectPath(r) \/ ReadFile(r) \/ Unlink(r)
     \/ RemoveRecord(r) \/ DropRecord(r) \/ Patch(r)
     \/ Evaluate(r) \/ CollectFiles(r) \/ Purge(r) \/ SweepFile(r)
  /\ UNCHANGED <<ask, blobFaults, calm>>

BlobNext ==
  \/ \E r \in Requests : BeginRequest(r) \/ Statement(r) \/ RequestFails(r)
  \/ Age

BlobSpec == BlobInit /\ [][BlobNext]_bvars

-----------------------------------------------------------------------------
BlobTypeOK ==
  /\ reached \in [Requests -> {"idle", "done", "failed", "table", "known", "unknown", "create",
       "alter", "count", "write", "store", "select", "read", "unlink", "delete", "patch",
       "evaluate", "collect", "purge", "sweep"}]
  /\ \A r \in Requests : ask[r].op \in Ops /\ Id(r) \in Records /\ seenRow[r] \subseteq Records
  /\ hasTable \in BOOLEAN /\ hasColumn \in BOOLEAN
  /\ \A w \in recordRows : w.by \in Requests \cup {Earlier} /\ w.id \in Records /\ w.old \in BOOLEAN
  /\ \A p \in Paths : blobFiles[p] \in Requests \cup {Earlier, NoFile}
  /\ settled \subseteq Records /\ calm \subseteq Requests

\* A download that no change of its record overlapped answers what the last
\* upload of it stored, and 404 after it was deleted or pruned, whatever other
\* requests and prune jobs did meanwhile; until a later change settles it, a
\* record is excepted whose last change overlapped another or failed, whose
\* file another record's id shares, or of which a prune job deleted one of two
\* rows (src/index.js, POST, GET and DELETE /blobs; src/console/retention.js,
\* deleteRows).
DownloadsTrue ==
  [][\A r \in calm : /\ reached[r] # "done" /\ reached'[r] = "done"
                     /\ ask[r].op = "download" /\ Id(r) \in settled
                     => heard'[r] = last[Id(r)]]_bvars
=============================================================================
