---------------------------- MODULE IngestProofs ----------------------------
(***************************************************************************)
(* Proofs about what an ingest stores.  KeyedIngest, for any number of     *)
(* requests, batches, attempts and faults: type correctness; the counts of *)
(* an answer are those of the commit; where the requests agree on the key  *)
(* of the table, keyed writes never duplicate a key; and where they also   *)
(* keep apart what DuckLake does not compare, KeyedTable is implemented.   *)
(* StructTypes, for any batches and any types: no nested field of a stored *)
(* batch is dropped, whatever batches widen the column at once.            *)
(***************************************************************************)
EXTENDS KeyedIngest, StructTypes, FiniteSetTheorems, WellFoundedInduction, TLAPS

-----------------------------------------------------------------------------
(* Rows of a batch *)

\* A set of positions has a least one.
LEMMA Least ==
  ASSUME NEW T, T \subseteq Nat, T # {}
  PROVE  \E x \in T : \A y \in T : x <= y
<1>1. PICK x \in T : \A y \in T : ~ (<<y, x>> \in OpToRel(<, Nat))
  BY NatLessThanWellFounded, WFMin
<1>2. \A y \in T : ~(y < x)
  BY <1>1 DEF OpToRel
<1> QED
  BY <1>2

\* A set of positions in a sequence has a greatest one.
LEMMA Greatest ==
  ASSUME NEW n \in Nat, NEW T, T \subseteq 1..n, T # {}
  PROVE  \E x \in T : \A y \in T : y <= x
<1> DEFINE U == {m \in 0..n : \E x \in T : m = n - x}
<1>1. U \subseteq Nat
  OBVIOUS
<1>a. U # {}
  <2>1. PICK x \in T : TRUE
    OBVIOUS
  <2>2. n - x \in U
    BY <2>1
  <2> QED
    BY <2>2
<1>2. PICK m \in U : \A y \in U : m <= y
  BY <1>1, <1>a, Least
<1>3. PICK x \in T : m = n - x
  OBVIOUS
<1>4. ASSUME NEW y \in T PROVE y <= x
  <2>1. n - y \in U
    OBVIOUS
  <2> QED
    BY <1>2, <1>3, <2>1
<1> QED
  BY <1>4

\* What a batch brings is a finite set of rows, one at each of its positions.
LEMMA BatchShape ==
  ASSUME NEW w \in Writers, req[w] \in Asks[w], NEW x \in BOOLEAN
  PROVE  /\ BatchRows(w, x) \subseteq Rows
         /\ BatchRows(w, x) # {}
         /\ \A r \in BatchRows(w, x) : r.id = <<w, r.pos>> /\ r.pos \in 1..Len(req[w].batch)
         /\ \A r, s \in BatchRows(w, x) : r.pos = s.pos => r = s
<1>1. /\ DOMAIN req[w].batch = 1..Len(req[w].batch)
      /\ Len(req[w].batch) \in Nat \ {0}
      /\ \A i \in 1..Len(req[w].batch) : req[w].batch[i] \in [a : Nat, b : Nat]
  <2>1. req[w].batch \in Seq([a : Nat, b : Nat]) /\ req[w].batch # <<>>
    BY IngestAssumption
  <2> DEFINE batch == req[w].batch
             S == [a : Nat, b : Nat]
  <2> HIDE DEF batch, S
  <2>2. batch \in Seq(S) /\ batch # <<>>
    BY <2>1 DEF batch, S
  <2>3. DOMAIN batch = 1..Len(batch) /\ Len(batch) \in Nat \ {0} /\ \A i \in 1..Len(batch) : batch[i] \in S
    BY <2>2
  <2> QED
    BY <2>3 DEF batch, S
<1> DEFINE row(i) == [id |-> <<w, i>>, by |-> w, pos |-> i, a |-> req[w].batch[i].a,
                      b |-> req[w].batch[i].b,
                      x |-> IF req[w].x /\ x THEN "value" ELSE "null"]
<1>2. BatchRows(w, x) = {row(i) : i \in 1..Len(req[w].batch)}
  BY <1>1 DEF BatchRows
<1>3. ASSUME NEW i \in 1..Len(req[w].batch)
      PROVE  row(i) \in Rows /\ row(i).id = <<w, row(i).pos>> /\ row(i).pos = i
  <2>1. req[w].batch[i].a \in Nat /\ req[w].batch[i].b \in Nat /\ i \in Nat \ {0}
    BY <1>1
  <2>2. <<w, i>> \in Ids
    BY <2>1 DEF Ids
  <2> QED
    BY <2>1, <2>2 DEF Rows
<1>4. 1 \in 1..Len(req[w].batch)
  BY <1>1
<1> HIDE DEF row
<1> QED
  BY <1>2, <1>3, <1>4

LEMMA BatchFinite ==
  ASSUME NEW w \in Writers, req[w] \in Asks[w], NEW x
  PROVE  IsFiniteSet(BatchRows(w, x))
<1>1. /\ DOMAIN req[w].batch = 1..Len(req[w].batch)
      /\ Len(req[w].batch) \in Nat
  BY IngestAssumption
<1> DEFINE row(i) == [id |-> <<w, i>>, by |-> w, pos |-> i, a |-> req[w].batch[i].a,
                      b |-> req[w].batch[i].b,
                      x |-> IF req[w].x /\ x THEN "value" ELSE "null"]
           f == [i \in 1..Len(req[w].batch) |-> row(i)]
<1>2. BatchRows(w, x) = {row(i) : i \in 1..Len(req[w].batch)}
  BY <1>1 DEF BatchRows
<1> HIDE DEF row
<1>3. f \in Surjection(1..Len(req[w].batch), BatchRows(w, x))
  BY <1>2 DEF Surjection
<1> QED
  BY <1>1, <1>3, FS_NatSurjection DEF ExistsSurjection

\* Deduplicated, a batch has one row for each of its keys.
LEMMA DedupOne ==
  ASSUME NEW w \in Writers, req[w] \in Asks[w], NEW x \in BOOLEAN, NEW k, NEW mode,
         NEW r \in Dedupped(BatchRows(w, x), k, mode),
         NEW s \in Dedupped(BatchRows(w, x), k, mode), r[k] = s[k]
  PROVE  r = s
<1>1. r.pos = s.pos
  BY BatchShape DEF Dedupped
<1> QED
  BY <1>1, BatchShape DEF Dedupped

LEMMA DedupAll ==
  ASSUME NEW w \in Writers, req[w] \in Asks[w], NEW x \in BOOLEAN, NEW k, NEW mode,
         NEW r \in BatchRows(w, x)
  PROVE  \E s \in Dedupped(BatchRows(w, x), k, mode) : s[k] = r[k]
<1> DEFINE T == {i \in 1..Len(req[w].batch) :
                   \E s \in BatchRows(w, x) : s[k] = r[k] /\ s.pos = i}
<1>1. T \subseteq Nat /\ T # {} /\ Len(req[w].batch) \in Nat
  <2>1. Len(req[w].batch) \in Nat
    BY BatchShape, IngestAssumption
  <2>2. r.pos \in T
    BY BatchShape
  <2> QED
    BY <2>1, <2>2
<1>2. PICK lo \in T : \A y \in T : lo <= y
  BY <1>1, Least
<1>3. PICK hi \in T : \A y \in T : y <= hi
  BY <1>1, Greatest
<1>4. \A s \in BatchRows(w, x) : s[k] = r[k] => s.pos \in T
  BY BatchShape
<1>5. CASE mode = "upsert"
  BY <1>3, <1>4, <1>5, SMTT(60) DEF Dedupped
<1>6. CASE mode # "upsert"
  <2>1. PICK s \in BatchRows(w, x) : s[k] = r[k] /\ s.pos = lo
    OBVIOUS
  <2>2. \A q \in BatchRows(w, x) : q[k] = s[k] => q.pos >= s.pos
    BY <1>1, <1>2, <1>4, <2>1
  <2> QED
    BY <1>6, <2>1, <2>2 DEF Dedupped
<1> QED
  BY <1>5, <1>6
-----------------------------------------------------------------------------
(* Types, and what a request knows of itself *)

Snapshots == [rows : SUBSET (First \cup Rows), merges : Nat, hasX : BOOLEAN]

\* What holds of the snapshots of transactions, and of rows by their type.
SnapshotsTyped == snapshot \in [Writers -> Snapshots]

\* The table can be counted, now and in every snapshot.
TablesFinite == IsFiniteSet(table) /\ \A w \in Writers : IsFiniteSet(snapshot[w].rows)

\* Labels of steps that find the table there.
OnTable == {"count", "acl", "declare", "access", "keys", "columns", "alter", "insert",
            "setKeys", "begin", "commit"}

\* How far a request has come: who is answered, who has begun transactions, who
\* goes by a key and knows it, and that the table is there.
Local(w) ==
  /\ answer[w] # None <=> pc[w] = "done"
  /\ attempt[w] > 0 => pc[w] \in {"begin", "commit", "done"}
  /\ pc[w] = "begin" => attempt[w] < Attempts
  /\ pc[w] \in {"choose", "count", "declare", "setKeys", "begin", "commit"} => Keyed(w)
  /\ pc[w] = "insert" => ~Keyed(w)
  /\ pc[w] \in {"count", "declare", "begin", "commit"} => key[w] # None
  /\ pc[w] \in {"create", "acl"} /\ Keyed(w) => key[w] # None
  /\ pc[w] \in {"columns", "alter"} /\ Keyed(w) /\ key[w] = None => req[w].key # None
  /\ pc[w] = "setKeys" => req[w].key # None
  /\ pc[w] \in OnTable => exists

\* The counts in hand are those of the snapshot in hand, and what was answered
\* with success is what was committed.
CountsOfSnapshot(w) ==
  /\ pc[w] = "commit" => counts[w] = Counted(w, snapshot[w].rows)
  /\ answer[w] = "ok" /\ attempt[w] > 0 => counts[w] = effect[w]

\* The inductive invariant of what holds for any requests and faults.
CInv ==
  /\ TypeOK
  /\ SnapshotsTyped
  /\ TablesFinite
  /\ \A w \in Writers : Local(w) /\ CountsOfSnapshot(w)

\* What the counts query returns is a pair of numbers.
LEMMA CountedType ==
  ASSUME TypeOK, NEW w \in Writers, NEW rows
  PROVE  Counted(w, rows) \in Counts
<1>1. IsFiniteSet(BatchRows(w, writesX[w]))
  BY BatchFinite DEF TypeOK
<1>2. Source(w) \subseteq BatchRows(w, writesX[w])
  BY DEF Source, Dedupped
<1>3. ASSUME NEW T, T \subseteq Source(w) PROVE Cardinality(T) \in Nat
  BY <1>1, <1>2, <1>3, FS_Subset, FS_CardinalityType
<1>4. Matching(Source(w), rows, key[w]) \subseteq Source(w)
  BY DEF Matching
<1> QED
  BY <1>3, <1>4 DEF Counted, Counts

\* The rows a batch brings to the table are typed, and there are a number of them.
LEMMA BatchType ==
  ASSUME TypeOK, NEW w \in Writers, NEW x \in BOOLEAN, NEW T, T \subseteq BatchRows(w, x)
  PROVE  T \subseteq Rows /\ Cardinality(T) \in Nat
<1>1. req[w] \in Asks[w]
  BY DEF TypeOK
<1>2. IsFiniteSet(BatchRows(w, x)) /\ BatchRows(w, x) \subseteq Rows
  BY <1>1, BatchFinite, BatchShape
<1> QED
  BY <1>2, FS_Subset, FS_CardinalityType

\* So are the rows of a MERGE.
LEMMA MergedType ==
  ASSUME TypeOK, NEW w \in Writers, NEW rows, rows \subseteq First \cup Rows,
         NEW k, NEW mode
  PROVE  Merged(rows, Source(w), k, mode) \subseteq First \cup Rows
<1>1. Source(w) \subseteq Rows
  BY BatchType DEF Source, Dedupped, TypeOK
<1>2. ASSUME NEW r \in Matching(rows, Source(w), k)
      PROVE  [CHOOSE x \in Source(w) : x[k] = r[k] EXCEPT !.id = r.id] \in Rows
  <2>1. PICK s \in Source(w) : s[k] = r[k]
    BY DEF Matching
  <2> DEFINE c == CHOOSE x \in Source(w) : x[k] = r[k]
  <2>2. c \in Rows
    BY <1>1, <2>1
  <2>3. r.id \in Ids
    BY DEF Matching, Ids, Rows
  <2> HIDE DEF c
  <2>4. [c EXCEPT !.id = r.id] \in Rows
    BY <2>2, <2>3 DEF Rows
  <2> QED
    BY <2>4 DEF c
<1>3. Update(rows, Source(w), k) \subseteq Rows
  BY <1>2 DEF Update
<1> QED
  BY <1>1, <1>3 DEF Merged, Matching

\* And what a MERGE leaves is finite.
LEMMA MergedFinite ==
  ASSUME TypeOK, NEW w \in Writers, NEW rows, IsFiniteSet(rows), NEW k, NEW mode
  PROVE  IsFiniteSet(Merged(rows, Source(w), k, mode))
<1>1. IsFiniteSet(Source(w))
  <2>1. IsFiniteSet(BatchRows(w, writesX[w]))
    BY BatchFinite DEF TypeOK
  <2> QED
    BY <2>1, FS_Subset DEF Source, Dedupped
<1> DEFINE M == Matching(rows, Source(w), k)
           new(r) == [CHOOSE s \in Source(w) : s[k] = r[k] EXCEPT !.id = r.id]
           f == [r \in M |-> new(r)]
<1>2. IsFiniteSet(M) /\ IsFiniteSet(rows \ M)
  BY FS_Subset DEF Matching
<1>3. Update(rows, Source(w), k) = {new(r) : r \in M}
  BY DEF Update
<1> HIDE DEF new, M
<1>4. f \in Surjection(M, Update(rows, Source(w), k))
  BY <1>3 DEF Surjection
<1>5. IsFiniteSet(Update(rows, Source(w), k))
  BY <1>2, <1>4, FS_Surjection
<1>6. IsFiniteSet(Source(w) \ Matching(Source(w), rows, k))
  BY <1>1, FS_Subset
<1> QED
  BY <1>2, <1>5, <1>6, FS_Union DEF Merged, M

LEMMA InitC == Init => CInv
<1> SUFFICES ASSUME Init PROVE CInv
  OBVIOUS
<1>1. TypeOK
  <2>1. exists \in BOOLEAN /\ (table # {} => exists) /\ table \ First = {}
    BY DEF Init
  <2>2. NoCounts \in Counts /\ 0 \in 0..Attempts
    BY IngestAssumption DEF NoCounts, Counts
  <2>3. declared \in KeyColumns \cup {None}
    BY IngestAssumption DEF Init
  <2> QED
    BY <2>1, <2>2, <2>3 DEF Init, TypeOK
<1>2. SnapshotsTyped
  BY DEF Init, SnapshotsTyped, Snapshots, NoSnapshot
<1>3. ASSUME NEW w \in Writers PROVE Local(w) /\ CountsOfSnapshot(w)
  BY IngestAssumption DEF Init, Local, CountsOfSnapshot, OnTable
<1>4. TablesFinite
  BY IngestAssumption, FS_EmptySet DEF Init, TablesFinite, NoSnapshot
<1> QED
  BY <1>1, <1>2, <1>3, <1>4 DEF CInv
\* A count depends on the request, its key and its columns only.
LEMMA CountedKept ==
  ASSUME NEW u, req'[u] = req[u], key'[u] = key[u], writesX'[u] = writesX[u]
  PROVE  \A rows : Counted(u, rows)' = Counted(u, rows)
  BY DEF Counted, Source, Matching, Dedupped, BatchRows

\* The steps of a request leave what the others know alone.
LEMMA OthersKept ==
  ASSUME TypeOK, NEW w \in Writers, Ingest(w), NEW u \in Writers \ {w}
  PROVE  /\ pc'[u] = pc[u] /\ req' = req /\ key'[u] = key[u] /\ writesX'[u] = writesX[u]
         /\ snapshot'[u] = snapshot[u] /\ attempt'[u] = attempt[u] /\ counts'[u] = counts[u]
         /\ answer'[u] = answer[u] /\ effect'[u] = effect[u]
         /\ exists => exists'
<1> USE DEF TypeOK, Goto, Reply, lake
<1>1. CASE Start(w)
  BY <1>1 DEF Start
<1>2. CASE ChooseKey(w)
  BY <1>2 DEF ChooseKey
<1>3. CASE Create(w)
  BY <1>3 DEF Create
<1>4. CASE CreateLoses(w)
  BY <1>4 DEF CreateLoses
<1>5. CASE CountCreated(w)
  BY <1>5 DEF CountCreated
<1>6. CASE OnCreated(w)
  BY <1>6 DEF OnCreated
<1>7. CASE DeclareCreated(w)
  BY <1>7 DEF DeclareCreated, SetTableKeys
<1>8. CASE CheckAccess(w)
  BY <1>8 DEF CheckAccess
<1>9. CASE ReadKeys(w)
  BY <1>9 DEF ReadKeys
<1>10. CASE ReadColumns(w) \/ AddColumn(w)
  BY <1>10 DEF ReadColumns, AddColumn
<1>11. CASE Insert(w)
  BY <1>11 DEF Insert
<1>12. CASE DeclareFirst(w)
  BY <1>12 DEF DeclareFirst
<1>13. CASE Begin(w)
  BY <1>13 DEF Begin
<1>14. CASE Commit(w)
  BY <1>14 DEF Commit
<1>15. CASE Conflict(w)
  BY <1>15 DEF Conflict
<1> QED
  BY <1>1, <1>2, <1>3, <1>4, <1>5, <1>6, <1>7, <1>8, <1>9, <1>10, <1>11, <1>12,
     <1>13, <1>14, <1>15 DEF Ingest

Labels == {"idle", "choose", "create", "count", "acl", "declare", "access", "keys",
           "columns", "alter", "insert", "setKeys", "begin", "commit", "done"}

\* A request goes on or is answered, and may learn its key.
Says(w) ==
  \/ \E l \in Labels : pc' = [pc EXCEPT ![w] = l] /\ answer' = answer
  \/ \E a \in Answers : answer' = [answer EXCEPT ![w] = a] /\ pc' = [pc EXCEPT ![w] = "done"]
Learns(w) == key' = key \/ \E k \in KeyColumns \cup {None} : key' = [key EXCEPT ![w] = k]

\* A step that changes no more than that, and the declared key, keeps the types.
LEMMA SaysTyped ==
  ASSUME TypeOK, SnapshotsTyped, NEW w \in Writers, Says(w), Learns(w),
         declared' \in KeyColumns \cup {None},
         UNCHANGED <<exists, table, hasX, merges, req, seesX, writesX, snapshot, attempt,
                     counts, effect>>
  PROVE  TypeOK' /\ SnapshotsTyped'
<1>1. pc \in [Writers -> Labels] /\ answer \in [Writers -> Answers \cup {None}]
      /\ key \in [Writers -> KeyColumns \cup {None}]
  BY DEF TypeOK, Labels
<1>2. "done" \in Labels
  BY DEF Labels
<1>3. pc' \in [Writers -> Labels] /\ answer' \in [Writers -> Answers \cup {None}]
  BY <1>1, <1>2 DEF Says
<1>4. key' \in [Writers -> KeyColumns \cup {None}]
  BY <1>1 DEF Learns
<1> QED
  BY <1>3, <1>4 DEF TypeOK, SnapshotsTyped, Labels

\* Each step keeps the types and what its own request knows.
LEMMA OwnStep ==
  ASSUME CInv, NEW w \in Writers, Ingest(w)
  PROVE  TypeOK' /\ SnapshotsTyped' /\ Local(w)' /\ CountsOfSnapshot(w)'
<1> USE IngestAssumption DEF Goto, Reply, lake, OnTable, Keyed
<1>0. /\ TypeOK /\ SnapshotsTyped /\ Local(w) /\ CountsOfSnapshot(w)
      /\ req[w] \in Asks[w]
  BY DEF CInv, TypeOK
<1>a. /\ None \notin KeyColumns /\ None \notin Answers
      /\ Answers = {"ok", "conflict", "mismatch", "nokey", "denied", "error"}
      /\ req[w].key \in KeyColumns \cup {None} /\ req[w].x \in BOOLEAN
      /\ Attempts \in Nat \ {0}
  BY <1>0 DEF Answers
<1>b. /\ pc \in [Writers -> Labels] /\ answer \in [Writers -> Answers \cup {None}]
      /\ declared \in KeyColumns \cup {None} /\ key \in [Writers -> KeyColumns \cup {None}]
      /\ hasX \in BOOLEAN /\ seesX \in [Writers -> BOOLEAN] /\ writesX \in [Writers -> BOOLEAN]
  BY <1>0 DEF TypeOK, Labels
<1>1. CASE Start(w)
  <2>1. TypeOK' /\ SnapshotsTyped'
    <3>1. Says(w)
      BY <1>a, <1>1 DEF Start, Says, Labels
    <3>2. Learns(w) /\ declared' \in KeyColumns \cup {None}
      BY <1>a, <1>b, <1>1 DEF Start, Learns
    <3>3. UNCHANGED <<exists, table, hasX, merges, req, seesX, writesX, snapshot, attempt,
                      counts, effect>>
      BY <1>1 DEF Start
    <3> QED
      BY <1>0, <3>1, <3>2, <3>3, SaysTyped
  <2>2. Local(w)' /\ CountsOfSnapshot(w)'
    BY <1>0, <1>a, <1>1 DEF Start, TypeOK, Local, CountsOfSnapshot
  <2> QED
    BY <2>1, <2>2
<1>2. CASE ChooseKey(w)
  <2>1. TypeOK' /\ SnapshotsTyped'
    <3>1. Says(w)
      BY <1>a, <1>2 DEF ChooseKey, Says, Labels
    <3>2. Learns(w) /\ declared' \in KeyColumns \cup {None}
      BY <1>a, <1>b, <1>2 DEF ChooseKey, Learns
    <3>3. UNCHANGED <<exists, table, hasX, merges, req, seesX, writesX, snapshot, attempt,
                      counts, effect>>
      BY <1>2 DEF ChooseKey
    <3> QED
      BY <1>0, <3>1, <3>2, <3>3, SaysTyped
  <2>2. Local(w)' /\ CountsOfSnapshot(w)'
    BY <1>0, <1>a, <1>2 DEF ChooseKey, TypeOK, Local, CountsOfSnapshot
  <2> QED
    BY <2>1, <2>2
<1>3. CASE Create(w)
  <2> DEFINE rows == BatchRows(w, TRUE)
             new == IF Keyed(w) THEN Dedupped(rows, key[w], req[w].mode) ELSE rows
  <2>1. new \subseteq BatchRows(w, TRUE) /\ rows \subseteq BatchRows(w, TRUE)
    BY DEF Dedupped
  <2>2. new \subseteq Rows /\ Cardinality(new) \in Nat /\ Cardinality(rows) \in Nat
    BY <1>0, <2>1, BatchType
  <2>3. /\ exists' = TRUE /\ table' = new /\ hasX' = req[w].x
        /\ writesX' = [writesX EXCEPT ![w] = req[w].x]
        /\ counts' = [counts EXCEPT ![w] = [inserted |-> Cardinality(rows), matched |-> 0]]
        /\ effect' = [effect EXCEPT ![w] = [inserted |-> Cardinality(new), matched |-> 0]]
        /\ pc[w] = "create"
        /\ pc' = [pc EXCEPT ![w] = IF Keyed(w) THEN "count" ELSE "acl"]
        /\ UNCHANGED <<declared, merges, req, key, seesX, snapshot, attempt, answer>>
    BY <1>3 DEF Create
  <2> HIDE DEF rows, new
  <2>4. TypeOK' /\ SnapshotsTyped'
    BY <1>0, <1>a, <2>2, <2>3 DEF TypeOK, SnapshotsTyped, Counts
  <2>5. Local(w)' /\ CountsOfSnapshot(w)'
    BY <1>0, <1>a, <2>3 DEF TypeOK, Local, CountsOfSnapshot
  <2> QED
    BY <2>4, <2>5
<1>4. CASE CreateLoses(w)
  <2>1. TypeOK' /\ SnapshotsTyped'
    <3>1. Says(w)
      BY <1>a, <1>4 DEF CreateLoses, Says, Labels
    <3>2. Learns(w) /\ declared' \in KeyColumns \cup {None}
      BY <1>a, <1>b, <1>4 DEF CreateLoses, Learns
    <3>3. UNCHANGED <<exists, table, hasX, merges, req, seesX, writesX, snapshot, attempt,
                      counts, effect>>
      BY <1>4 DEF CreateLoses
    <3> QED
      BY <1>0, <3>1, <3>2, <3>3, SaysTyped
  <2>2. Local(w)' /\ CountsOfSnapshot(w)'
    BY <1>0, <1>a, <1>4 DEF CreateLoses, TypeOK, Local, CountsOfSnapshot
  <2> QED
    BY <2>1, <2>2
<1>6. CASE OnCreated(w)
  <2>1. TypeOK' /\ SnapshotsTyped'
    <3>1. Says(w)
      BY <1>a, <1>6 DEF OnCreated, Says, Labels
    <3>2. Learns(w) /\ declared' \in KeyColumns \cup {None}
      BY <1>a, <1>b, <1>6 DEF OnCreated, Learns
    <3>3. UNCHANGED <<exists, table, hasX, merges, req, seesX, writesX, snapshot, attempt,
                      counts, effect>>
      BY <1>6 DEF OnCreated
    <3> QED
      BY <1>0, <3>1, <3>2, <3>3, SaysTyped
  <2>2. Local(w)' /\ CountsOfSnapshot(w)'
    <3>1. /\ pc[w] = "acl" /\ UNCHANGED <<exists, req, key, attempt, snapshot, counts, effect>>
          /\ \/ Keyed(w) /\ pc' = [pc EXCEPT ![w] = "declare"] /\ UNCHANGED answer
             \/ \E a \in Answers : answer' = [answer EXCEPT ![w] = a] /\ pc' = [pc EXCEPT ![w] = "done"]
      BY <1>6 DEF OnCreated, Answers
    <3>2. ~(attempt[w] > 0)
      BY <1>0, <3>1 DEF Local, TypeOK
    <3> QED
      BY <1>0, <1>a, <3>1, <3>2 DEF TypeOK, Local, CountsOfSnapshot
  <2> QED
    BY <2>1, <2>2
<1>7. CASE DeclareCreated(w)
  <2>1. TypeOK' /\ SnapshotsTyped'
    <3>1. Says(w)
      BY <1>a, <1>7 DEF DeclareCreated, SetTableKeys, Says, Labels
    <3>2. Learns(w) /\ declared' \in KeyColumns \cup {None}
      BY <1>a, <1>b, <1>7 DEF DeclareCreated, SetTableKeys, Learns
    <3>3. UNCHANGED <<exists, table, hasX, merges, req, seesX, writesX, snapshot, attempt,
                      counts, effect>>
      BY <1>7 DEF DeclareCreated, SetTableKeys
    <3> QED
      BY <1>0, <3>1, <3>2, <3>3, SaysTyped
  <2>2. Local(w)' /\ CountsOfSnapshot(w)'
    <3>1. /\ pc[w] = "declare" /\ UNCHANGED <<exists, req, key, attempt, snapshot, counts, effect>>
          /\ \E a \in Answers : answer' = [answer EXCEPT ![w] = a] /\ pc' = [pc EXCEPT ![w] = "done"]
      BY <1>7 DEF DeclareCreated, SetTableKeys, Answers
    <3>2. ~(attempt[w] > 0)
      BY <1>0, <3>1 DEF Local, TypeOK
    <3> QED
      BY <1>0, <1>a, <3>1, <3>2 DEF TypeOK, Local, CountsOfSnapshot
  <2> QED
    BY <2>1, <2>2
<1>8. CASE CheckAccess(w)
  <2>1. TypeOK' /\ SnapshotsTyped'
    <3>1. Says(w)
      BY <1>a, <1>8 DEF CheckAccess, Says, Labels
    <3>2. Learns(w) /\ declared' \in KeyColumns \cup {None}
      BY <1>a, <1>b, <1>8 DEF CheckAccess, Learns
    <3>3. UNCHANGED <<exists, table, hasX, merges, req, seesX, writesX, snapshot, attempt,
                      counts, effect>>
      BY <1>8 DEF CheckAccess
    <3> QED
      BY <1>0, <3>1, <3>2, <3>3, SaysTyped
  <2>2. Local(w)' /\ CountsOfSnapshot(w)'
    BY <1>0, <1>a, <1>8 DEF CheckAccess, TypeOK, Local, CountsOfSnapshot
  <2> QED
    BY <2>1, <2>2
<1>9. CASE ReadKeys(w)
  <2>1. TypeOK' /\ SnapshotsTyped'
    <3>1. Says(w)
      BY <1>a, <1>9 DEF ReadKeys, Says, Labels
    <3>2. Learns(w) /\ declared' \in KeyColumns \cup {None}
      BY <1>a, <1>b, <1>9 DEF ReadKeys, Learns
    <3>3. UNCHANGED <<exists, table, hasX, merges, req, seesX, writesX, snapshot, attempt,
                      counts, effect>>
      BY <1>9 DEF ReadKeys
    <3> QED
      BY <1>0, <3>1, <3>2, <3>3, SaysTyped
  <2>2. Local(w)' /\ CountsOfSnapshot(w)'
    BY <1>0, <1>a, <1>9 DEF ReadKeys, TypeOK, Local, CountsOfSnapshot
  <2> QED
    BY <2>1, <2>2
<1>10. CASE ReadColumns(w) \/ AddColumn(w)
  <2>1. TypeOK' /\ SnapshotsTyped'
    <3>1. pc' \in [Writers -> Labels] /\ answer' \in [Writers -> Answers \cup {None}]
      BY <1>b, <1>10 DEF ReadColumns, AddColumn, AfterAlter, Labels
    <3>2. /\ declared' \in KeyColumns \cup {None}
          /\ key' \in [Writers -> KeyColumns \cup {None}]
          /\ hasX' \in BOOLEAN /\ seesX' \in [Writers -> BOOLEAN]
          /\ writesX' \in [Writers -> BOOLEAN]
      BY <1>a, <1>b, <1>10 DEF ReadColumns, AddColumn, AfterAlter
    <3>3. UNCHANGED <<exists, table, merges, req, snapshot, attempt, counts, effect>>
      BY <1>10 DEF ReadColumns, AddColumn, AfterAlter
    <3> QED
      BY <1>0, <3>1, <3>2, <3>3 DEF TypeOK, SnapshotsTyped, Labels
  <2>2. Local(w)' /\ CountsOfSnapshot(w)'
    BY <1>0, <1>a, <1>10
    DEF ReadColumns, AddColumn, AfterAlter, TypeOK, Local, CountsOfSnapshot
  <2> QED
    BY <2>1, <2>2
<1>12. CASE DeclareFirst(w)
  <2>1. TypeOK' /\ SnapshotsTyped'
    <3>1. Says(w)
      BY <1>a, <1>12 DEF DeclareFirst, Says, Labels
    <3>2. Learns(w) /\ declared' \in KeyColumns \cup {None}
      BY <1>a, <1>b, <1>12 DEF DeclareFirst, Learns
    <3>3. UNCHANGED <<exists, table, hasX, merges, req, seesX, writesX, snapshot, attempt,
                      counts, effect>>
      BY <1>12 DEF DeclareFirst
    <3> QED
      BY <1>0, <3>1, <3>2, <3>3, SaysTyped
  <2>2. Local(w)' /\ CountsOfSnapshot(w)'
    BY <1>0, <1>a, <1>12 DEF DeclareFirst, TypeOK, Local, CountsOfSnapshot
  <2> QED
    BY <2>1, <2>2
<1>15. CASE Conflict(w)
  <2>1. TypeOK' /\ SnapshotsTyped'
    <3>1. Says(w)
      BY <1>a, <1>15 DEF Conflict, Says, Labels
    <3>2. Learns(w) /\ declared' \in KeyColumns \cup {None}
      BY <1>a, <1>b, <1>15 DEF Conflict, Learns
    <3>3. UNCHANGED <<exists, table, hasX, merges, req, seesX, writesX, snapshot, attempt,
                      counts, effect>>
      BY <1>15 DEF Conflict
    <3> QED
      BY <1>0, <3>1, <3>2, <3>3, SaysTyped
  <2>2. Local(w)' /\ CountsOfSnapshot(w)'
    BY <1>0, <1>a, <1>15 DEF Conflict, TypeOK, Local, CountsOfSnapshot
  <2> QED
    BY <2>1, <2>2
<1>5. CASE CountCreated(w)
  <2>1. Cardinality(table) \in Nat
    BY FS_CardinalityType DEF CInv, TablesFinite
  <2>2. TypeOK' /\ SnapshotsTyped'
    <3>1. [counts[w] EXCEPT !.inserted = Cardinality(table)] \in Counts
      BY <1>0, <2>1 DEF TypeOK, Counts
    <3>2. counts' \in [Writers -> Counts]
      BY <1>0, <1>5, <3>1 DEF CountCreated, TypeOK
    <3> QED
      BY <1>0, <1>5, <3>2 DEF CountCreated, TypeOK, SnapshotsTyped
  <2>3. Local(w)' /\ CountsOfSnapshot(w)'
    BY <1>0, <1>a, <1>5 DEF CountCreated, TypeOK, Local, CountsOfSnapshot
  <2> QED
    BY <2>2, <2>3
<1>11. CASE Insert(w)
  <2> DEFINE rows == BatchRows(w, writesX[w])
             n == [inserted |-> Cardinality(rows), matched |-> 0]
  <2>1. rows \subseteq Rows /\ Cardinality(rows) \in Nat
    BY <1>0, BatchType DEF TypeOK
  <2>2. n \in Counts
    BY <2>1 DEF Counts
  <2>3. /\ pc[w] = "insert" /\ table' = table \cup rows
        /\ counts' = [counts EXCEPT ![w] = n] /\ effect' = [effect EXCEPT ![w] = n]
        /\ answer' = [answer EXCEPT ![w] = "ok"] /\ pc' = [pc EXCEPT ![w] = "done"]
        /\ UNCHANGED <<exists, hasX, declared, merges, req, key, seesX, writesX, snapshot, attempt>>
    BY <1>11 DEF Insert
  <2> HIDE DEF rows, n
  <2>4. Local(w)' /\ CountsOfSnapshot(w)'
    BY <1>0, <1>a, <2>3 DEF TypeOK, Local, CountsOfSnapshot
  <2>5. TypeOK' /\ SnapshotsTyped'
    <3>1. (table' # {} => exists') /\ \A r \in table' \ First : r \in Rows
      BY <1>0, <2>1, <2>3 DEF TypeOK, Local
    <3> QED
      BY <1>0, <1>a, <2>2, <2>3, <3>1 DEF TypeOK, SnapshotsTyped
  <2> QED
    BY <2>4, <2>5
<1>13. CASE Begin(w)
  <2> DEFINE shot == [rows |-> table, merges |-> merges, hasX |-> hasX]
             n == Counted(w, table)
  <2>1. n \in Counts /\ shot \in Snapshots /\ shot.rows = table
    BY <1>0, CountedType DEF TypeOK, Snapshots
  <2>2. \A rows : Counted(w, rows)' = Counted(w, rows)
    BY <1>13, CountedKept DEF Begin
  <2>3. n = Counted(w, shot.rows)
    OBVIOUS
  <2>4. /\ pc[w] = "begin" /\ snapshot' = [snapshot EXCEPT ![w] = shot]
        /\ counts' = [counts EXCEPT ![w] = n]
        /\ attempt' = [attempt EXCEPT ![w] = attempt[w] + 1]
        /\ pc' = [pc EXCEPT ![w] = "commit"]
        /\ UNCHANGED <<lake, req, key, seesX, writesX, answer, effect>>
    BY <1>13 DEF Begin
  <2> HIDE DEF shot, n
  <2>5. attempt[w] < Attempts /\ attempt[w] \in 0..Attempts
    BY <1>0, <2>4 DEF TypeOK, Local
  <2>6. TypeOK' /\ SnapshotsTyped'
    <3>1. attempt' \in [Writers -> 0..Attempts] /\ counts' \in [Writers -> Counts]
      BY <1>0, <1>a, <2>1, <2>4, <2>5 DEF TypeOK
    <3>2. SnapshotsTyped'
      BY <1>0, <2>1, <2>4 DEF SnapshotsTyped
    <3>3. pc' \in [Writers -> Labels]
      BY <1>b, <2>4 DEF Labels
    <3> QED
      BY <1>0, <2>4, <3>1, <3>2, <3>3 DEF TypeOK, Labels
  <2>7. Local(w)'
    BY <1>0, <1>a, <2>4, <2>5 DEF TypeOK, Local
  <2>8. CountsOfSnapshot(w)'
    <3>1. counts'[w] = Counted(w, snapshot[w].rows)'
      BY <1>0, <2>2, <2>3, <2>4 DEF TypeOK, SnapshotsTyped
    <3>2. answer'[w] # "ok"
      BY <1>0, <1>a, <2>4 DEF Local
    <3> QED
      BY <3>1, <3>2 DEF CountsOfSnapshot
  <2> QED
    BY <2>6, <2>7, <2>8
<1>14. CASE Commit(w)
  <2> DEFINE old == snapshot[w].rows
             new == (table \ old) \cup Merged(old, Source(w), key[w], req[w].mode)
             n == Counted(w, old)
  <2>1. n \in Counts
    BY <1>0, CountedType
  <2>2. old \subseteq First \cup Rows
    BY <1>0 DEF SnapshotsTyped, Snapshots
  <2>3. new \subseteq First \cup Rows
    BY <1>0, <2>2, MergedType DEF TypeOK
  <2>4. /\ pc[w] = "commit" /\ table' = new /\ merges' = merges + 1
        /\ effect' = [effect EXCEPT ![w] = n]
        /\ answer' = [answer EXCEPT ![w] = "ok"] /\ pc' = [pc EXCEPT ![w] = "done"]
        /\ UNCHANGED <<exists, hasX, declared, req, key, seesX, writesX, snapshot, attempt, counts>>
    BY <1>14 DEF Commit
  <2>5. counts[w] = n
    BY <1>0, <2>4 DEF CountsOfSnapshot
  <2> HIDE DEF old, new, n
  <2>6. Local(w)' /\ CountsOfSnapshot(w)'
    BY <1>0, <1>a, <2>4, <2>5 DEF TypeOK, Local, CountsOfSnapshot
  <2>7. TypeOK' /\ SnapshotsTyped'
    <3>1. exists' /\ \A r \in table' \ First : r \in Rows
      BY <1>0, <2>3, <2>4 DEF TypeOK, Local
    <3>2. effect' \in [Writers -> Counts \cup {None}] /\ answer' \in [Writers -> Answers \cup {None}]
      BY <1>0, <1>a, <2>1, <2>4 DEF TypeOK
    <3>3. pc' \in [Writers -> Labels]
      BY <1>b, <2>4 DEF Labels
    <3>4. merges' \in Nat
      BY <1>0, <2>4 DEF TypeOK
    <3> QED
      BY <1>0, <2>4, <3>1, <3>2, <3>3, <3>4 DEF TypeOK, SnapshotsTyped, Labels
  <2> QED
    BY <2>6, <2>7
<1> QED
  BY <1>1, <1>2, <1>3, <1>4, <1>5, <1>6, <1>7, <1>8, <1>9, <1>10, <1>11, <1>12,
     <1>13, <1>14, <1>15 DEF Ingest

\* Each step leaves finite tables.
LEMMA FiniteStep ==
  ASSUME CInv, NEW w \in Writers, Ingest(w)
  PROVE  TablesFinite'
<1>0. TypeOK /\ SnapshotsTyped /\ TablesFinite /\ req[w] \in Asks[w]
  BY DEF CInv, TypeOK
<1>1. CASE UNCHANGED <<table, snapshot>>
  BY <1>0, <1>1 DEF TablesFinite
<1>2. CASE Create(w)
  <2>1. IsFiniteSet(BatchRows(w, TRUE)) /\ table' \subseteq BatchRows(w, TRUE)
    BY <1>0, <1>2, BatchFinite DEF Create, Dedupped
  <2> QED
    BY <1>0, <1>2, <2>1, FS_Subset DEF Create, TablesFinite
<1>3. CASE Insert(w)
  <2>1. IsFiniteSet(BatchRows(w, writesX[w])) /\ table' = table \cup BatchRows(w, writesX[w])
    BY <1>0, <1>3, BatchFinite DEF Insert
  <2>2. IsFiniteSet(table')
    BY <1>0, <2>1, FS_Union DEF TablesFinite
  <2> QED
    BY <1>0, <1>3, <2>2 DEF Insert, TablesFinite
<1>4. CASE Begin(w)
  BY <1>0, <1>4 DEF Begin, lake, TablesFinite, SnapshotsTyped
<1>5. CASE Commit(w)
  <2> DEFINE old == snapshot[w].rows
  <2>1. IsFiniteSet(Merged(old, Source(w), key[w], req[w].mode)) /\ IsFiniteSet(table \ old)
    BY <1>0, MergedFinite, FS_Subset DEF TablesFinite
  <2>2. IsFiniteSet((table \ old) \cup Merged(old, Source(w), key[w], req[w].mode))
    BY <2>1, FS_Union
  <2> QED
    BY <1>0, <1>5, <2>2 DEF Commit, TablesFinite
<1> QED
  BY <1>1, <1>2, <1>3, <1>4, <1>5
  DEF Ingest, Start, ChooseKey, CreateLoses, CountCreated, OnCreated, DeclareCreated,
      SetTableKeys, CheckAccess, ReadKeys, ReadColumns, AddColumn, DeclareFirst, Conflict,
      lake

LEMMA StepC == ASSUME CInv, [Next]_vars PROVE CInv'
<1>1. ASSUME NEW w \in Writers, Ingest(w) PROVE CInv'
  <2>1. TypeOK' /\ SnapshotsTyped' /\ Local(w)' /\ CountsOfSnapshot(w)'
    BY <1>1, OwnStep
  <2>2. ASSUME NEW u \in Writers \ {w} PROVE Local(u)' /\ CountsOfSnapshot(u)'
    <3>1. Local(u) /\ CountsOfSnapshot(u) /\ TypeOK
      BY DEF CInv
    <3>2. /\ pc'[u] = pc[u] /\ req' = req /\ key'[u] = key[u] /\ writesX'[u] = writesX[u]
          /\ snapshot'[u] = snapshot[u] /\ attempt'[u] = attempt[u] /\ counts'[u] = counts[u]
          /\ answer'[u] = answer[u] /\ effect'[u] = effect[u]
          /\ exists => exists'
      BY <1>1, <3>1, OthersKept
    <3>3. \A rows : Counted(u, rows)' = Counted(u, rows)
      BY <3>2, CountedKept
    <3>4. CountsOfSnapshot(u)'
      BY <3>1, <3>2, <3>3 DEF CountsOfSnapshot
    <3> QED
      BY <3>1, <3>2, <3>4 DEF Local, Keyed
  <2> QED
    BY <1>1, <2>1, <2>2, FiniteStep DEF CInv
<1>2. ASSUME UNCHANGED vars PROVE CInv'
  <2>1. UNCHANGED <<exists, table, hasX, declared, merges, pc, req, key, seesX, writesX,
          snapshot, attempt, counts, answer, effect>>
    BY <1>2 DEF vars
  <2>2. TypeOK' /\ SnapshotsTyped' /\ TablesFinite'
    BY <2>1 DEF CInv, TypeOK, SnapshotsTyped, TablesFinite
  <2>3. ASSUME NEW w \in Writers PROVE Local(w)' /\ CountsOfSnapshot(w)'
    <3>1. \A rows : Counted(w, rows)' = Counted(w, rows)
      BY <2>1, CountedKept
    <3> QED
      BY <2>1, <3>1 DEF CInv, Local, CountsOfSnapshot, Keyed
  <2> QED
    BY <2>2, <2>3 DEF CInv
<1> QED
  BY <1>1, <1>2 DEF Next

\* Every variable keeps its type: the label, key, snapshot and attempts of each
\* request, and the rows of the table.
THEOREM TypeCorrect == Spec => []TypeOK
<1>1. CInv => TypeOK
  BY DEF CInv
<1>2. CInv /\ [Next]_vars => CInv'
  BY StepC
<1> QED
  BY InitC, <1>1, <1>2, PTL DEF Spec

\* The answer to a keyed write counts what its commit did to the table, however
\* often its transaction was retried: each attempt counts anew (ingest.js, MERGE).
THEOREM CountsAlwaysExact == Spec => []CountsExact
<1>1. CInv => CountsExact
  BY DEF CInv, CountsOfSnapshot, CountsExact
<1>2. CInv /\ [Next]_vars => CInv'
  BY StepC
<1> QED
  BY InitC, <1>1, <1>2, PTL DEF Spec

-----------------------------------------------------------------------------
(* One row for each key *)

\* The table's key, and that of every keyed request that names one, is k.
AllName(k) ==
  /\ FirstKey \in {k, None}
  /\ \A w \in Writers : \A r \in Asks[w] : r.mode # "append" => r.key \in {k, None}

\* The requests agree on a key of the table.
Agreed == \E k \in KeyColumns : AllName(k)

\* So no other key is ever declared or gone by.
OnlyKey(k) == declared \in {k, None} /\ \A w \in Writers : key[w] \in {k, None}

UniqueKeys(k) == \A r, s \in KeyedRows : r[k] = s[k] => r = s

\* While no keyed transaction has committed since the snapshot of w was taken, the
\* table has only gained appended rows.
OnlyAppends(w) ==
  /\ snapshot[w].merges <= merges
  /\ pc[w] = "commit" /\ snapshot[w].merges = merges =>
       snapshot[w].rows \subseteq table /\ KeyedRows \subseteq snapshot[w].rows

\* The inductive invariant of unique keys.
KInv(k) ==
  CInv /\ OnlyKey(k) /\ UniqueKeys(k) /\ \A w \in Writers : OnlyAppends(w)

\* MERGE leaves one row for each key where there was one before it, whatever rows
\* with other identities are there.
LEMMA MergeKeepsUnique ==
  ASSUME TypeOK, NEW w \in Writers, key[w] \in KeyColumns,
         NEW old, old \subseteq First \cup Rows,
         NEW mine,
         \A r, s \in old : r.id \in mine /\ s.id \in mine /\ r[key[w]] = s[key[w]] => r = s
  PROVE  \A r, s \in Merged(old, Source(w), key[w], req[w].mode) :
           r.id \in mine /\ s.id \in mine /\ r[key[w]] = s[key[w]] => r = s
<1> SUFFICES ASSUME NEW r \in Merged(old, Source(w), key[w], req[w].mode),
                    NEW s \in Merged(old, Source(w), key[w], req[w].mode),
                    r.id \in mine, s.id \in mine, r[key[w]] = s[key[w]]
             PROVE  r = s
  OBVIOUS
<1> DEFINE k == key[w]
           mode == req[w].mode
           source == Source(w)
<1>0. source = Dedupped(BatchRows(w, writesX[w]), k, mode) /\ k \in KeyColumns
  BY DEF Source
<1>a. Merged(old, Source(w), key[w], req[w].mode) = Merged(old, source, k, mode) /\ r[k] = s[k]
  OBVIOUS
<1>b. \A p, q \in old : p.id \in mine /\ q.id \in mine /\ p[k] = q[k] => p = q
  OBVIOUS
<1> HIDE DEF k, mode, source
<1>1. source \subseteq Rows /\ \A p, q \in source : p[k] = q[k] => p = q
  <2>1. req[w] \in Asks[w] /\ writesX[w] \in BOOLEAN
    BY DEF TypeOK
  <2> QED
    BY <1>0, <2>1, BatchShape, DedupOne DEF Dedupped
<1> DEFINE Fresh == source \ Matching(source, old, k)
           Stay == IF mode = "upsert" THEN old \ Matching(old, source, k) ELSE old
           Changed == IF mode = "upsert" THEN Update(old, source, k) ELSE {}
<1>2. Merged(old, Source(w), key[w], req[w].mode) = Stay \cup Changed \cup Fresh
  BY <1>a DEF Merged
<1>3. \A p \in Fresh : p \in source /\ \A q \in old : q[k] # p[k]
  BY DEF Matching
<1>4. ASSUME NEW p \in Changed
      PROVE  \E q \in old : /\ p = [CHOOSE c \in source : c[k] = q[k] EXCEPT !.id = q.id]
                            /\ p.id = q.id /\ p[k] = q[k] /\ \E c \in source : c[k] = p[k]
  <2>1. PICK q \in Matching(old, source, k) :
               p = [CHOOSE c \in source : c[k] = q[k] EXCEPT !.id = q.id]
    BY DEF Update
  <2>2. q \in old /\ \E c \in source : c[k] = q[k]
    BY DEF Matching
  <2> DEFINE c == CHOOSE d \in source : d[k] = q[k]
  <2>3. c \in source /\ c[k] = q[k]
    BY <2>2
  <2>4. c \in Rows /\ p = [c EXCEPT !.id = q.id]
    BY <1>1, <2>1, <2>3
  <2> HIDE DEF c
  <2>5. p.id = q.id /\ p[k] = c[k]
    BY <1>0, <2>4 DEF Rows, KeyColumns
  <2> QED
    BY <2>1, <2>2, <2>3, <2>5
<1>5. \A p \in Stay : p \in old /\ (Changed # {} => \A c \in source : c[k] # p[k])
  BY DEF Matching
<1> HIDE DEF Fresh, Stay, Changed
<1>6. CASE r \in Fresh /\ s \in Fresh
  BY <1>1, <1>3, <1>6, <1>a
<1>7. CASE r \in Changed /\ s \in Changed
  BY <1>4, <1>7, <1>a, <1>b
<1>8. CASE r \in Stay /\ s \in Stay
  BY <1>5, <1>8, <1>a, <1>b
<1>9. CASE (r \in Fresh /\ s \notin Fresh) \/ (s \in Fresh /\ r \notin Fresh)
  BY <1>2, <1>3, <1>4, <1>5, <1>9, <1>a
<1>10. CASE (r \in Stay /\ s \in Changed) \/ (s \in Stay /\ r \in Changed)
  BY <1>4, <1>5, <1>10, <1>a
<1> QED
  BY <1>2, <1>6, <1>7, <1>8, <1>9, <1>10

\* The identities that keyed writes give the rows they insert.
KeyedIds == {i \in Ids : i[1] \in Writers /\ Keyed(i[1])}

LEMMA KeyedRowsById ==
  ASSUME TypeOK
  PROVE  KeyedRows = {r \in table : r.id \in KeyedIds}
<1>1. \A r \in table : r.id \in Ids
  BY DEF TypeOK, Ids, Rows
<1> QED
  BY <1>1 DEF KeyedRows, KeyedIds

LEMMA InitK ==
  ASSUME NEW k \in KeyColumns, AllName(k), Init
  PROVE  KInv(k)
<1>1. CInv
  BY InitC
<1>2. KeyedRows = {}
  BY IngestAssumption DEF Init, KeyedRows
<1>3. \A w \in Writers : OnlyAppends(w)
  BY DEF Init, NoSnapshot, OnlyAppends
<1> QED
  BY <1>1, <1>2, <1>3 DEF Init, KInv, OnlyKey, UniqueKeys, AllName

LEMMA OnlyKeyStep ==
  ASSUME NEW k \in KeyColumns, AllName(k), CInv, OnlyKey(k), NEW w \in Writers, Ingest(w)
  PROVE  OnlyKey(k)'
<1>0. TypeOK /\ Local(w) /\ req[w] \in Asks[w]
  BY DEF CInv, TypeOK
<1>1. Keyed(w) => req[w].key \in {k, None}
  BY <1>0 DEF AllName, Keyed
<1>2. CASE ChooseKey(w)
  BY <1>0, <1>1, <1>2 DEF ChooseKey, Goto, Reply, lake, Local, OnlyKey, TypeOK
<1>3. CASE DeclareCreated(w)
  BY <1>0, <1>3 DEF DeclareCreated, SetTableKeys, lake, OnlyKey
<1>4. CASE ReadKeys(w)
  BY <1>0, <1>4 DEF ReadKeys, lake, OnlyKey, TypeOK
<1>5. CASE DeclareFirst(w)
  BY <1>0, <1>1, <1>5 DEF DeclareFirst, lake, Local, OnlyKey, TypeOK
<1>6. CASE UNCHANGED <<declared, key>>
  BY <1>6 DEF OnlyKey
<1> QED
  BY <1>2, <1>3, <1>4, <1>5, <1>6
  DEF Ingest, Start, Create, CreateLoses, CountCreated, OnCreated, CheckAccess, ReadColumns,
      AddColumn, Insert, Begin, Commit, Conflict, lake

\* Each step keeps keys unique, and only a commit changes keyed rows of a table.
LEMMA UniqueStep ==
  ASSUME NEW k \in KeyColumns, AllName(k), KInv(k), NEW w \in Writers, Ingest(w)
  PROVE  UniqueKeys(k)' /\ \A u \in Writers : OnlyAppends(u)'
<1>0. /\ TypeOK /\ SnapshotsTyped /\ Local(w) /\ OnlyKey(k) /\ UniqueKeys(k) /\ req[w] \in Asks[w]
      /\ TypeOK' /\ SnapshotsTyped' /\ \A u \in Writers : OnlyAppends(u) /\ Local(u)
  BY OwnStep DEF KInv, CInv, TypeOK
<1>a. /\ KeyedRows = {r \in table : r.id \in KeyedIds}
      /\ KeyedRows' = {r \in table' : r.id \in KeyedIds}
  <2>1. req' = req
    BY <1>0, OthersKept DEF Ingest, Start, ChooseKey, Create, CreateLoses, CountCreated, OnCreated,
       DeclareCreated, CheckAccess, ReadKeys, ReadColumns, AddColumn, Insert, DeclareFirst,
       Begin, Commit, Conflict
  <2>2. KeyedIds' = KeyedIds
    BY <2>1 DEF KeyedIds, Keyed, Ids
  <2>3. \A r \in table' : r.id \in Ids
    BY <1>0 DEF TypeOK, Ids, Rows
  <2>4. KeyedRows' = {r \in table' : r.id \in KeyedIds'}
    BY <2>3 DEF KeyedRows, KeyedIds, Ids
  <2> QED
    BY <1>0, <2>2, <2>4, KeyedRowsById, SMTT(60)
<1>b. \A u \in Writers : snapshot[u] \in Snapshots /\ snapshot[u].merges \in Nat
  BY <1>0 DEF SnapshotsTyped, Snapshots
<1>c. \A u \in Writers \ {w} : pc'[u] = pc[u] /\ snapshot'[u] = snapshot[u]
  BY <1>0, OthersKept
<1>d. merges \in Nat
  BY <1>0 DEF TypeOK
<1>1. CASE UNCHANGED <<table, merges, snapshot>> /\ pc'[w] # "commit"
  <2>1. KeyedRows' = KeyedRows
    BY <1>1, <1>a
  <2> QED
    BY <1>0, <1>1, <1>c, <2>1 DEF UniqueKeys, OnlyAppends
<1>2. CASE Create(w)
  <2>1. /\ ~exists /\ UNCHANGED <<merges, snapshot>> /\ pc'[w] # "commit" /\ pc[w] = "create"
        /\ table' = IF Keyed(w) THEN Dedupped(BatchRows(w, TRUE), key[w], req[w].mode)
                    ELSE BatchRows(w, TRUE)
    BY <1>0, <1>2 DEF Create, Goto, TypeOK
  <2>2. \A u \in Writers : pc'[u] # "commit"
    BY <1>0, <1>c, <2>1 DEF Local, OnTable
  <2>3. CASE Keyed(w)
    <3>1. key[w] = k
      BY <1>0, <2>1, <2>3 DEF Local, OnlyKey
    <3>a. /\ table' = Dedupped(BatchRows(w, TRUE), k, req[w].mode)
          /\ TRUE \in BOOLEAN
      BY <2>1, <2>3, <3>1
    <3>2. \A r, s \in table' : r[k] = s[k] => r = s
      BY <1>0, <3>a, DedupOne
    <3> QED
      BY <1>0, <1>a, <2>1, <2>2, <3>2 DEF UniqueKeys, OnlyAppends
  <2>4. CASE ~Keyed(w)
    <3>1. KeyedRows' = {}
      <4>1. TRUE \in BOOLEAN /\ table' = BatchRows(w, TRUE)
        BY <2>1, <2>4
      <4>2. \A r \in table' : r.id = <<w, r.pos>>
        BY <1>0, <4>1, BatchShape
      <4> QED
        BY <1>a, <2>4, <4>2 DEF KeyedIds
    <3> QED
      BY <1>0, <2>1, <2>2, <3>1 DEF UniqueKeys, OnlyAppends
  <2> QED
    BY <2>3, <2>4
<1>3. CASE Insert(w)
  <2>1. /\ UNCHANGED <<merges, snapshot>> /\ pc'[w] # "commit" /\ ~Keyed(w)
        /\ table' = table \cup BatchRows(w, writesX[w]) /\ writesX[w] \in BOOLEAN
    BY <1>0, <1>3 DEF Insert, Reply, Goto, TypeOK, Local
  <2>2. KeyedRows' = KeyedRows
    BY <1>0, <1>a, <2>1, BatchShape DEF KeyedIds
  <2> QED
    BY <1>0, <1>c, <2>1, <2>2 DEF UniqueKeys, OnlyAppends
<1>4. CASE Begin(w)
  <2>1. /\ UNCHANGED <<table, merges>>
        /\ snapshot' = [snapshot EXCEPT ![w] = [rows |-> table, merges |-> merges, hasX |-> hasX]]
    BY <1>4 DEF Begin, lake
  <2>2. KeyedRows' = KeyedRows /\ KeyedRows \subseteq table
    BY <1>a, <2>1
  <2>3. snapshot'[w].rows = table /\ snapshot'[w].merges = merges
    BY <1>0, <2>1 DEF SnapshotsTyped
  <2> QED
    BY <1>0, <1>c, <1>d, <2>1, <2>2, <2>3 DEF UniqueKeys, OnlyAppends
<1>5. CASE Commit(w)
  <2> DEFINE old == snapshot[w].rows
             new == Merged(old, Source(w), key[w], req[w].mode)
  <2>1. /\ pc[w] = "commit" /\ snapshot[w].merges = merges /\ merges' = merges + 1
        /\ table' = (table \ old) \cup new /\ UNCHANGED snapshot
    BY <1>5 DEF Commit, Overlaps
  <2>2. key[w] = k /\ Keyed(w)
    BY <1>0, <2>1 DEF Local, OnlyKey
  <2>3. old \subseteq table /\ KeyedRows \subseteq old
    BY <1>0, <2>1 DEF OnlyAppends
  <2>4. \A r \in KeyedRows' : r \in new /\ r.id \in KeyedIds
    BY <1>a, <2>1, <2>3
  <2>5. \A r, s \in old : r.id \in KeyedIds /\ s.id \in KeyedIds /\ r[k] = s[k] => r = s
    BY <1>0, <1>a, <2>3 DEF UniqueKeys
  <2>6. old \subseteq First \cup Rows
    BY <1>b DEF Snapshots
  <2>7. key[w] \in KeyColumns
    BY <2>2
  <2>8. \A r, s \in new : r.id \in KeyedIds /\ s.id \in KeyedIds /\ r[k] = s[k] => r = s
    <3>1. \A r, s \in old : r.id \in KeyedIds /\ s.id \in KeyedIds /\ r[key[w]] = s[key[w]] => r = s
      BY <2>2, <2>5
    <3>2. \A r, s \in new : r.id \in KeyedIds /\ s.id \in KeyedIds /\ r[key[w]] = s[key[w]] => r = s
      BY <1>0, <2>6, <2>7, <3>1, MergeKeepsUnique
    <3> QED
      BY <2>2, <3>2
  <2>9. UniqueKeys(k)'
    BY <2>4, <2>8 DEF UniqueKeys
  <2>10. \A u \in Writers : snapshot'[u].merges < merges'
    BY <1>0, <1>b, <1>d, <2>1 DEF OnlyAppends
  <2> QED
    BY <1>b, <1>d, <2>1, <2>9, <2>10 DEF OnlyAppends
<1>6. CASE Ingest(w) /\ ~Create(w) /\ ~Insert(w) /\ ~Begin(w) /\ ~Commit(w)
  <2>1. UNCHANGED <<table, merges, snapshot>>
    BY <1>6 DEF Ingest, Start, ChooseKey, CreateLoses, CountCreated, OnCreated,
       DeclareCreated, SetTableKeys, CheckAccess, ReadKeys, ReadColumns, AddColumn, DeclareFirst,
       Conflict, lake
  <2>2. pc'[w] # "commit"
    BY <1>0, <1>6 DEF Ingest, Start, ChooseKey, CreateLoses, CountCreated, OnCreated,
       DeclareCreated, CheckAccess, ReadKeys, ReadColumns, AddColumn, AfterAlter, DeclareFirst,
       Conflict, Goto, Reply, TypeOK
  <2> QED
    BY <1>1, <2>1, <2>2
<1> QED
  BY <1>2, <1>3, <1>4, <1>5, <1>6

LEMMA StepK ==
  ASSUME NEW k \in KeyColumns, AllName(k), KInv(k), [Next]_vars
  PROVE  KInv(k)'
<1>1. ASSUME NEW w \in Writers, Ingest(w) PROVE KInv(k)'
  BY <1>1, StepC, OnlyKeyStep, UniqueStep DEF KInv, Next
<1>2. CASE UNCHANGED vars
  <2>1. CInv'
    BY StepC DEF KInv
  <2>2. UNCHANGED <<declared, key, table, req, merges, snapshot, pc>>
    BY <1>2 DEF vars
  <2>3. KeyedRows' = KeyedRows
    BY <2>2 DEF KeyedRows, Keyed
  <2> QED
    BY <2>1, <2>2, <2>3 DEF KInv, OnlyKey, UniqueKeys, OnlyAppends
<1> QED
  BY <1>1, <1>2 DEF Next

\* What the answers promise of the table, wherever the requests agree on its key:
\* however many keyed writes overlap, are retried and race appends and new columns,
\* no key gets two of their rows, and every answer counts what was done
\* (ingest.js: MERGE and its retry loop; README.md section 9.2).
THEOREM IngestAlwaysSafe == Agreed => (Spec => []IngestSafe)
<1> SUFFICES ASSUME NEW k \in KeyColumns, AllName(k) PROVE Spec => []IngestSafe
  BY DEF Agreed
<1>1. Init => KInv(k)
  BY InitK
<1>2. KInv(k) /\ [Next]_vars => KInv(k)'
  BY StepK
<1>3. KInv(k) => IngestSafe
  BY DEF KInv, CInv, CountsOfSnapshot, CountsExact, IngestSafe, KeysUnique, UniqueKeys, OnlyKey
<1> QED
  BY <1>1, <1>2, <1>3, PTL DEF Spec

-----------------------------------------------------------------------------
(* Batches take effect one at a time *)

\* What DuckLake does not compare is kept apart: nothing fails after a table was
\* created, keyed requests go by column a, at most one request brings the new
\* column, and what is appended has other keys than what is merged.
Apart ==
  /\ Faults = {}
  /\ AllName("a")
  /\ \A w, u \in Writers : \A r \in Asks[w], s \in Asks[u] :
       /\ r.x /\ s.x => w = u
       /\ r.mode = "append" /\ s.mode # "append" /\ w # u =>
            \A i \in DOMAIN r.batch, j \in DOMAIN s.batch : r.batch[i].a # s.batch[j].a

\* The labels of a request that has written nothing yet.
Before == {"idle", "choose", "create", "access", "keys", "columns", "alter", "insert",
           "setKeys", "begin", "commit"}

\* A request has an effect from the statement that writes its batch.
EffectLate(w) ==
  /\ pc[w] \in Before => effect[w] = None
  /\ pc[w] \in {"count", "acl", "declare"} => effect[w] # None

\* The column a request brings is not there before it adds it.
ColumnLate(w) ==
  req[w].x =>
    /\ pc[w] \in {"idle", "choose", "create", "access", "keys", "columns", "alter"} => ~hasX
    /\ pc[w] \in {"insert", "setKeys", "begin", "commit"} => writesX[w]

\* Rows that were appended since the snapshot of w have other keys than its batch.
LateApart(w) ==
  pc[w] = "commit" /\ snapshot[w].merges = merges =>
    \A t \in table \ snapshot[w].rows, r \in BatchRows(w, TRUE) : t.a # r.a

\* The inductive invariant of the refinement.
RInv == KInv("a") /\ \A w \in Writers : EffectLate(w) /\ ColumnLate(w) /\ LateApart(w)

\* What w writes after it saw the columns is its batch as it was sent.
LEMMA WritesBatch ==
  ASSUME RInv, NEW w \in Writers, pc[w] \in {"insert", "commit"}
  PROVE  BatchRows(w, writesX[w]) = BatchRows(w, TRUE)
<1>1. req[w].x => writesX[w] = TRUE
  BY DEF RInv, KInv, CInv, TypeOK, ColumnLate
<1> QED
  BY <1>1 DEF BatchRows

LEMMA InitR ==
  ASSUME Apart, Init
  PROVE  RInv
<1>1. KInv("a")
  BY InitK DEF Apart, KeyColumns
<1>2. \A w \in Writers : EffectLate(w) /\ ColumnLate(w) /\ LateApart(w)
  BY DEF Init, EffectLate, ColumnLate, LateApart
<1> QED
  BY <1>1, <1>2 DEF RInv

LEMMA EffectStep ==
  ASSUME Apart, RInv, NEW w \in Writers, Ingest(w)
  PROVE  EffectLate(w)' /\ ColumnLate(w)'
<1> USE DEF Goto, Reply, lake, EffectLate, ColumnLate, Before
<1>0. /\ TypeOK /\ Local(w) /\ EffectLate(w) /\ ColumnLate(w) /\ req[w] \in Asks[w]
      /\ req[w].x \in BOOLEAN
  BY IngestAssumption DEF RInv, KInv, CInv, TypeOK
<1>b. /\ pc \in [Writers -> {"idle", "choose", "create", "count", "acl", "declare", "access",
                             "keys", "columns", "alter", "insert", "setKeys", "begin", "commit",
                             "done"}]
      /\ effect \in [Writers -> Counts \cup {None}] /\ None \notin Counts
  BY <1>0, IngestAssumption DEF TypeOK
<1>c. writesX \in [Writers -> BOOLEAN] /\ hasX \in BOOLEAN
  BY <1>0 DEF TypeOK
<1>a. DOMAIN pc = Writers /\ DOMAIN effect = Writers /\ DOMAIN writesX = Writers
      /\ hasX \in BOOLEAN /\ writesX[w] \in BOOLEAN /\ None \notin Counts
  BY <1>b, <1>c
<1> HIDE DEF TypeOK
<1>1. CASE Start(w)
  BY <1>0, <1>a, <1>1 DEF Start
<1>2. CASE ChooseKey(w)
  BY <1>0, <1>a, <1>2 DEF ChooseKey
<1>3. CASE Create(w)
  <2> DEFINE new == IF Keyed(w) THEN Dedupped(BatchRows(w, TRUE), key[w], req[w].mode)
                    ELSE BatchRows(w, TRUE)
             n == [inserted |-> Cardinality(new), matched |-> 0]
  <2>1. new \subseteq BatchRows(w, TRUE)
    BY DEF Dedupped
  <2>2. n \in Counts
    BY <1>0, <2>1, BatchType DEF Counts
  <2>3. effect' = [effect EXCEPT ![w] = n] /\ pc'[w] \in {"count", "acl"}
    BY <1>a, <1>3 DEF Create
  <2> HIDE DEF n
  <2> QED
    BY <1>a, <2>2, <2>3
<1>4. CASE CreateLoses(w)
  BY <1>0, <1>a, <1>4 DEF CreateLoses
<1>5. CASE CountCreated(w)
  BY <1>0, <1>a, <1>5 DEF CountCreated
<1>6. CASE OnCreated(w)
  BY <1>0, <1>a, <1>6 DEF OnCreated
<1>7. CASE DeclareCreated(w)
  BY <1>0, <1>a, <1>7 DEF DeclareCreated, SetTableKeys
<1>8. CASE CheckAccess(w)
  BY <1>0, <1>a, <1>8 DEF CheckAccess
<1>9. CASE ReadKeys(w)
  BY <1>0, <1>a, <1>9 DEF ReadKeys
<1>10. CASE ReadColumns(w)
  BY <1>0, <1>a, <1>10 DEF ReadColumns
<1>11. CASE AddColumn(w)
  BY <1>0, <1>a, <1>11 DEF AddColumn, AfterAlter
<1>12. CASE Insert(w)
  BY <1>0, <1>a, <1>12 DEF Insert
<1>13. CASE DeclareFirst(w)
  BY <1>0, <1>a, <1>13 DEF DeclareFirst
<1>14. CASE Begin(w)
  BY <1>0, <1>a, <1>14 DEF Begin
<1>15. CASE Commit(w)
  BY <1>0, <1>a, <1>15 DEF Commit
<1>16. CASE Conflict(w)
  BY <1>0, <1>a, <1>16 DEF Conflict
<1> QED
  BY <1>1, <1>2, <1>3, <1>4, <1>5, <1>6, <1>7, <1>8, <1>9, <1>10, <1>11, <1>12,
     <1>13, <1>14, <1>15, <1>16 DEF Ingest

\* A column appears only by the request that brings it.
LEMMA ColumnOthers ==
  ASSUME Apart, RInv, NEW w \in Writers, Ingest(w), NEW u \in Writers \ {w}
  PROVE  EffectLate(u)' /\ ColumnLate(u)'
<1>1. /\ pc'[u] = pc[u] /\ req' = req /\ writesX'[u] = writesX[u] /\ effect'[u] = effect[u]
      /\ EffectLate(u) /\ ColumnLate(u) /\ req[u] \in Asks[u] /\ req[w] \in Asks[w]
  <2>1. TypeOK /\ EffectLate(u) /\ ColumnLate(u)
    BY DEF RInv, KInv, CInv
  <2> QED
    BY <2>1, OthersKept DEF TypeOK
<1>2. req[u].x => ~req[w].x
  BY <1>1, IngestAssumption DEF Apart
<1>3. hasX' = hasX \/ (hasX' = req[w].x) \/ (hasX' = (hasX \/ (req[w].x /\ ~seesX[w])))
  BY DEF Ingest, Start, ChooseKey, Create, CreateLoses, CountCreated, OnCreated,
     DeclareCreated, SetTableKeys, CheckAccess, ReadKeys, ReadColumns, AddColumn, Insert,
     DeclareFirst, Begin, Commit, Conflict, lake
<1>4. req[u].x /\ ~hasX => ~hasX'
  BY <1>2, <1>3
<1> QED
  BY <1>1, <1>4 DEF EffectLate, ColumnLate

\* Rows that are appended while a keyed transaction runs have keys of their own.
LEMMA LateStep ==
  ASSUME Apart, RInv, NEW w \in Writers, Ingest(w), NEW u \in Writers
  PROVE  LateApart(u)'
<1>0. /\ TypeOK /\ SnapshotsTyped /\ OnlyAppends(u) /\ LateApart(u) /\ Local(u) /\ Local(w)
      /\ req[u] \in Asks[u] /\ req[w] \in Asks[w] /\ merges \in Nat
      /\ snapshot[u].merges \in Nat
  BY DEF RInv, KInv, CInv, TypeOK, SnapshotsTyped, Snapshots
<1>a. u # w => pc'[u] = pc[u] /\ snapshot'[u] = snapshot[u]
  BY <1>0, OthersKept
<1>b. req' = req
  BY DEF Ingest, Start, ChooseKey, Create, CreateLoses, CountCreated, OnCreated,
     DeclareCreated, SetTableKeys, CheckAccess, ReadKeys, ReadColumns, AddColumn, Insert,
     DeclareFirst, Begin, Commit, Conflict, lake
<1>c. BatchRows(u, TRUE)' = BatchRows(u, TRUE)
  BY <1>b DEF BatchRows
<1>1. CASE Create(w)
  <2>1. ~exists /\ pc'[w] # "commit"
    BY <1>0, <1>1 DEF Create, Goto, TypeOK
  <2>2. pc'[u] # "commit"
    BY <1>0, <1>a, <2>1 DEF Local, OnTable
  <2> QED
    BY <2>2 DEF LateApart
<1>2. CASE Insert(w)
  <2>1. /\ UNCHANGED <<merges, snapshot>> /\ pc'[w] # "commit" /\ ~Keyed(w)
        /\ table' = table \cup BatchRows(w, writesX[w])
    BY <1>0, <1>2 DEF Insert, Reply, Goto, TypeOK, Local
  <2>2. SUFFICES ASSUME pc'[u] = "commit", snapshot[u].merges = merges,
                        NEW t \in table' \ snapshot[u].rows, NEW r \in BatchRows(u, TRUE)
                 PROVE  t.a # r.a
    BY <1>c, <2>1 DEF LateApart
  <2>3. u # w /\ pc[u] = "commit" /\ Keyed(u)
    BY <1>0, <1>a, <2>1, <2>2 DEF Local
  <2>4. CASE t \in table
    BY <1>0, <2>2, <2>3, <2>4 DEF LateApart
  <2>5. CASE t \notin table
    <3>1. PICK i \in DOMAIN req[w].batch : t.a = req[w].batch[i].a
      BY <2>1, <2>5 DEF BatchRows
    <3>2. PICK j \in DOMAIN req[u].batch : r.a = req[u].batch[j].a
      BY DEF BatchRows
    <3> QED
      BY <1>0, <2>1, <2>3, <3>1, <3>2 DEF Apart, Keyed
  <2> QED
    BY <2>4, <2>5
<1>3. CASE Begin(w)
  <2>1. UNCHANGED <<table, merges>> /\ (u = w => snapshot'[u].rows = table)
    BY <1>0, <1>3 DEF Begin, lake, SnapshotsTyped
  <2> QED
    BY <1>0, <1>a, <1>c, <2>1 DEF LateApart
<1>4. CASE Commit(w)
  <2>1. merges' = merges + 1 /\ UNCHANGED snapshot
    BY <1>4 DEF Commit
  <2>2. snapshot'[u].merges # merges'
    BY <1>0, <2>1 DEF OnlyAppends
  <2> QED
    BY <2>2 DEF LateApart
<1>5. CASE Ingest(w) /\ ~Create(w) /\ ~Insert(w) /\ ~Begin(w) /\ ~Commit(w)
  <2>1. UNCHANGED <<table, merges, snapshot>>
    BY <1>5 DEF Ingest, Start, ChooseKey, CreateLoses, CountCreated, OnCreated,
       DeclareCreated, SetTableKeys, CheckAccess, ReadKeys, ReadColumns, AddColumn, DeclareFirst,
       Conflict, lake
  <2>2. pc'[w] # "commit"
    BY <1>0, <1>5 DEF Ingest, Start, ChooseKey, CreateLoses, CountCreated, OnCreated,
       DeclareCreated, CheckAccess, ReadKeys, ReadColumns, AddColumn, AfterAlter, DeclareFirst,
       Conflict, Goto, Reply, TypeOK
  <2> QED
    BY <1>0, <1>a, <1>c, <2>1, <2>2 DEF LateApart
<1> QED
  BY <1>1, <1>2, <1>3, <1>4, <1>5

LEMMA StepR == ASSUME Apart, RInv, [Next]_vars PROVE RInv'
<1>0. KInv("a")'
  BY StepK DEF RInv, Apart, KeyColumns
<1>1. ASSUME NEW w \in Writers, Ingest(w) PROVE RInv'
  BY <1>0, <1>1, EffectStep, ColumnOthers, LateStep DEF RInv
<1>2. CASE UNCHANGED vars
  <2>1. UNCHANGED <<pc, effect, req, hasX, writesX, snapshot, merges, table>>
    BY <1>2 DEF vars
  <2>2. \A w \in Writers : BatchRows(w, TRUE)' = BatchRows(w, TRUE)
    BY <2>1 DEF BatchRows
  <2> QED
    BY <1>0, <2>1, <2>2, ZenonT(60) DEF RInv, EffectLate, ColumnLate, LateApart
<1> QED
  BY <1>1, <1>2 DEF Next

\* Deduplicated by column a, a batch is the rows that stand for its keys.
LEMMA DedupWins ==
  ASSUME RInv, NEW w \in Writers, NEW T, T = Dedupped(BatchRows(w, TRUE), "a", req[w].mode)
  PROVE  /\ T = Promise!Winners(BatchRows(w, TRUE), req[w].mode)
         /\ \A t \in T : t \in BatchRows(w, TRUE) /\ t \in Rows
         /\ \A r \in BatchRows(w, TRUE) : \E t \in T : t.a = r.a
<1>1. req[w] \in Asks[w] /\ TRUE \in BOOLEAN
  BY DEF RInv, KInv, CInv, TypeOK
<1>2. \A r \in BatchRows(w, TRUE) : r \in Rows /\ r.pos \in Nat
  BY <1>1, BatchShape DEF Rows
<1>3. \A r \in BatchRows(w, TRUE) : \E t \in T : t["a"] = r["a"]
  BY <1>1, DedupAll
<1>4. \A r, s \in BatchRows(w, TRUE) : s.pos >= r.pos <=> r.pos <= s.pos
  BY <1>2
<1>5. T = Promise!Winners(BatchRows(w, TRUE), req[w].mode)
  BY <1>4 DEF Dedupped, Promise!Winners
<1> QED
  BY <1>2, <1>3, <1>5 DEF Dedupped

\* CREATE TABLE AS writes its batch to a table without rows.
LEMMA CreateWrites ==
  ASSUME RInv, Apart, NEW w \in Writers, Create(w)
  PROVE  Promise!Written(table, table', BatchRows(w, TRUE), req[w].mode)
<1> DEFINE rows == BatchRows(w, TRUE)
<1>0. /\ TypeOK /\ Local(w) /\ OnlyKey("a") /\ pc[w] = "create" /\ ~exists
      /\ table' = IF Keyed(w) THEN Dedupped(rows, key[w], req[w].mode) ELSE rows
  BY DEF RInv, KInv, CInv, Create
<1>1. table = {} /\ req[w].mode \in Modes
  BY <1>0, IngestAssumption DEF TypeOK
<1>2. CASE ~Keyed(w)
  BY <1>0, <1>1, <1>2 DEF Keyed, Promise!Written, Promise!Appended
<1>3. CASE Keyed(w)
  <2>1. table' = Dedupped(rows, "a", req[w].mode)
    BY <1>0, <1>3 DEF Local, OnlyKey
  <2>2. /\ table' = Promise!Winners(rows, req[w].mode)
        /\ \A t \in table' : t \in rows /\ t \in Rows
        /\ \A r \in rows : \E t \in table' : t.a = r.a
    BY <2>1, DedupWins, ZenonT(60)
  <2>3. \A t \in table' : t.a \in Promise!KeysOf(rows) /\ Promise!Holds(t, t)
    BY <2>2 DEF Promise!KeysOf, Promise!Holds, Rows
  <2>4. Promise!KeysOf(rows) \subseteq Promise!KeysOf(table') /\ Promise!KeysOf(table) = {}
    BY <1>1, <2>2 DEF Promise!KeysOf
  <2>5. CASE req[w].mode = "upsert"
    BY <1>1, <2>2, <2>3, <2>4, <2>5 DEF Promise!Written, Promise!Upserted
  <2>6. CASE req[w].mode = "dedupe"
    BY <1>1, <2>2, <2>3, <2>4, <2>6 DEF Promise!Written, Promise!Deduplicated
  <2> QED
    BY <1>1, <1>3, <2>5, <2>6 DEF Modes, Keyed
<1> QED
  BY <1>2, <1>3

\* INSERT writes its batch beside the rows that are there.
LEMMA InsertWrites ==
  ASSUME RInv, Apart, NEW w \in Writers, Insert(w)
  PROVE  Promise!Written(table, table', BatchRows(w, TRUE), req[w].mode)
<1>1. ~Keyed(w) /\ table' = table \cup BatchRows(w, TRUE)
  BY WritesBatch DEF RInv, KInv, CInv, Local, Insert
<1> QED
  BY <1>1 DEF Keyed, Promise!Written, Promise!Appended

\* MERGE writes its batch to the table as it is at the commit, though the
\* transaction sees it as it was when it began.
LEMMA CommitWrites ==
  ASSUME RInv, Apart, NEW w \in Writers, Commit(w)
  PROVE  Promise!Written(table, table', BatchRows(w, TRUE), req[w].mode)
<1> DEFINE rows == BatchRows(w, TRUE)
           old == snapshot[w].rows
           src == Source(w)
           mode == req[w].mode
           keys == Promise!KeysOf(rows)
<1>0. /\ TypeOK /\ SnapshotsTyped /\ Local(w) /\ OnlyKey("a") /\ OnlyAppends(w) /\ LateApart(w)
      /\ pc[w] = "commit" /\ snapshot[w].merges = merges
  BY DEF RInv, KInv, CInv, Commit, Overlaps
<1>1. key[w] = "a" /\ mode \in {"upsert", "dedupe"}
  BY <1>0, IngestAssumption DEF Local, OnlyKey, TypeOK, Keyed, Modes
<1>2. src = Dedupped(rows, "a", mode)
  BY <1>0, <1>1, WritesBatch DEF Source
<1>3. table' = (table \ old) \cup Merged(old, src, "a", mode)
  BY <1>1 DEF Commit
<1>4. old \subseteq table /\ \A t \in table \ old : t.a \notin keys
  BY <1>0 DEF OnlyAppends, LateApart, Promise!KeysOf
<1>5. /\ src = Promise!Winners(rows, mode)
      /\ \A t \in src : t \in Rows /\ t.a \in keys /\ Promise!Holds(t, t)
      /\ \A c \in keys : \E t \in src : t.a = c
  <2>1. /\ src = Promise!Winners(rows, mode)
        /\ \A t \in src : t \in rows /\ t \in Rows
        /\ \A r \in rows : \E t \in src : t.a = r.a
    BY <1>2, DedupWins
  <2> HIDE DEF rows, src, mode
  <2>2. \A t \in Rows : Promise!Holds(t, t)
    BY DEF Promise!Holds, Rows
  <2> QED
    BY <2>1, <2>2 DEF Promise!KeysOf
<1> HIDE DEF rows, old, src, mode, keys
<1>6. \A t \in old : t \in Matching(old, src, "a") <=> t.a \in keys
  BY <1>5 DEF Matching
<1>7. \A t \in src : t \in Matching(src, old, "a") <=> \E q \in old : q.a = t.a
  BY DEF Matching
<1>8. CASE mode = "upsert"
  <2>1. table' = (table \ old) \cup (old \ Matching(old, src, "a")) \cup Update(old, src, "a")
                 \cup (src \ Matching(src, old, "a"))
    BY <1>3, <1>8 DEF Merged
  <2> DEFINE new(q) == [CHOOSE s \in src : s["a"] = q["a"] EXCEPT !.id = q.id]
  <2>2. ASSUME NEW q \in Matching(old, src, "a")
        PROVE  new(q).a = q.a /\ \E r \in src : Promise!Holds(new(q), r)
    <3> DEFINE c == CHOOSE s \in src : s["a"] = q["a"]
    <3>1. \E s \in src : s["a"] = q["a"]
      BY DEF Matching
    <3>2. c \in src /\ c["a"] = q["a"]
      BY <3>1
    <3>3. c \in Rows /\ new(q) = [c EXCEPT !.id = q.id]
      BY <1>5, <3>2
    <3> HIDE DEF c
    <3>4. new(q).a = c.a /\ new(q).id = q.id
      BY <3>3 DEF Rows
    <3> QED
      BY <3>2, <3>3, <3>4 DEF Promise!Holds
  <2>3. Update(old, src, "a") = {new(q) : q \in Matching(old, src, "a")}
    BY DEF Update
  <2> HIDE DEF new
  <2>4. \A t \in Update(old, src, "a") : t.a \in keys /\ \E r \in src : Promise!Holds(t, r)
    BY <1>6, <2>2, <2>3 DEF Matching
  <2>5. {t \in table : t.a \notin keys} = {t \in table' : t.a \notin keys}
    BY <1>4, <1>5, <1>6, <2>1, <2>4
  <2>6. \A t \in table' : t.a \in keys => \E r \in src : Promise!Holds(t, r)
    BY <1>4, <1>5, <1>6, <2>1, <2>4
  <2>7. ASSUME NEW c \in keys PROVE \E t \in table' : t.a = c
    <3>1. PICK s \in src : s.a = c
      BY <1>5
    <3>2. CASE s \in Matching(src, old, "a")
      <4>1. PICK q \in old : q.a = c
        BY <1>7, <3>1, <3>2
      <4>2. q \in Matching(old, src, "a")
        BY <1>6, <4>1
      <4>3. new(q) \in table' /\ new(q).a = c
        BY <2>1, <2>2, <2>3, <4>1, <4>2
      <4> QED
        BY <4>3
    <3>3. CASE s \notin Matching(src, old, "a")
      BY <2>1, <3>1, <3>3
    <3> QED
      BY <3>2, <3>3
  <2>8. keys \subseteq Promise!KeysOf(table')
    BY <2>7 DEF Promise!KeysOf
  <2>9. Promise!Upserted(table, table', rows)
    BY <1>5, <1>8, <2>5, <2>6, <2>8 DEF Promise!Upserted, keys
  <2> QED
    BY <1>8, <2>9 DEF Promise!Written, mode, rows
<1>9. CASE mode = "dedupe"
  <2>1. table' = (table \ old) \cup old \cup (src \ Matching(src, old, "a"))
    BY <1>3, <1>9 DEF Merged
  <2>2. table \subseteq table'
    BY <1>4, <2>1
  <2>3. \A t \in table' \ table : t \in src /\ \A q \in table : q.a # t.a
    BY <1>4, <1>5, <1>7, <2>1
  <2>4. \A t \in table' \ table : t.a \notin Promise!KeysOf(table) /\ t \in src
    BY <2>3 DEF Promise!KeysOf
  <2>5. ASSUME NEW c \in keys PROVE \E t \in table' : t.a = c
    <3>1. PICK s \in src : s.a = c
      BY <1>5
    <3> QED
      BY <1>4, <1>7, <2>1, <3>1
  <2>6. keys \subseteq Promise!KeysOf(table')
    BY <2>5 DEF Promise!KeysOf
  <2>7. Promise!Deduplicated(table, table', rows)
    BY <1>5, <1>9, <2>2, <2>4, <2>6 DEF Promise!Deduplicated, keys
  <2> QED
    BY <1>9, <2>7 DEF Promise!Written, mode, rows
<1> QED
  BY <1>1, <1>8, <1>9

\* Each step of a request is one of KeyedTable, or changes nothing there.
LEMMA StepPromise ==
  ASSUME RInv, Apart, [Next]_vars
  PROVE  [Promise!Next]_(Promise!vars)
<1> DEFINE Stage(a, e) == IF a = "ok" THEN "ok" ELSE IF a # None THEN "rejected"
                          ELSE IF e # None THEN "applied" ELSE "open"
           outcome == [w \in Writers |-> Stage(answer[w], effect[w])]
<1>1. CASE UNCHANGED vars
  <2>1. UNCHANGED <<table, answer, effect, req>>
    BY <1>1 DEF vars
  <2> QED
    BY <2>1 DEF Promise!vars
<1>2. ASSUME NEW w \in Writers, Ingest(w) PROVE [Promise!Next]_(Promise!vars)
  <2>0. /\ TypeOK /\ Local(w) /\ EffectLate(w) /\ Faults = {}
        /\ DOMAIN answer = Writers /\ DOMAIN effect = Writers
        /\ answer[w] \in Answers \cup {None} /\ effect[w] \in Counts \cup {None}
        /\ None \notin Answers /\ None # "ok"
    BY IngestAssumption DEF RInv, KInv, CInv, TypeOK, Apart, Answers
  <2>a. req' = req
    BY <1>2 DEF Ingest, Start, ChooseKey, Create, CreateLoses, CountCreated, OnCreated,
       DeclareCreated, SetTableKeys, CheckAccess, ReadKeys, ReadColumns, AddColumn, Insert,
       DeclareFirst, Begin, Commit, Conflict, lake
  <2>c. Promise!Brought(w) = BatchRows(w, TRUE)
    BY DEF Promise!Brought, BatchRows
  <2>d. /\ outcome[w] = Stage(answer[w], effect[w])
        /\ outcome' = [outcome EXCEPT ![w] = Stage(answer'[w], effect'[w])]
    <3>1. \A u \in Writers \ {w} : answer'[u] = answer[u] /\ effect'[u] = effect[u]
      BY <1>2, <2>0, OthersKept
    <3>2. outcome' = [u \in Writers |-> Stage(answer'[u], effect'[u])]
      OBVIOUS
    <3> HIDE DEF Stage
    <3> QED
      BY <3>1, <3>2
  <2>e. effect'[w] \in Counts \cup {None} /\ EffectLate(w)' /\ EffectLate(w)
    BY <1>2, EffectStep, OwnStep DEF RInv, KInv, TypeOK
  <2> HIDE DEF outcome
  <2>1. CASE UNCHANGED <<table, answer, effect>>
    <3>1. UNCHANGED outcome
      BY <2>1 DEF outcome
    <3> QED
      BY <2>1, <2>a, <3>1 DEF Promise!vars, outcome
  <2>2. ASSUME NEW o \in {"applied", "ok"}, outcome[w] = "open", outcome' = [outcome EXCEPT ![w] = o],
               Promise!Written(table, table', BatchRows(w, TRUE), req[w].mode)
        PROVE  [Promise!Next]_(Promise!vars)
    <3>1. outcome'[w] = o /\ o # "open"
      BY <2>2 DEF outcome
    <3>2. outcome' # outcome
      BY <2>2, <3>1
    <3>3. Promise!Apply(w)
      BY <2>2, <2>a, <2>c DEF Promise!Apply, outcome
    <3> QED
      BY <3>2, <3>3 DEF Promise!Next, outcome
  <2>3. ASSUME outcome[w] = "applied", outcome' = [outcome EXCEPT ![w] = "ok"], UNCHANGED table
        PROVE  [Promise!Next]_(Promise!vars)
    <3>1. outcome'[w] = "ok"
      BY <2>3 DEF outcome
    <3>2. outcome' # outcome
      BY <2>3, <3>1
    <3>3. Promise!Confirm(w)
      BY <2>3, <2>a DEF Promise!Confirm, outcome
    <3> QED
      BY <3>2, <3>3 DEF Promise!Next, outcome
  <2>4. ASSUME outcome[w] = "open", outcome' = [outcome EXCEPT ![w] = "rejected"], UNCHANGED table
        PROVE  [Promise!Next]_(Promise!vars)
    <3>1. outcome'[w] = "rejected"
      BY <2>4 DEF outcome
    <3>2. outcome' # outcome
      BY <2>4, <3>1
    <3>3. Promise!Reject(w)
      BY <2>4, <2>a DEF Promise!Reject, outcome
    <3> QED
      BY <3>2, <3>3 DEF Promise!Next, outcome
  <2>f. pc[w] \in Before => outcome[w] = "open"
    BY <2>0, <2>d, <2>e DEF EffectLate, Local, Before
  <2>g. pc[w] \in {"acl", "declare"} => outcome[w] = "applied"
    BY <2>0, <2>d, <2>e DEF EffectLate, Local
  <2>5. CASE Create(w)
    <3>1. pc[w] = "create" /\ answer' = answer /\ pc'[w] \in {"count", "acl"}
      BY <2>0, <2>5 DEF Create, Goto, TypeOK
    <3>2. outcome' = [outcome EXCEPT ![w] = "applied"]
      BY <2>0, <2>d, <2>e, <3>1 DEF EffectLate, Local
    <3> QED
      BY <2>2, <2>5, <2>f, <3>1, <3>2, CreateWrites DEF Before
  <2>6. CASE Insert(w) \/ Commit(w)
    <3>1. pc[w] \in {"insert", "commit"} /\ answer' = [answer EXCEPT ![w] = "ok"]
      BY <2>6 DEF Insert, Commit, Reply
    <3>2. outcome' = [outcome EXCEPT ![w] = "ok"]
      BY <2>0, <2>d, <3>1
    <3> QED
      BY <2>2, <2>6, <2>f, <3>1, <3>2, InsertWrites, CommitWrites DEF Before
  <2>7. CASE (OnCreated(w) \/ DeclareCreated(w)) /\ answer' # answer
    <3>1. /\ pc[w] \in {"acl", "declare"} /\ answer' = [answer EXCEPT ![w] = "ok"]
          /\ UNCHANGED table
      BY <2>0, <2>7 DEF OnCreated, DeclareCreated, SetTableKeys, Reply, lake
    <3>2. outcome' = [outcome EXCEPT ![w] = "ok"]
      BY <2>0, <2>d, <3>1
    <3> QED
      BY <2>3, <2>g, <3>1, <3>2
  <2>8. CASE /\ answer' # answer
             /\ \/ ChooseKey(w) \/ CreateLoses(w) \/ CheckAccess(w) \/ ReadKeys(w)
                \/ DeclareFirst(w) \/ Conflict(w)
    <3>1. /\ pc[w] \in Before /\ UNCHANGED table
          /\ \E a \in Answers \ {"ok"} : answer' = [answer EXCEPT ![w] = a]
      BY <2>8 DEF ChooseKey, CreateLoses, CheckAccess, ReadKeys, DeclareFirst, Conflict,
         Reply, lake, Before, Answers
    <3>2. answer'[w] \in Answers \ {"ok"} /\ answer'[w] # None
      BY <2>0, <3>1
    <3>3. outcome' = [outcome EXCEPT ![w] = "rejected"]
      BY <2>d, <3>2
    <3> QED
      BY <2>4, <2>f, <3>1, <3>3
  <2>9. CASE /\ ~Create(w) /\ ~Insert(w) /\ ~Commit(w) /\ answer' = answer
    <3>1. UNCHANGED <<table, effect>>
      BY <1>2, <2>9 DEF Ingest, Start, ChooseKey, CreateLoses, CountCreated, OnCreated,
         DeclareCreated, SetTableKeys, CheckAccess, ReadKeys, ReadColumns, AddColumn,
         DeclareFirst, Begin, Conflict, lake
    <3> QED
      BY <2>1, <2>9, <3>1
  <2>10. CASE Start(w) \/ CountCreated(w) \/ ReadColumns(w) \/ AddColumn(w) \/ Begin(w)
    <3>1. UNCHANGED <<table, effect, answer>>
      BY <2>10 DEF Start, CountCreated, ReadColumns, AddColumn, Begin, lake
    <3> QED
      BY <2>1, <3>1
  <2> QED
    BY <1>2, <2>5, <2>6, <2>7, <2>8, <2>9, <2>10 DEF Ingest
<1> QED
  BY <1>1, <1>2 DEF Next

\* Batches take effect one at a time, each as a whole, as the rows before and after
\* tell, and with the answer that belongs to it: the statements of ingest.js, which
\* work on a snapshot and are retried, implement KeyedTable.
THEOREM TakesEffectAtOnce == Apart => (Spec => Atomic)
<1> SUFFICES ASSUME Apart PROVE Spec => Atomic
  OBVIOUS
<1>1. Init => RInv /\ Promise!Init
  <2>1. Init => Promise!Init
    BY IngestAssumption DEF Init, Promise!Init, Answers
  <2> QED
    BY <2>1, InitR
<1>2. RInv /\ [Next]_vars => RInv' /\ [Promise!Next]_(Promise!vars)
  BY StepR, StepPromise
<1> QED
  BY <1>1, <1>2, PTL DEF Spec, Atomic, Promise!Spec

----------------------------------------------------------------------------
(* STRUCT columns (StructTypes)                                            *)

\* Paths inside of one another.
LEMMA PathsAbove ==
  ASSUME NEW p \in Seq(FieldNames), NEW q \in Above(p)
  PROVE  /\ q \in Seq(FieldNames) /\ Len(q) \in Nat /\ Len(p) \in Nat /\ Len(q) < Len(p) /\ q # p
         /\ q = SubSeq(p, 1, Len(q))
         /\ Above(q) \subseteq Above(p)
         /\ \A r \in Above(p) : r = q \/ r \in Above(q) \/ q \in Above(r)
<1>1. ASSUME NEW r \in Above(p)
      PROVE  /\ r \in Seq(FieldNames) /\ Len(r) \in 0 .. Len(p) - 1 /\ r = SubSeq(p, 1, Len(r))
  <2>1. PICK i \in 0 .. Len(p) - 1 : r = SubSeq(p, 1, i)
    BY DEF Above
  <2>2. r \in Seq(FieldNames) /\ Len(r) = i
    BY <2>1
  <2> QED
    BY <2>1, <2>2
<1>2. ASSUME NEW i \in 0 .. Len(p) - 1, NEW j \in 0 .. i PROVE SubSeq(SubSeq(p, 1, i), 1, j) = SubSeq(p, 1, j)
  BY SMTT(60)
<1>3. ASSUME NEW r \in Above(p), NEW s \in Above(p), Len(r) < Len(s) PROVE r \in Above(s)
  <2>1. Len(s) \in 0 .. Len(p) - 1 /\ Len(r) \in 0 .. Len(s) - 1
    BY <1>1, <1>3
  <2>2. r = SubSeq(p, 1, Len(r)) /\ s = SubSeq(p, 1, Len(s))
    BY <1>1
  <2>3. SubSeq(SubSeq(p, 1, Len(s)), 1, Len(r)) = SubSeq(p, 1, Len(r))
    BY <1>2, <2>1
  <2>4. r = SubSeq(s, 1, Len(r))
    BY <2>2, <2>3
  <2> QED
    BY <2>1, <2>4, ZenonT(60) DEF Above
<1>4. ASSUME NEW r \in Above(q) PROVE r \in Above(p)
  <2>1. PICK i \in 0 .. Len(q) - 1 : r = SubSeq(q, 1, i)
    BY DEF Above
  <2>2. r = SubSeq(p, 1, i) /\ i \in 0 .. Len(p) - 1
    BY <1>1, <1>2, <2>1
  <2> QED
    BY <2>2 DEF Above
<1>5. \A r \in Above(p) : Len(r) = Len(q) => r = q
  BY <1>1
<1>6. \A r \in Above(p) : r = q \/ r \in Above(q) \/ q \in Above(r)
  <2> TAKE r \in Above(p)
  <2>1. Len(r) = Len(q) \/ Len(r) < Len(q) \/ Len(q) < Len(r)
    BY <1>1
  <2> QED
    BY <1>3, <1>5, <2>1
<1>7. Len(p) \in Nat /\ q # p
  BY <1>1
<1> QED
  BY <1>1, <1>4, <1>6, <1>7

\* Every path but the column's own is inside of the column.
LEMMA TopPaths ==
  ASSUME NEW p \in Seq(FieldNames), p # <<>>
  PROVE  /\ <<>> \in Above(p)
         /\ Len(p) = 1 \/ \E q \in Above(p) : Len(q) = 1
<1>1. Len(p) \in Nat /\ Len(p) # 0
  OBVIOUS
<1>2. <<>> = SubSeq(p, 1, 0)
  OBVIOUS
<1>3. 0 \in 0 .. Len(p) - 1 /\ (Len(p) # 1 => 1 \in 0 .. Len(p) - 1)
  <2>1. \A n \in Nat : n # 0 => 0 \in 0 .. n - 1 /\ (n # 1 => 1 \in 0 .. n - 1)
    OBVIOUS
  <2> QED
    BY <1>1, <2>1
<1>4. <<>> \in Above(p) /\ (Len(p) # 1 => SubSeq(p, 1, 1) \in Above(p))
  BY <1>2, <1>3 DEF Above
<1>5. Len(p) # 1 => Len(SubSeq(p, 1, 1)) = 1
  BY <1>1
<1> QED
  BY <1>4, <1>5

\* Of some paths that there are, one is the shortest.
LEMMA ShortestPath ==
  ASSUME NEW S, S \subseteq Seq(FieldNames), S # {}
  PROVE  \E p \in S : \A q \in S : Len(p) <= Len(q)
<1> DEFINE T == {Len(p) : p \in S}
<1>1. T # {} /\ \A p \in S : Len(p) \in Nat
  <2>1. PICK p \in S : TRUE
    OBVIOUS
  <2>2. Len(p) \in T
    BY <2>1
  <2>3. ASSUME NEW q \in S PROVE Len(q) \in Nat
    BY <2>3
  <2> QED
    BY <2>2, <2>3
<1>2. PICK m \in T : \A k \in T : m <= k
  <2>1. T \subseteq Nat
    BY <1>1
  <2> HIDE DEF T
  <2> QED
    BY <1>1, <2>1, Least
<1> QED
  BY <1>2

\* No field of n is lost in t for want of a field: it is there, or inside of
\* something that is no STRUCT.
Covers(t, n) ==
  \A p \in DOMAIN n : p \in DOMAIN t \/ \E q \in Above(p) \cap DOMAIN t : t[q] # "STRUCT"

\* What a column holds, it holds when it was widened.
LEMMA KeepsHolds ==
  ASSUME NEW n, NEW t, NEW u, IsType(n), Keeps(t, u, TRUE)
  PROVE  /\ Covers(t, n) => Covers(u, n)
         /\ HoldsType(t, n) => HoldsType(u, n)
<1>1. ASSUME NEW p \in DOMAIN n, NEW q \in DOMAIN t, q = p \/ q \in Above(p)
      PROVE  \/ q \in DOMAIN u /\ u[q] = t[q]
             \/ p \in DOMAIN u
             \/ \E r \in Above(p) \cap DOMAIN u : u[r] = Text
  <2>1. CASE q \in DOMAIN u /\ u[q] = t[q]
    BY <2>1
  <2>2. CASE \E r \in DOMAIN u : (r = q \/ r \in Above(q)) /\ u[r] = Text
    <3>1. PICK r \in DOMAIN u : (r = q \/ r \in Above(q)) /\ u[r] = Text
      BY <2>2
    <3>2. r = p \/ r \in Above(p)
      BY <1>1, <3>1, PathsAbove DEF IsType
    <3> QED
      BY <3>1, <3>2
  <2> QED
    BY <2>1, <2>2 DEF Keeps
<1>2. Text # "STRUCT"
  BY DEF Text
<1>3. ASSUME Covers(t, n), NEW p \in DOMAIN n
      PROVE  p \in DOMAIN u \/ \E q \in Above(p) \cap DOMAIN u : u[q] # "STRUCT"
  <2>1. PICK q \in DOMAIN t : q = p \/ (q \in Above(p) /\ t[q] # "STRUCT")
    BY <1>3 DEF Covers
  <2> QED
    BY <1>1, <1>2, <2>1
<1>4. ASSUME HoldsType(t, n), NEW p \in DOMAIN n
      PROVE  p \in DOMAIN u \/ \E q \in Above(p) \cap DOMAIN u : u[q] = Text
  <2>1. PICK q \in DOMAIN t : q = p \/ (q \in Above(p) /\ t[q] = Text)
    BY <1>4 DEF HoldsType
  <2> QED
    BY <1>1, <2>1
<1> QED
  BY <1>3, <1>4 DEF Covers, HoldsType

\* A cast of what the column covers drops nothing.
LEMMA CastHolds ==
  ASSUME NEW n, NEW t, IsType(n), Covers(t, n), Casts(n, t)
  PROVE  HoldsType(t, n)
<1> SUFFICES ASSUME NEW p \in DOMAIN n, p \notin DOMAIN t
             PROVE  \E q \in Above(p) \cap DOMAIN t : t[q] = Text
  BY DEF HoldsType
<1>1. PICK q \in Above(p) \cap DOMAIN t : t[q] # "STRUCT"
  BY DEF Covers
<1>2. q \in DOMAIN n /\ n[q] = "STRUCT"
  BY <1>1 DEF IsType
<1> QED
  BY <1>1, <1>2 DEF Casts

\* A batch that is written without widening finds its fields.
LEMMA WriteCovers ==
  ASSUME NEW s, NEW n, IsType(s), IsType(n), Action(s, n) = "write"
  PROVE  Covers(s, n)
<1> SUFFICES ASSUME NEW p \in DOMAIN n, p \notin DOMAIN s
             PROVE  \E q \in Above(p) \cap DOMAIN s : s[q] # "STRUCT"
  BY DEF Covers
<1>1. p \in Seq(FieldNames) /\ p # <<>> /\ s # n
  BY DEF IsType
<1>2. <<>> \in Above(p) /\ n[<<>>] = "STRUCT" /\ <<>> \in DOMAIN s
  BY <1>1, TopPaths DEF IsType
<1>3. CASE s[<<>>] # "STRUCT"
  BY <1>2, <1>3
<1>4. CASE s[<<>>] = "STRUCT"
  <2>1. ~NeedWiden(s, n)
    BY <1>1, <1>2, <1>4 DEF Action, IsStruct
  <2>2. PICK f \in Fields(n) : f = p \/ f \in Above(p)
    <3>1. Len(p) = 1 \/ \E q \in Above(p) : Len(q) = 1
      BY <1>1, TopPaths
    <3> QED
      BY <3>1 DEF Fields, IsType
  <2>3. f \in DOMAIN s /\ f \in Above(p)
    BY <2>1, <2>2 DEF NeedWiden
  <2>4. n[f] = "STRUCT"
    BY <2>3 DEF IsType
  <2>5. Under(s, f) # Under(n, f)
    <3>1. p \in DOMAIN Under(n, f) /\ p \notin DOMAIN Under(s, f)
      BY <2>3 DEF Under
    <3> QED
      BY <3>1
  <2>6. s[f] # "STRUCT"
    BY <2>1, <2>2, <2>4, <2>5 DEF NeedWiden
  <2> QED
    BY <2>3, <2>6
<1> QED
  BY <1>3, <1>4

\* The union of two types covers both; it is stated for the second.
LEMMA UnionCovers ==
  ASSUME NEW s, NEW n, IsType(s), IsType(n)
  PROVE  Covers(Union(s, n), n)
<1> DEFINE u == Union(s, n)
<1> SUFFICES ASSUME NEW p \in DOMAIN n, p \notin DOMAIN u
             PROVE  \E q \in Above(p) \cap DOMAIN u : u[q] # "STRUCT"
  BY DEF Covers
<1>1. DOMAIN u = {q \in DOMAIN s \cup DOMAIN n : Above(q) \cap Clashes(s, n) = {}}
  BY DEF Union
<1>2. Above(p) \cap Clashes(s, n) # {} /\ Above(p) \cap Clashes(s, n) \subseteq Seq(FieldNames)
  BY <1>1 DEF Clashes, IsType
<1>3. PICK q \in Above(p) \cap Clashes(s, n) : \A r \in Above(p) \cap Clashes(s, n) : Len(q) <= Len(r)
  BY <1>2, ShortestPath
<1>4. q \in Seq(FieldNames) /\ p \in Seq(FieldNames)
  BY <1>2, <1>3 DEF IsType
<1>5. Above(q) \cap Clashes(s, n) = {}
  <2> SUFFICES ASSUME NEW r \in Above(q), r \in Clashes(s, n) PROVE FALSE
    OBVIOUS
  <2>1. r \in Above(p) /\ Len(r) < Len(q) /\ Len(r) \in Nat /\ Len(q) \in Nat
    BY <1>3, <1>4, PathsAbove
  <2> QED
    BY <1>3, <2>1
<1>6. q \in DOMAIN u /\ u[q] = Text
  BY <1>1, <1>3, <1>5 DEF Union, Clashes
<1> QED
  BY <1>3, <1>6 DEF Text

\* And it is a type.
LEMMA UnionIsType ==
  ASSUME NEW s, NEW t, IsType(s), IsType(t)
  PROVE  IsType(Union(s, t))
<1> DEFINE u == Union(s, t)
<1> DEFINE both == DOMAIN s \cup DOMAIN t
<1>1. /\ DOMAIN u = {p \in both : Above(p) \cap Clashes(s, t) = {}}
      /\ \A p \in DOMAIN u : u[p] = IF p \in Clashes(s, t) THEN Text ELSE IF p \in DOMAIN s THEN s[p] ELSE t[p]
  BY DEF Union
<1>2. both \subseteq Seq(FieldNames) /\ <<>> \in both
  BY DEF IsType
<1>3. <<>> \in DOMAIN u
  <2>1. Above(<<>>) = {}
    BY DEF Above
  <2> QED
    BY <1>1, <1>2, <2>1
<1>4. ASSUME NEW p \in DOMAIN u, NEW q \in Above(p) PROVE q \in DOMAIN u /\ u[q] = "STRUCT"
  <2>1. p \in both /\ p \in Seq(FieldNames) /\ q \notin Clashes(s, t)
    BY <1>1, <1>2
  <2>2. Above(q) \subseteq Above(p)
    BY <2>1, PathsAbove
  <2>3. \/ q \in DOMAIN s /\ s[q] = "STRUCT"
        \/ q \in DOMAIN t /\ t[q] = "STRUCT"
    BY <2>1 DEF IsType
  <2>4. q \in DOMAIN u
    BY <1>1, <2>2, <2>3
  <2> QED
    BY <1>1, <2>1, <2>3, <2>4 DEF Clashes
<1>5. ASSUME NEW q \in DOMAIN u, u[q] = "STRUCT" PROVE \E p \in DOMAIN u : q \in Above(p)
  <2> DEFINE B == {p \in both : q \in Above(p)}
  <2>1. q \in both /\ q \notin Clashes(s, t) /\ Above(q) \cap Clashes(s, t) = {}
    BY <1>1, <1>5 DEF Text
  <2>2. \/ q \in DOMAIN s /\ s[q] = "STRUCT"
        \/ q \in DOMAIN t /\ t[q] = "STRUCT"
    BY <1>1, <1>5, <2>1
  <2>3. B # {}
    BY <2>2 DEF IsType
  <2>4. PICK p \in B : \A r \in B : Len(p) <= Len(r)
    BY <1>2, <2>3, ShortestPath
  <2>5. p \in Seq(FieldNames)
    BY <1>2, <2>4
  <2>6. Above(p) \cap Clashes(s, t) = {}
    <3> SUFFICES ASSUME NEW r \in Above(p), r \in Clashes(s, t) PROVE FALSE
      OBVIOUS
    <3>1. r = q \/ r \in Above(q) \/ q \in Above(r)
      BY <2>4, <2>5, PathsAbove
    <3>2. q \in Above(r)
      BY <2>1, <3>1
    <3>3. r \in B
      BY <3>2 DEF Clashes
    <3>4. Len(r) < Len(p) /\ Len(r) \in Nat /\ Len(p) \in Nat
      BY <2>5, PathsAbove
    <3> QED
      BY <2>4, <3>3, <3>4
  <2> QED
    BY <1>1, <2>4, <2>6
<1> QED
  BY <1>1, <1>2, <1>3, <1>4, <1>5 DEF IsType

\* The inductive invariant of NoFieldDropped: what is to be written now, the
\* column covers, whatever the batches that widen it at once.
StructInv ==
  /\ StructTypeOK
  /\ seenType = [b \in Batches |-> seenType[b]] /\ stored = [b \in Batches |-> stored[b]]
  /\ \A b \in Batches :
       /\ batchStage[b] = "write" => Covers(column, incoming[b])
       /\ batchStage[b] = "stored" => HoldsType(stored[b], incoming[b]) /\ HoldsType(column, incoming[b])

THEOREM StructInitially == StructInit => StructInv
BY StructAssumption DEF StructInit, StructInv, StructTypeOK

THEOREM StructStep == StructInv /\ [StructNext]_structvars => StructInv'
<1> SUFFICES ASSUME StructInv, [StructNext]_structvars PROVE StructInv'
  OBVIOUS
<1>0. \A b \in Batches : IsType(incoming[b])
  BY StructAssumption DEF StructInv, StructTypeOK
<1>1. ASSUME NEW b \in Batches, Resolve(b) PROVE StructInv'
  <2>1. batchStage'[b] = "write" => Covers(column, incoming[b])
    BY <1>0, <1>1, WriteCovers DEF Resolve, Move, StructInv, StructTypeOK
  <2>2. Action(column, incoming[b]) \in {"write", "skipped", "alter"}
    BY DEF Action
  <2> QED
    BY <1>1, <2>1, <2>2 DEF Resolve, Move, StructInv, StructTypeOK
<1>2. ASSUME NEW b \in Batches, AlterColumn(b) PROVE StructInv'
  <2>1. CASE UNCHANGED column /\ Move(b, "skipped")
    BY <1>2, <2>1 DEF AlterColumn, Move, StructInv, StructTypeOK
  <2>2. CASE /\ Keeps(column, Union(seenType[b], incoming[b]), TRUE)
             /\ column' = Union(seenType[b], incoming[b]) /\ Move(b, "write")
    <3>1. IsType(column') /\ Covers(column', incoming[b])
      BY <1>0, <2>2, UnionCovers, UnionIsType DEF StructInv, StructTypeOK
    <3>2. \A c \in Batches : /\ Covers(column, incoming[c]) => Covers(column', incoming[c])
                             /\ HoldsType(column, incoming[c]) => HoldsType(column', incoming[c])
      BY <1>0, <2>2, KeepsHolds
    <3> QED
      BY <1>2, <2>2, <3>1, <3>2 DEF AlterColumn, Move, StructInv, StructTypeOK
  <2> QED
    BY <1>2, <2>1, <2>2 DEF AlterColumn
<1>3. ASSUME NEW b \in Batches, InsertBatch(b) PROVE StructInv'
  <2>1. Casts(incoming[b], column) => HoldsType(column, incoming[b])
    BY <1>0, <1>3, CastHolds DEF InsertBatch, StructInv
  <2> QED
    BY <1>3, <2>1 DEF InsertBatch, Move, StructInv, StructTypeOK
<1>4. CASE UNCHANGED structvars
  BY <1>4 DEF structvars, StructInv, StructTypeOK
<1> QED
  BY <1>1, <1>2, <1>3, <1>4 DEF StructNext

\* For any batches and any types, nested to any depth: no field of a batch
\* that was stored was dropped, and none leaves the column later; and the
\* column's type stays one.
THEOREM NoFieldEverDropped == StructSpec => [](StructTypeOK /\ NoFieldDropped)
<1>1. StructInv => StructTypeOK /\ NoFieldDropped
  BY DEF StructInv, NoFieldDropped
<1> QED
  BY <1>1, StructInitially, StructStep, PTL DEF StructSpec
=============================================================================
