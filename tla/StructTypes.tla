----------------------------- MODULE StructTypes -----------------------------
(***************************************************************************)
(* STRUCT columns that widen (src/schema-evolution.js): batches whose JSON *)
(* infers another shape for a column than the table has, as evolveSchema   *)
(* (src/ingest.js) resolves it.  Batches interleave between reading the    *)
(* columns, ALTER and INSERT.                                              *)
(*                                                                         *)
(* A type is a function from the paths of its fields, at any depth, to     *)
(* names: <<>> is the column itself, and what has fields is a STRUCT.  The *)
(* text of a merged STRUCT quotes every field name, which DuckDB's does    *)
(* not, so comparing the two texts never finds them equal.                 *)
(***************************************************************************)
EXTENDS Integers, Sequences

CONSTANTS
  Batches,
  FieldNames,
  ColumnTypes \* the types a column can have, and a batch can infer

\* The paths that p is inside of.
Above(p) == {SubSeq(p, 1, i) : i \in 0 .. Len(p) - 1}

\* Types: what a field is inside of is a STRUCT, and a STRUCT is not empty.
IsType(t) ==
  /\ <<>> \in DOMAIN t /\ DOMAIN t \subseteq Seq(FieldNames)
  /\ \A p \in DOMAIN t : \A q \in Above(p) : q \in DOMAIN t /\ t[q] = "STRUCT"
  /\ \A q \in DOMAIN t : t[q] = "STRUCT" => \E p \in DOMAIN t : q \in Above(p)

ASSUME StructAssumption == \A t \in ColumnTypes : IsType(t)

VARIABLES
  column,     \* the type of the column in the table
  incoming,   \* the type each batch infers for it
  seenType,   \* the type each batch read
  batchStage, \* "read", "alter", "write", or "stored", "skipped", "failed"
  stored      \* the type of the column when the batch was written

structvars == <<column, incoming, seenType, batchStage, stored>>

Text == "VARCHAR"
IsStruct(t) == t[<<>>] = "STRUCT"
Fields(t) == {p \in DOMAIN t : Len(p) = 1}

\* A field of a type, with what is inside of it.
Under(t, p) == [q \in {q \in DOMAIN t : q = p \/ p \in Above(q)} |-> t[q]]

\* unionStructTypes of two STRUCTs: fields of both; two STRUCTs are merged, and
\* any other conflict falls back to VARCHAR, with what was inside.
Clashes(s, t) == {p \in DOMAIN s \cap DOMAIN t : s[p] # t[p]}
Union(s, t) ==
  [p \in {p \in DOMAIN s \cup DOMAIN t : Above(p) \cap Clashes(s, t) = {}} |->
     IF p \in Clashes(s, t) THEN Text ELSE IF p \in DOMAIN s THEN s[p] ELSE t[p]]

\* Mutant: only new fields at the top count.
NeedWidenTop(s, t) == ~(Fields(t) \subseteq DOMAIN s)

\* A new field, or two STRUCTs that differ.
NeedWiden(s, t) ==
  \E p \in Fields(t) : \/ p \notin DOMAIN s
                       \/ s[p] = "STRUCT" /\ t[p] = "STRUCT" /\ Under(s, p) # Under(t, p)

Action(s, t) ==
  CASE s = t \/ ~(IsStruct(s) \/ IsStruct(t)) -> "write"
    [] IsStruct(s) # IsStruct(t) -> "skipped"
    [] OTHER -> IF NeedWiden(s, t) THEN "alter" ELSE "write"

StructInit ==
  /\ column \in ColumnTypes /\ incoming \in [Batches -> ColumnTypes]
  /\ seenType = [b \in Batches |-> column] /\ stored = [b \in Batches |-> column]
  /\ batchStage = [b \in Batches |-> "read"]

Move(b, s) == batchStage' = [batchStage EXCEPT ![b] = s]

Resolve(b) ==
  /\ batchStage[b] = "read" /\ Move(b, Action(column, incoming[b]))
  /\ seenType' = [seenType EXCEPT ![b] = column]
  /\ UNCHANGED <<column, incoming, stored>>

\* DuckLake promotes a type where nothing is lost: fields may be added, and a
\* field may become VARCHAR if toText.
Keeps(s, t, toText) ==
  \A p \in DOMAIN s :
    \/ p \in DOMAIN t /\ t[p] = s[p]
    \/ toText /\ \E q \in DOMAIN t : (q = p \/ q \in Above(p)) /\ t[q] = Text

\* ALTER COLUMN SET DATA TYPE to the union with the type that was read; whether
\* it may turn a nested field into VARCHAR is DuckLake's choice.
AlterColumn(b) ==
  /\ batchStage[b] = "alter"
  /\ LET union == Union(seenType[b], incoming[b])
     IN \/ Keeps(column, union, TRUE) /\ column' = union /\ Move(b, "write")
        \/ ~Keeps(column, union, FALSE) /\ UNCHANGED column /\ Move(b, "skipped")
  /\ UNCHANGED <<incoming, seenType, stored>>

\* INSERT casts by name: fields the column lacks are dropped, but one at least
\* must match in every STRUCT.
Casts(from, to) ==
  \A p \in DOMAIN from \cap DOMAIN to :
    \/ to[p] = Text
    \/ from[p] # "STRUCT" /\ to[p] # "STRUCT"
    \/ /\ from[p] = "STRUCT" /\ to[p] = "STRUCT"
       /\ \E q \in DOMAIN from \cap DOMAIN to : p \in Above(q)

InsertBatch(b) ==
  /\ batchStage[b] = "write"
  /\ Move(b, IF Casts(incoming[b], column) THEN "stored" ELSE "failed")
  /\ stored' = [stored EXCEPT ![b] = column]
  /\ UNCHANGED <<column, incoming, seenType>>

StructNext == \E b \in Batches : Resolve(b) \/ AlterColumn(b) \/ InsertBatch(b)

StructSpec == StructInit /\ [][StructNext]_structvars

-----------------------------------------------------------------------------
\* Every field of n is a field of t, or part of a text.
HoldsType(t, n) ==
  \A p \in DOMAIN n : p \in DOMAIN t \/ \E q \in Above(p) \cap DOMAIN t : t[q] = Text

\* Columns stay types, whatever they are widened to.
StructTypeOK ==
  /\ IsType(column) /\ \A b \in Batches : IsType(seenType[b]) /\ IsType(stored[b])
  /\ incoming \in [Batches -> ColumnTypes]
  /\ batchStage \in [Batches -> {"read", "alter", "write", "stored", "skipped", "failed"}]

\* No field of a stored batch was dropped by the cast, at any depth, and none
\* leaves the column later, whatever other batches widen it to meanwhile
\* (src/schema-evolution.js, resolveTypeConflict and unionStructTypes).
NoFieldDropped ==
  \A b \in Batches :
    batchStage[b] = "stored" => HoldsType(stored[b], incoming[b]) /\ HoldsType(column, incoming[b])
=============================================================================
