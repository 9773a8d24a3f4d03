----------------------------- MODULE KeyedTable -----------------------------
(***************************************************************************)
(* What ingestion by key promises (README.md section 9.2): a batch reaches *)
(* the table as a whole, in one step, or not at all, and the answer says   *)
(* which.  What each mode leaves in the table is stated on the rows before *)
(* and after, not by the statements that write them.                       *)
(*                                                                         *)
(* A row is a record of its identity, of the request and the position in   *)
(* its batch its values come from, and of the values.                      *)
(***************************************************************************)
EXTENDS Integers

CONSTANTS Writers, Key

VARIABLES
  asked,    \* the request of each writer: its mode, its batch, whether it has column x
  table,    \* the rows of the table
  outcome   \* what became of each request: "open", "applied", "ok", "rejected"

vars == <<asked, table, outcome>>

Init == outcome = [w \in Writers |-> "open"]

\* The rows that w asks for.
Brought(w) ==
  {[id |-> <<w, i>>, by |-> w, pos |-> i, a |-> asked[w].batch[i].a, b |-> asked[w].batch[i].b,
    x |-> IF asked[w].x THEN "value" ELSE "null"] : i \in DOMAIN asked[w].batch}

KeysOf(rows) == {r[Key] : r \in rows}

\* The row of a batch that stands for its key: the last one of an upsert, the
\* first one of a dedupe.
Winners(rows, mode) ==
  {r \in rows : \A s \in rows : s[Key] = r[Key] =>
                  IF mode = "upsert" THEN s.pos <= r.pos ELSE r.pos <= s.pos}

\* Row t holds what row r of a batch brought.
Holds(t, r) == t = [r EXCEPT !.id = t.id]

Upserted(old, new, rows) ==
  /\ {t \in old : t[Key] \notin KeysOf(rows)} = {t \in new : t[Key] \notin KeysOf(rows)}
  /\ \A t \in new : t[Key] \in KeysOf(rows) => \E r \in Winners(rows, "upsert") : Holds(t, r)
  /\ KeysOf(rows) \subseteq KeysOf(new)

Deduplicated(old, new, rows) ==
  /\ old \subseteq new
  /\ \A t \in new \ old : t[Key] \notin KeysOf(old) /\ t \in Winners(rows, "dedupe")
  /\ KeysOf(rows) \subseteq KeysOf(new)

Appended(old, new, rows) == new = old \cup rows

Written(old, new, rows, mode) ==
  CASE mode = "upsert" -> Upserted(old, new, rows)
    [] mode = "dedupe" -> Deduplicated(old, new, rows)
    [] mode = "append" -> Appended(old, new, rows)

\* The batch of w is written as a whole.
Apply(w) ==
  /\ outcome[w] = "open"
  /\ outcome' \in {[outcome EXCEPT ![w] = o] : o \in {"applied", "ok"}}
  /\ UNCHANGED asked
  /\ Written(table, table', Brought(w), asked[w].mode)

Confirm(w) ==
  /\ outcome[w] = "applied"
  /\ outcome' = [outcome EXCEPT ![w] = "ok"]
  /\ UNCHANGED <<asked, table>>

\* "Nothing from the batch was written."
Reject(w) ==
  /\ outcome[w] = "open"
  /\ outcome' = [outcome EXCEPT ![w] = "rejected"]
  /\ UNCHANGED <<asked, table>>

Next == outcome' # outcome /\ \E w \in Writers : Apply(w) \/ Confirm(w) \/ Reject(w)

Spec == Init /\ [][Next]_vars
=============================================================================
