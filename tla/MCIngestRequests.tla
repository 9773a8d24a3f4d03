------------------------- MODULE MCIngestRequests -------------------------
(* Requests for KeyedIngest: small batches over two values of each key.      *)
EXTENDS Integers, Sequences

CONSTANTS w1, w2, w3, NoKey

Val(m, n) == [a |-> m, b |-> n]
Ask(mode, k, x, batch) == [mode |-> mode, key |-> k, x |-> x, batch |-> batch]

\* A table with one row, written by nobody in the model.
OneRow == {[id |-> <<"first", 1>>, by |-> "first", pos |-> 1, a |-> 1, b |-> 1, x |-> "null"]}

\* Two batches of keyed writers: one repeats a key, the other has two.
Repeats == <<Val(2, 1), Val(2, 2)>>
Both == {Repeats, <<Val(1, 2), Val(2, 1)>>}
KeyedOf(k, x, batches) == {Ask(m, k, x, b) : m \in {"upsert", "dedupe"}, b \in batches}
KeyedAsks(k, x) == KeyedOf(k, x, Both)

\* The first requests for a table.  Keyed ones agree on its key; one brings a
\* column that the others do not have, and one may be an append, of rows with
\* another key: appends conflict with nothing, and a MERGE does not see those
\* that commit while it runs.
SameKey ==
  [w \in {w1, w2, w3} |->
     KeyedOf("a", w = w1, CASE w = w1 -> {Repeats} [] w = w2 -> Both \ {Repeats} [] OTHER -> Both)
       \cup IF w = w3 THEN {Ask("append", NoKey, FALSE, <<Val(3, 1), Val(3, 2)>>)} ELSE {}]

\* Appends beside keyed requests; one request names another key, one none.
Mixed ==
  [w \in {w1, w2, w3} |->
     CASE w = w1 -> KeyedAsks("a", FALSE)
       [] w = w2 -> {Ask("append", NoKey, FALSE, <<Val(1, 1), Val(2, 2)>>)}
       [] w = w3 -> {Ask("upsert", k, FALSE, <<Val(2, 2)>>) : k \in {"b", NoKey}}]

\* Two first requests that name different keys.
OtherKey ==
  [w \in {w1, w2} |-> {IF w = w1 THEN Ask("upsert", "a", FALSE, <<Val(1, 1)>>)
                       ELSE Ask("upsert", "b", FALSE, <<Val(1, 2)>>)}]

\* Appends that bring the same new column.
NewColumn == [w \in {w1, w2} |-> {Ask("append", NoKey, TRUE, <<Val(1, 1)>>)}]
============================================================================
