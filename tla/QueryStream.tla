---------------------------- MODULE QueryStream ----------------------------
(***************************************************************************)
(* One POST /query (src/index.js) over streamUserSql and withUserConnection *)
(* (src/db.js): chunks are fetched and written while a deadline and the    *)
(* client's leaving race the query.  The race settles once; the fetching   *)
(* goes on until it notices.                                               *)
(***************************************************************************)
EXTENDS Integers, Sequences, FiniteSetsExt

CONSTANTS ChunkRows,  \* bound: rows of a full DuckDB chunk
          MaxRows     \* bound: rows of a result, and of the cap

ASSUME StreamAssumption == ChunkRows \in Nat \ {0} /\ MaxRows \in Nat

VARIABLES format,     \* "json" or "ndjson"
          cap,        \* queryMaxRows or queryStreamMaxRows, lowered by the body's maxRows
          total,      \* rows the query yields
          fetcher,    \* "slot", "open", "fetch", "rows", "drain", "returned" or "threw"
          fetched,    \* rows taken of the result
          chunk,      \* rows of the chunk in hand
          truncated,
          race,       \* "open", "won", "failed", "deadline" or "left"
          streaming,  \* onColumns was called for an ndjson answer
          body,       \* what was written: "rows" by "rows", and then how it ends
          rowsSent,   \* rows written
          response    \* "open", "ended" or "destroyed"

streamVars == <<format, cap, total, fetcher, fetched, chunk, truncated, race, streaming,
                body, rowsSent, response>>

\* How an answer ends: "error" is a line after rows, "refused" an answer of its own.
Trailers == {"summary", "error", "refused"}

StreamTypeOK ==
    /\ format \in {"json", "ndjson"} /\ cap \in 1 .. MaxRows /\ total \in 0 .. MaxRows
    /\ fetcher \in {"slot", "open", "fetch", "rows", "drain", "returned", "threw"}
    /\ fetched \in 0 .. MaxRows /\ chunk \in 0 .. ChunkRows
    /\ truncated \in BOOLEAN /\ streaming \in BOOLEAN
    /\ race \in {"open", "won", "failed", "deadline", "left"}
    /\ body \in Seq({"rows"} \cup Trailers) /\ rowsSent \in 0 .. MaxRows
    /\ response \in {"open", "ended", "destroyed"}

StreamInit ==
    /\ format \in {"json", "ndjson"} /\ cap \in 1 .. MaxRows /\ total \in 0 .. MaxRows
    /\ fetcher = "slot" /\ fetched = 0 /\ chunk = 0 /\ truncated = FALSE
    /\ race = "open" /\ streaming = FALSE /\ body = << >> /\ rowsSent = 0 /\ response = "open"

isCancelled == race \in {"deadline", "left"}
Settles(outcome) == race' = IF race = "open" THEN outcome ELSE race

-----------------------------------------------------------------------------
(* streamUserSql.                                                          *)

\* the race is set up: a signal that was aborted before loses it at once
Connected ==
    /\ fetcher = "slot"
    /\ fetcher' = "open"
    /\ race' = IF response = "destroyed" THEN "left" ELSE race
    /\ UNCHANGED <<format, cap, total, fetched, chunk, truncated, streaming, body,
                   rowsSent, response>>

\* conn.stream and onColumns
Opened ==
    /\ fetcher = "open"
    /\ fetcher' = "fetch"
    /\ streaming' = (format = "ndjson")
    /\ UNCHANGED <<format, cap, total, fetched, chunk, truncated, race, body, rowsSent, response>>

\* the query does not bind, or a chunk cannot be computed
QueryFails ==
    /\ fetcher \in {"slot", "open", "fetch"}
    /\ fetcher' = "threw"
    /\ Settles("failed")
    /\ UNCHANGED <<format, cap, total, fetched, chunk, truncated, streaming, body,
                   rowsSent, response>>

StopFetching ==
    /\ fetcher = "fetch"
    /\ isCancelled
    /\ fetcher' = "returned"
    /\ UNCHANGED <<format, cap, total, fetched, chunk, truncated, race, streaming, body,
                   rowsSent, response>>

\* a chunk may have been asked for just before the race was lost
ResultEnds ==
    /\ fetcher = "fetch"
    /\ fetched = total
    /\ fetcher' = "returned"
    /\ Settles("won")
    /\ UNCHANGED <<format, cap, total, fetched, chunk, truncated, streaming, body,
                   rowsSent, response>>

MoreThanCap ==
    /\ fetcher = "fetch"
    /\ fetched < total
    /\ fetched >= cap
    /\ truncated' = TRUE
    /\ fetcher' = "returned"
    /\ Settles("won")
    /\ UNCHANGED <<format, cap, total, fetched, chunk, streaming, body, rowsSent, response>>

ChunkComes ==
    /\ fetcher = "fetch"
    /\ fetched < Min({cap, total})
    /\ \E n \in 1 .. Min({ChunkRows, total - fetched}) :
         /\ chunk' = Min({n, cap - fetched})
         /\ truncated' = (fetched + n > cap)
         /\ fetched' = fetched + chunk'
    /\ fetcher' = "rows"
    /\ UNCHANGED <<format, cap, total, race, streaming, body, rowsSent, response>>

\* Mutant: only a response that was destroyed is left alone.
MayWriteLate == response # "destroyed"

\* writeChunk: nothing after the end of the response
MayWrite == response = "open"

AfterRows == IF truncated THEN "returned" ELSE "fetch"

HandOver ==
    /\ fetcher = "rows"
    /\ IF format = "ndjson" /\ MayWrite
       THEN /\ body' = Append(body, "rows") /\ rowsSent' = rowsSent + chunk
            /\ fetcher' \in {"drain", AfterRows}
       ELSE UNCHANGED <<body, rowsSent>> /\ fetcher' = AfterRows
    /\ IF fetcher' = "returned" THEN Settles("won") ELSE race' = race
    /\ UNCHANGED <<format, cap, total, fetched, chunk, truncated, streaming, response>>

\* "drain", or the "close" of a response that is over
Drained ==
    /\ fetcher = "drain"
    /\ fetcher' = AfterRows
    /\ IF fetcher' = "returned" THEN Settles("won") ELSE race' = race
    /\ UNCHANGED <<format, cap, total, fetched, chunk, truncated, streaming, body,
                   rowsSent, response>>

-----------------------------------------------------------------------------
(* The race and the handler.                                               *)

\* the deadline is armed once the connection is there
Deadline ==
    /\ race = "open"
    /\ fetcher # "slot"
    /\ race' = "deadline"
    /\ UNCHANGED <<format, cap, total, fetcher, fetched, chunk, truncated, streaming, body,
                   rowsSent, response>>

ClientLeaves ==
    /\ response = "open"
    /\ response' = "destroyed"
    /\ IF fetcher = "slot" THEN race' = race ELSE Settles("left")
    /\ UNCHANGED <<format, cap, total, fetcher, fetched, chunk, truncated, streaming, body,
                   rowsSent>>

\* the handler goes on with the race's outcome: an error before the first byte is
\* an ordinary error answer, after it a trailer
Trailer == IF race = "won" THEN "summary"
           ELSE IF streaming /\ body # << >> THEN "error" ELSE "refused"

HandlerEnds ==
    /\ race # "open"
    /\ response = "open"
    /\ response' = "ended"
    /\ IF format = "json" /\ race = "won"
       THEN body' = <<"rows", "summary">> /\ rowsSent' = fetched
       ELSE body' = Append(body, Trailer) /\ rowsSent' = rowsSent
    /\ UNCHANGED <<format, cap, total, fetcher, fetched, chunk, truncated, race, streaming>>

StreamNext ==
    \/ Connected \/ Opened \/ QueryFails \/ StopFetching \/ ResultEnds \/ MoreThanCap
    \/ ChunkComes \/ HandOver \/ Drained \/ Deadline \/ ClientLeaves \/ HandlerEnds

StreamSpec == StreamInit /\ [][StreamNext]_streamVars

-----------------------------------------------------------------------------
(* What a client that stayed was told: one trailer, the last thing         *)
(* written, and rows before it.  A summary comes with every row up to the  *)
(* cap and says truncated exactly when the result has more, even at the    *)
(* edge of a chunk; an error answer without rows is never mixed with them. *)
ToldTruth ==
    response = "ended" =>
        LET last == body[Len(body)]
        IN  /\ last \in Trailers
            /\ \A i \in 1 .. Len(body) - 1 : body[i] = "rows"
            /\ last = "summary" => rowsSent = Min({cap, total}) /\ (truncated <=> total > cap)
            /\ last = "refused" => rowsSent = 0
=============================================================================
