---------------------------- MODULE Idempotency ----------------------------
(***************************************************************************)
(* Idempotency-Key handling of the write endpoints (src/idempotency.js and *)
(* the row functions of src/console/store.js), for ONE (scope, key) pair:  *)
(* records of different keys never meet.  Any number of gateway processes  *)
(* share the append-only table _console_idempotency; a row gets its rowid  *)
(* when its transaction commits.                                           *)
(*                                                                         *)
(* A request is one HTTP delivery.  Its claim token is unique to it, so    *)
(* the request itself stands for its token, and for the response body its  *)
(* run produced.  requestHash, created_ms of the claim and expires_ms are  *)
(* the same in every row of a token and are read off the request.          *)
(***************************************************************************)
EXTENDS Integers

CONSTANTS
  Requests,       \* HTTP requests that carry this key
  Hashes,         \* request hashes (method, path, query, body)
  HashOf,         \* the hash of each request
  Hosts,          \* gateway processes on the catalog
  HostOf,         \* the process that serves each request
  Lease,          \* PENDING_LEASE_MS
  Ttl,            \* IDEMPOTENCY_TTL_HOURS
  PurgeInterval,  \* PURGE_INTERVAL_MS
  Faults,         \* what may go wrong, see FaultKinds
  LastArrival,    \* bound: no request arrives after this instant
  MaxTime         \* bound: the clock stops here

\* "hangUp": clients disconnect while their handler runs; "slow": a request
\* outlives the lease (or the TTL) of its claim; "crash": processes die;
\* "append": database calls of this module report errors.
FaultKinds == {"hangUp", "slow", "crash", "append"}

ASSUME IdempotencyAssumption ==
  /\ HashOf \in [Requests -> Hashes]
  /\ HostOf \in [Requests -> Hosts]
  /\ Lease \in Nat \ {0}
  /\ Ttl \in Nat \ {0}
  /\ PurgeInterval \in Nat
  /\ Faults \subseteq FaultKinds
  /\ LastArrival \in Nat
  /\ MaxTime \in Nat

VARIABLES
  now,        \* Date.now() (one clock for every process)
  rows,       \* committed rows of _console_idempotency for this key
  nextSeq,    \* the next rowid DuckLake will assign
  pc,         \* where each request is
  arrived,    \* nowMs of beginIdempotentRequest
  releasing,  \* requests with a release() append in flight
  hungUp,     \* requests settled by res.on('close')
  warned,     \* requests that logged "Could not release key"
  written,    \* requests whose handler committed its write to the lake
  answer,     \* what was sent back: [kind, of]
  lastPurge,  \* lastPurgeMs of each process
  purging     \* requests with a purgeIdempotency() in flight

vars == <<now, rows, nextSeq, pc, arrived, releasing, hungUp, warned, written,
          answer, lastPurge, purging>>

----------------------------------------------------------------------------
(* Rows and tokensOf *)

NoAnswer == [kind |-> "none"]
RowStates == {"pending", "done", "released"}
Rows == [seq : Nat, token : Requests, state : RowStates]

ClaimTime(t) == arrived[t]          \* createdMs of the token's first row
Expiry(t)    == arrived[t] + Ttl    \* expiresMs of every row of the token

\* idempotencyRows: what a query bound to the time "ms" returns.
VisibleRows(ms) == {x \in rows : Expiry(x.token) > ms}

Has(rs, t, s) == \E x \in rs : x.token = t /\ x.state = s

\* Mutant of TokenState: 'released' wins over 'done'.
ReleasedWins(rs, t) ==
  IF Has(rs, t, "released") THEN "released"
  ELSE IF Has(rs, t, "done") THEN "done" ELSE "pending"

\* The summary tokensOf computes for one token: 'done' wins over 'released'
\* wins over 'pending'.
TokenState(rs, t) ==
  IF Has(rs, t, "done") THEN "done"
  ELSE IF Has(rs, t, "released") THEN "released" ELSE "pending"

\* Mutant of InLease: a claim blocks its key for ever.
NeverLapses(t, ms) == TRUE

InLease(t, ms) == ClaimTime(t) + Lease > ms

\* The tokens tokensOf keeps: done, or pending within the lease.
LiveTokens(rs, ms) ==
  {t \in {x.token : x \in rs} :
     \/ TokenState(rs, t) = "done"
     \/ TokenState(rs, t) = "pending" /\ InLease(t, ms)}

\* Mutant of Before: the sort by firstSeq is descending.
After(rs, t, u) ==
  \E x \in rs : /\ x.token = t
                /\ \A y \in rs : y.token = u => x.seq > y.seq

\* t's first row committed before every row of u.
Before(rs, t, u) ==
  \E x \in rs : /\ x.token = t
                /\ \A y \in rs : y.token = u => x.seq < y.seq

\* tokens[0] of tokensOf: the live token whose claim committed first.
Owns(t, ms) ==
  LET rs == VisibleRows(ms) IN
  /\ t \in LiveTokens(rs, ms)
  /\ \A u \in LiveTokens(rs, ms) \ {t} : Before(rs, t, u)

\* Tokens whose stored response has not expired at the time "ms".
StoredTokens(ms) == {t \in Requests : Has(VisibleRows(ms), t, "done")}

NoOwner(ms) == LiveTokens(VisibleRows(ms), ms) = {}

StateOfOwner(t, ms) == TokenState(VisibleRows(ms), t)

\* Mutant of AppendRow: the row carries no row id.
AppendUnnumbered(t, s) ==
  /\ rows' = rows \cup {[seq |-> -1, token |-> t, state |-> s]}
  /\ UNCHANGED nextSeq

\* appendIdempotencyRow: one INSERT, committed.
AppendRow(t, s) ==
  /\ rows' = rows \cup {[seq |-> nextSeq, token |-> t, state |-> s]}
  /\ nextSeq' = nextSeq + 1

\* The INSERT that reports an error: nothing was committed, or the commit
\* went through and only its acknowledgement was lost.
AppendFails(t, s) == AppendRow(t, s) \/ UNCHANGED <<rows, nextSeq>>

Goto(r, label) == pc' = [pc EXCEPT ![r] = label]

Send(r, kind, of) ==
  answer' = [answer EXCEPT ![r] = [kind |-> kind, of |-> of]]

----------------------------------------------------------------------------
(* Actions *)

Init ==
  /\ now = 0
  /\ rows = {}
  /\ nextSeq = 0
  /\ pc = [r \in Requests |-> "idle"]
  /\ arrived = [r \in Requests |-> 0]
  /\ releasing = {}
  /\ hungUp = {}
  /\ warned = {}
  /\ written = {}
  /\ answer = [r \in Requests |-> NoAnswer]
  /\ lastPurge = [h \in Hosts |-> -PurgeInterval]
  /\ purging = {}

\* beginIdempotentRequest up to its first await: nowMs is read, a purge may be
\* started in the background, and the query for the key's rows is issued.
Arrive(r) ==
  /\ pc[r] = "idle"
  /\ now <= LastArrival
  /\ Goto(r, "arrived")
  /\ arrived' = [arrived EXCEPT ![r] = now]
  /\ IF now - lastPurge[HostOf[r]] >= PurgeInterval
     THEN /\ lastPurge' = [lastPurge EXCEPT ![HostOf[r]] = now]
          /\ purging' = purging \cup {r}
     ELSE UNCHANGED <<lastPurge, purging>>
  /\ UNCHANGED <<now, rows, nextSeq, releasing, hungUp, warned, written,
                 answer>>

\* Mutant of Replayed: the request hash is not compared.
ReplayedAnyBody(r, t, ms) == StateOfOwner(t, ms) = "done"

\* Mutant of Replayed: whatever the owner has is replayed.
ReplayedUnfinished(r, t, ms) == HashOf[t] = HashOf[r]

\* decide(): what the owner found at the time "ms" means for request r.
Rejected(r, t)     == HashOf[t] # HashOf[r]
Replayed(r, t, ms) == HashOf[t] = HashOf[r] /\ StateOfOwner(t, ms) = "done"
Pending(r, t, ms)  == HashOf[t] = HashOf[r] /\ StateOfOwner(t, ms) # "done"

\* The first look at the key, with the nowMs of the request's arrival: no
\* owner lets the request claim the key; any owner answers it.
FirstRead(r) ==
  /\ pc[r] = "arrived"
  /\ LET ms == arrived[r] IN
     \/ /\ NoOwner(ms)
        /\ Goto(r, "claiming")
        /\ UNCHANGED answer
     \/ \E t \in Requests :
          /\ Owns(t, ms)
          /\ Goto(r, "answered")
          /\ \/ Rejected(r, t) /\ Send(r, "mismatch", t)
             \/ Replayed(r, t, ms) /\ Send(r, "replay", t)
             \/ Pending(r, t, ms) /\ Send(r, "inProgress", t)
  /\ UNCHANGED <<now, rows, nextSeq, arrived, releasing, hungUp, warned,
                 written, lastPurge, purging>>

\* The append of the 'pending' claim.
Claim(r) ==
  /\ pc[r] = "claiming"
  /\ AppendRow(r, "pending")
  /\ Goto(r, "claimed")
  /\ UNCHANGED <<now, arrived, releasing, hungUp, warned, written, answer,
                 lastPurge, purging>>

\* Mutant of ReRead: only a stored response stops the request; pending claims
\* of others are not looked at again.
ReReadForResponse(r) ==
  /\ pc[r] = "claimed"
  /\ \/ /\ StoredTokens(now) = {}
        /\ Goto(r, "running")
        /\ UNCHANGED answer
     \/ \E t \in StoredTokens(now) :
          /\ Goto(r, "backingOff")
          /\ Send(r, "replay", t)
  /\ UNCHANGED <<now, rows, nextSeq, arrived, releasing, hungUp, warned,
                 written, lastPurge, purging>>

\* Mutant of ReRead: a claim that is not found any more (winner === null) is
\* waited for.
ReReadUntilFound(r) ==
  /\ pc[r] = "claimed"
  /\ \/ /\ Owns(r, now)
        /\ Goto(r, "running")
        /\ UNCHANGED answer
     \/ \E t \in Requests \ {r} :
          /\ Owns(t, now)
          /\ Goto(r, "backingOff")
          /\ Send(r, "inProgress", t)
  /\ UNCHANGED <<now, rows, nextSeq, arrived, releasing, hungUp, warned,
                 written, lastPurge, purging>>

\* The re-read after the claim.  The handler runs when this request owns the
\* key, and also when no live claim is left at all (winner === null).
ReRead(r) ==
  /\ pc[r] = "claimed"
  /\ \/ /\ Owns(r, now) \/ NoOwner(now)
        /\ Goto(r, "running")
        /\ UNCHANGED answer
     \/ \E t \in Requests \ {r} :
          /\ Owns(t, now)
          /\ Goto(r, "backingOff")
          /\ \/ Rejected(r, t) /\ Send(r, "mismatch", t)
             \/ Replayed(r, t, now) /\ Send(r, "replay", t)
             \/ Pending(r, t, now) /\ Send(r, "inProgress", t)
  /\ UNCHANGED <<now, rows, nextSeq, arrived, releasing, hungUp, warned,
                 written, lastPurge, purging>>

\* The losing request releases its claim.
BackOff(r) ==
  /\ pc[r] = "backingOff"
  /\ AppendRow(r, "released")
  /\ Goto(r, "answered")
  /\ UNCHANGED <<now, arrived, releasing, hungUp, warned, written, answer,
                 lastPurge, purging>>

\* An await of beginIdempotentRequest rejects: idempotentJson answers 500 and
\* the handler never runs.
BeginFails(r) ==
  /\ "append" \in Faults
  /\ \/ pc[r] \in {"arrived", "claimed"} /\ UNCHANGED <<rows, nextSeq>>
     \/ pc[r] = "claiming" /\ AppendFails(r, "pending")
     \/ pc[r] = "backingOff" /\ AppendFails(r, "released")
  /\ Goto(r, "failed")
  /\ IF pc[r] = "backingOff" THEN UNCHANGED answer ELSE Send(r, "error", r)
  /\ UNCHANGED <<now, arrived, releasing, hungUp, warned, written, lastPurge,
                 purging>>

\* The route's handler commits its rows to the lake.
HandlerWrites(r) ==
  /\ pc[r] = "running"
  /\ Goto(r, "wrote")
  /\ written' = written \cup {r}
  /\ UNCHANGED <<now, rows, nextSeq, arrived, releasing, hungUp, warned,
                 answer, lastPurge, purging>>

\* res.json with a 2xx status: the response is to be stored before it is sent.
HandlerSucceeds(r) ==
  /\ pc[r] = "wrote"
  /\ Goto(r, "storing")
  /\ UNCHANGED <<now, rows, nextSeq, arrived, releasing, hungUp, warned,
                 written, answer, lastPurge, purging>>

\* res.json with an error status, before the write or after it (the ACL of a
\* new table could not be created): the key is released before the answer.
HandlerFails(r) ==
  /\ pc[r] \in {"running", "wrote"}
  /\ Goto(r, "releasing")
  /\ releasing' = releasing \cup {r}
  /\ UNCHANGED <<now, rows, nextSeq, arrived, hungUp, warned, written, answer,
                 lastPurge, purging>>

\* The append of the 'done' row, then the answer.
StoreDone(r) ==
  /\ pc[r] = "storing"
  /\ AppendRow(r, "done")
  /\ Goto(r, "answered")
  /\ Send(r, "ok", r)
  /\ UNCHANGED <<now, arrived, releasing, hungUp, warned, written, lastPurge,
                 purging>>

\* Mutant of StoreFails: the error is swallowed and the answer sent.
StoreFailureIgnored(r) ==
  /\ "append" \in Faults
  /\ pc[r] = "storing"
  /\ AppendFails(r, "done")
  /\ Goto(r, "answered")
  /\ Send(r, "ok", r)
  /\ UNCHANGED <<now, arrived, releasing, hungUp, warned, written, lastPurge,
                 purging>>

\* The append of 'done' reports an error: the key is released instead.
StoreFails(r) ==
  /\ "append" \in Faults
  /\ pc[r] = "storing"
  /\ AppendFails(r, "done")
  /\ Goto(r, "unstored")
  /\ releasing' = releasing \cup {r}
  /\ UNCHANGED <<now, arrived, hungUp, warned, written, answer, lastPurge,
                 purging>>

\* A release() in flight completes, or fails with a warning.  A request that
\* was waiting for it before answering now answers.
ReleaseEnds(r) ==
  /\ r \in releasing
  /\ releasing' = releasing \ {r}
  /\ \/ AppendRow(r, "released") /\ UNCHANGED warned
     \/ /\ "append" \in Faults
        /\ AppendFails(r, "released")
        /\ warned' = warned \cup {r}
  /\ \/ pc[r] = "releasing" /\ Goto(r, "answered") /\ Send(r, "error", r)
     \/ pc[r] = "unstored" /\ Goto(r, "answered") /\ Send(r, "ok", r)
     \/ pc[r] \notin {"releasing", "unstored"} /\ UNCHANGED <<pc, answer>>
  /\ UNCHANGED <<now, arrived, hungUp, written, lastPurge, purging>>

\* res.on('close') before the handler answered: the key is released, the
\* handler goes on.
HangUp(r) ==
  /\ "hangUp" \in Faults
  /\ pc[r] \in {"running", "wrote"}
  /\ r \notin hungUp
  /\ hungUp' = hungUp \cup {r}
  /\ releasing' = releasing \cup {r}
  /\ UNCHANGED <<now, rows, nextSeq, pc, arrived, warned, written, answer,
                 lastPurge, purging>>

\* purgeIdempotency with the nowMs of the request that started it; a failed
\* purge is left for the next one.
Purge(r) ==
  /\ r \in purging
  /\ purging' = purging \ {r}
  /\ \/ rows' = VisibleRows(arrived[r])
     \/ "append" \in Faults /\ UNCHANGED rows
  /\ UNCHANGED <<now, nextSeq, pc, arrived, releasing, hungUp, warned,
                 written, answer, lastPurge>>

\* A gateway process is killed with every request it serves.
Crash(h) ==
  LET killed == {r \in Requests : HostOf[r] = h
                                  /\ pc[r] \notin {"idle", "answered", "failed", "dead"}}
  IN /\ "crash" \in Faults
     /\ pc' = [r \in Requests |-> IF r \in killed THEN "dead" ELSE pc[r]]
     /\ releasing' = {r \in releasing : HostOf[r] # h}
     /\ purging' = {r \in purging : HostOf[r] # h}
     /\ lastPurge' = [lastPurge EXCEPT ![h] = -PurgeInterval]
     /\ UNCHANGED <<now, rows, nextSeq, arrived, hungUp, warned, written,
                    answer>>

\* Requests holding, or about to hold, a claim.
Engaged == {"arrived", "claiming", "claimed", "running", "wrote", "storing",
            "releasing", "unstored"}

\* The clock.  Unless "slow", a request is done before its claim lapses.
Tick ==
  /\ now < MaxTime
  /\ "slow" \in Faults \/ \A r \in Requests : pc[r] \in Engaged =>
                       /\ arrived[r] + Lease > now + 1
                       /\ arrived[r] + Ttl > now + 1
  /\ now' = now + 1
  /\ UNCHANGED <<rows, nextSeq, pc, arrived, releasing, hungUp, warned,
                 written, answer, lastPurge, purging>>

ServerStep(r) ==
  \/ FirstRead(r) \/ Claim(r) \/ ReRead(r) \/ BackOff(r) \/ BeginFails(r)
  \/ HandlerWrites(r) \/ HandlerSucceeds(r) \/ HandlerFails(r)
  \/ StoreDone(r) \/ StoreFails(r) \/ ReleaseEnds(r)

Next ==
  \/ Tick
  \/ \E r \in Requests : Arrive(r) \/ ServerStep(r) \/ HangUp(r) \/ Purge(r)
  \/ \E h \in Hosts : Crash(h)

\* The event loop runs every continuation and every database call returns, so
\* each request's next step is eventually taken; time passes.  Clients, crashes
\* and background purges are under no obligation.
Fairness ==
  /\ \A r \in Requests : WF_vars(ServerStep(r))
  /\ WF_vars(Tick)

Spec == Init /\ [][Next]_vars
FairSpec == Spec /\ Fairness

----------------------------------------------------------------------------
(* Properties *)

Labels == Engaged \cup {"idle", "backingOff", "answered", "failed", "dead"}

AnswerKinds == {"replay", "mismatch", "inProgress", "ok", "error"}

TypeOK ==
  /\ now \in Nat
  /\ rows \subseteq Rows
  /\ nextSeq \in Nat
  /\ pc \in [Requests -> Labels]
  /\ arrived \in [Requests -> Nat]
  /\ releasing \subseteq Requests
  /\ hungUp \subseteq Requests
  /\ warned \subseteq Requests
  /\ written \subseteq Requests
  /\ answer \in [Requests -> {NoAnswer} \cup [kind : AnswerKinds, of : Requests]]
  /\ lastPurge \in [Hosts -> Int]
  /\ purging \subseteq Requests

\* Requests whose handler has been let in and has not settled the key yet.
Executing == {r \in Requests : pc[r] \in {"running", "wrote", "storing"}}

\* "While the first request is still running, a retry gets 409": two requests
\* with the same key are never inside the write handler together, although
\* claiming is an append and a re-read, not an atomic test-and-set.
Exclusive == \A r, s \in Executing : r = s

\* Once a response is stored and has not expired, no handler with this key
\* writes to the lake again: a late retry that claimed concurrently is turned
\* into a replay.
NoRerun ==
  [][\A r \in Requests : r \in written' \ written => StoredTokens(now) = {}]_vars

\* A replayed response is the response of another request with the same hash
\* whose write did reach the lake, and the request that got it wrote nothing.
ReplayFaithful ==
  \A r \in Requests : answer[r].kind = "replay" =>
    /\ answer[r].of \in written
    /\ HashOf[answer[r].of] = HashOf[r]
    /\ r \notin written

\* A claim that still blocks the key belongs to a request that is being
\* served, or its process died, or an append of that request failed.  In
\* particular every path out of the wrapper (back-off, error answer, client
\* disconnect) releases what it claimed.
NoOrphanClaim ==
  \A t \in LiveTokens(VisibleRows(now), now) :
    \/ TokenState(rows, t) = "done"
    \/ pc[t] \notin {"idle", "arrived", "claiming", "answered"}
    \/ t \in warned

\* Every request that reached the wrapper is answered unless its process dies
\* (or an await rejects after the answer went out).
Answered ==
  \A r \in Requests :
    pc[r] = "arrived" ~> pc[r] \in {"answered", "failed", "dead"}

\* "A claim whose process died mid-request stops blocking its key": no key
\* stays blocked by a pending claim for ever.
ClaimsEnd ==
  \A t \in Requests :
    LET blocking == t \in LiveTokens(VisibleRows(now), now)
                    /\ TokenState(rows, t) = "pending"
    IN blocking ~> ~blocking

\* What the key promises: one handler at a time, none while a response is
\* stored.
Promise == INSTANCE OnceOnly WITH running <- Executing, stored <- StoredTokens(now)
OnceOnlySpec == Promise!Spec
============================================================================
