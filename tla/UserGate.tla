------------------------------ MODULE UserGate ------------------------------
(***************************************************************************)
(* The gate of the isolated user-query instance (src/db.js):               *)
(* acquireUserSlot, releaseUserSlot and withUserConnection, with requests  *)
(* that queue for a slot, fail to connect, and end, time out or are aborted,  *)
(* and an administrator who changes USER_QUERY_CONCURRENCY meanwhile.      *)
(***************************************************************************)
EXTENDS Integers, Sequences, FiniteSets

CONSTANTS
  Clients,     \* one request each at a time
  Limits,      \* values of USER_QUERY_CONCURRENCY an administrator sets
  MaxChanges   \* bound: how often

ASSUME GateAssumption ==
  /\ Limits \subseteq Nat \ {0}
  /\ MaxChanges \in Nat

VARIABLES
  limit,     \* userQueryConcurrency()
  active,    \* userActive
  queue,     \* userQueue
  place,        \* where each request is
  changes,   \* settings changes so far
  highest    \* history: the highest limit there was

gvars == <<limit, active, queue, place, changes, highest>>

\* Requests that own a slot.
Holders == {c \in Clients : place[c] \in {"connecting", "running", "closing"}}

Move(c, label) == place' = [place EXCEPT ![c] = label]

GateInit ==
  /\ limit \in Limits
  /\ active = 0
  /\ queue = <<>>
  /\ place = [c \in Clients |-> "idle"]
  /\ changes = 0
  /\ highest = limit

----------------------------------------------------------------------------
(* The slots *)

\* Mutant: one more than the limit is let in.
AcquireOneMore(c) ==
  \/ /\ active <= limit
     /\ active' = active + 1
     /\ Move(c, "connecting")
     /\ UNCHANGED queue
  \/ /\ active > limit
     /\ queue' = Append(queue, c)
     /\ Move(c, "queued")
     /\ UNCHANGED active

\* acquireUserSlot: a free slot is taken at once, also past those who queue.
Acquire(c) ==
  \/ /\ active < limit
     /\ active' = active + 1
     /\ Move(c, "connecting")
     /\ UNCHANGED queue
  \/ /\ active >= limit
     /\ queue' = Append(queue, c)
     /\ Move(c, "queued")
     /\ UNCHANGED active

\* Mutant: the slot handed on to a waiting request is not counted again.
FreeUncounted(c) ==
  \/ /\ queue = <<>>
     /\ active' = active - 1
     /\ Move(c, "idle")
     /\ UNCHANGED queue
  \/ /\ queue # <<>>
     /\ active' = active - 1
     /\ place' = [place EXCEPT ![c] = "idle", ![Head(queue)] = "connecting"]
     /\ queue' = Tail(queue)

\* Mutant: the request that came last is woken, and stays in the queue.
FreeWakingLast(c) ==
  \/ /\ queue = <<>>
     /\ active' = active - 1
     /\ Move(c, "idle")
     /\ UNCHANGED queue
  \/ /\ queue # <<>>
     /\ active' = active
     /\ place' = [place EXCEPT ![c] = "idle", ![queue[Len(queue)]] = "connecting"]
     /\ queue' = Tail(queue)

\* releaseUserSlot: the slot goes to the request that waited longest, whatever
\* the limit is by now.
Free(c) ==
  \/ /\ queue = <<>>
     /\ active' = active - 1
     /\ Move(c, "idle")
     /\ UNCHANGED queue
  \/ /\ queue # <<>>
     /\ active' = active
     /\ place' = [place EXCEPT ![c] = "idle", ![Head(queue)] = "connecting"]
     /\ queue' = Tail(queue)

----------------------------------------------------------------------------
(* withUserConnection *)

Arrive(c) ==
  /\ place[c] = "idle"
  /\ Acquire(c)
  /\ UNCHANGED <<limit, changes, highest>>

\* The connection is open and prepared, the deadline armed, the query started.
Start(c) ==
  /\ place[c] = "connecting"
  /\ Move(c, "running")
  /\ UNCHANGED <<limit, active, queue, changes, highest>>

\* Mutant: the slot is released only where there is a connection to close.
ConnectErrorKeepingSlot(c) ==
  /\ place[c] = "connecting"
  /\ Move(c, "idle")
  /\ UNCHANGED <<limit, active, queue, changes, highest>>

\* The instance or the connection cannot be had, or the prepare hook throws.
ConnectError(c) ==
  /\ place[c] = "connecting"
  /\ Free(c)
  /\ UNCHANGED <<limit, changes, highest>>

\* The race is decided: by the result or an error of the query, by the deadline,
\* or by the abort of the signal.  The connection is then closed.  An abort that
\* comes earlier has no effect until here: a request whose client is gone keeps
\* its place in the queue, takes its slot and starts its query.
Settle(c) ==
  /\ place[c] = "running"
  /\ Move(c, "closing")
  /\ UNCHANGED <<limit, active, queue, changes, highest>>

\* The connection is closed, or closing it failed: the slot is released.
Close(c) ==
  /\ place[c] = "closing"
  /\ Free(c)
  /\ UNCHANGED <<limit, changes, highest>>

SetLimit(n) ==
  /\ changes < MaxChanges
  /\ n # limit
  /\ limit' = n
  /\ changes' = changes + 1
  /\ highest' = IF n > highest THEN n ELSE highest
  /\ UNCHANGED <<active, queue, place>>

Serve(c) == Start(c) \/ ConnectError(c) \/ Settle(c) \/ Close(c)

GateNext ==
  \/ \E c \in Clients : Arrive(c) \/ Serve(c)
  \/ \E n \in Limits : SetLimit(n)

\* Connections open or fail, and the deadline ends every query.
GateFairness == \A c \in Clients : WF_gvars(Serve(c))

GateSpec == GateInit /\ [][GateNext]_gvars
FairGateSpec == GateSpec /\ GateFairness

----------------------------------------------------------------------------
(* Properties *)

GateTypeOK ==
  /\ limit \in Limits /\ highest \in Limits
  /\ active \in Nat
  /\ queue \in Seq(Clients)
  /\ place \in [Clients -> {"idle", "queued", "connecting", "running", "closing"}]
  /\ changes \in 0..MaxChanges

\* Every slot that is counted has one owner and every owner is counted: a slot
\* is neither leaked nor given twice, whichever way a request ends.
SlotsExact == active = Cardinality(Holders)

\* The queue holds the waiting requests, each once.
QueueExact ==
  /\ {queue[i] : i \in DOMAIN queue} = {c \in Clients : place[c] = "queued"}
  /\ Len(queue) = Cardinality({c \in Clients : place[c] = "queued"})

\* There are never more queries than the highest limit there was allowed.
Capped == active <= highest

\* Slots are counted right and not exceeded.
GateSafe == SlotsExact /\ Capped

\* A waiting request is served, as long as queries end: also one whose client is
\* gone, and also when newer requests pass it.
Served == \A c \in Clients : (place[c] = "queued") ~> (place[c] = "connecting")
============================================================================
