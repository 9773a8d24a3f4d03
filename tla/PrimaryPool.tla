---------------------------- MODULE PrimaryPool ----------------------------
(***************************************************************************)
(* The primary DuckDB instance of a gateway and the pool of its warm       *)
(* connections (src/db.js): getDbInstance, invalidatePrimaryInstance,      *)
(* getConnection and releaseConnection, run by concurrent callers that     *)
(* interleave at every await.                                              *)
(*                                                                         *)
(* Instances are numbered in the order their attach starts; 0 is null.  A  *)
(* connection is the instance it was opened on and the generation it is    *)
(* tagged with.  What a caller does with its connection is left out.       *)
(***************************************************************************)
EXTENDS Integers, Sequences, FiniteSets, FiniteSetsExt

CONSTANTS
  Callers,
  PoolSize,     \* PRIMARY_POOL_SIZE
  Faults,       \* what may go wrong, see FaultKinds
  MaxFaults     \* bound: how often

\* "fatal": an error invalidates an instance for good; "blip": a health check
\* fails on an instance that is not dead; "attach": an attach fails.
FaultKinds == {"fatal", "blip", "attach"}

ASSUME PoolAssumption ==
  /\ PoolSize \in Nat \ {0}
  /\ Faults \subseteq FaultKinds
  /\ MaxFaults \in Nat

VARIABLES
  instance,     \* the current instance
  initPromise,  \* the attach that callers without an instance wait for
  generation,   \* instanceGeneration
  attaches,     \* number of attaches started
  attaching,    \* attaches in progress
  dead,         \* invalidated instances
  pool,         \* primaryPool, a stack
  pc,           \* where each caller is
  db,           \* the instance it checks, waits for or got
  conn,         \* its connection
  faults        \* faults so far

vars == <<instance, initPromise, generation, attaches, attaching, dead, pool,
          pc, db, conn, faults>>

Null == 0
NoConn == [of |-> Null, tag |-> 0]

Init ==
  /\ instance = Null
  /\ initPromise = Null
  /\ generation = 0
  /\ attaches = 0
  /\ attaching = {}
  /\ dead = {}
  /\ pool = <<>>
  /\ pc = [c \in Callers |-> "idle"]
  /\ db = [c \in Callers |-> Null]
  /\ conn = [c \in Callers |-> NoConn]
  /\ faults = 0

Goto(c, label) == pc' = [pc EXCEPT ![c] = label]

\* The caller is done, with or without a connection.
Return(c) ==
  /\ Goto(c, "idle")
  /\ db' = [db EXCEPT ![c] = Null]
  /\ conn' = [conn EXCEPT ![c] = NoConn]

Fault(kind) ==
  /\ kind \in Faults
  /\ faults < MaxFaults
  /\ faults' = faults + 1

----------------------------------------------------------------------------
(* getDbInstance *)

\* The caller waits for the attach in progress, or starts one.
AwaitAttach(c, promise) ==
  IF promise # Null
  THEN /\ Goto(c, "waiting")
       /\ db' = [db EXCEPT ![c] = promise]
       /\ initPromise' = promise
       /\ UNCHANGED <<attaches, attaching>>
  ELSE /\ Goto(c, "waiting")
       /\ db' = [db EXCEPT ![c] = attaches + 1]
       /\ initPromise' = attaches + 1
       /\ attaches' = attaches + 1
       /\ attaching' = attaching \cup {attaches + 1}

\* getConnection is called: an existing instance is checked first.
Request(c) ==
  /\ pc[c] = "idle"
  /\ \/ /\ instance # Null
        /\ Goto(c, "checking")
        /\ db' = [db EXCEPT ![c] = instance]
        /\ UNCHANGED <<initPromise, attaches, attaching>>
     \/ /\ instance = Null
        /\ AwaitAttach(c, initPromise)
  /\ UNCHANGED <<instance, generation, dead, pool, conn, faults>>

\* SELECT 1 answers; the test connection is closed before getDbInstance returns.
CheckPasses(c) ==
  /\ pc[c] = "checking"
  /\ db[c] \notin dead
  /\ Goto(c, "checked")
  /\ UNCHANGED <<instance, initPromise, generation, attaches, attaching, dead, pool,
                 db, conn, faults>>

\* The check returns whatever the current instance is by then.
CheckReturns(c) ==
  /\ pc[c] = "checked"
  /\ Goto(c, "got")
  /\ db' = [db EXCEPT ![c] = instance]
  /\ UNCHANGED <<instance, initPromise, generation, attaches, attaching, dead, pool,
                 conn, faults>>

\* invalidatePrimaryInstance; initPromise is cleared as well, see CheckFails.
Invalidate == generation' = generation + 1 /\ instance' = Null /\ pool' = <<>>

\* The test connection, or SELECT 1 on it, throws.
Unhealthy(c) ==
  \/ db[c] \in dead /\ UNCHANGED faults
  \/ db[c] \notin dead /\ Fault("blip")

\* Mutant: a failed check only ends the caller.
CheckFailsForCaller(c) ==
  /\ pc[c] = "checking"
  /\ Unhealthy(c)
  /\ Return(c)
  /\ UNCHANGED <<instance, initPromise, generation, attaches, attaching, dead, pool>>

\* The check fails: the current instance, whichever it is, is given up, and the
\* attach in progress with it, and a new attach is started.
CheckFails(c) ==
  /\ pc[c] = "checking"
  /\ Unhealthy(c)
  /\ Invalidate
  /\ AwaitAttach(c, Null)
  /\ UNCHANGED <<dead, conn>>

Waiters(n) == {c \in Callers : pc[c] = "waiting" /\ db[c] = n}

\* Mutant: only the attach that is still wanted answers those who wait.
AttachSucceedsIfWanted(n) ==
  /\ n \in attaching
  /\ attaching' = attaching \ {n}
  /\ instance' = n
  /\ pc' = [c \in Callers |-> IF c \in Waiters(n) /\ initPromise = n
                              THEN "got" ELSE pc[c]]
  /\ UNCHANGED <<initPromise, generation, attaches, dead, pool, db, conn, faults>>

\* An attach ends; those who wait for it get its instance.
AttachSucceeds(n) ==
  /\ n \in attaching
  /\ attaching' = attaching \ {n}
  /\ instance' = n
  /\ pc' = [c \in Callers |-> IF c \in Waiters(n) THEN "got" ELSE pc[c]]
  /\ UNCHANGED <<initPromise, generation, attaches, dead, pool, db, conn, faults>>

\* An attach throws: the instance and the promise are cleared, whosever they are.
AttachFails(n) ==
  /\ n \in attaching
  /\ Fault("attach")
  /\ attaching' = attaching \ {n}
  /\ instance' = Null
  /\ initPromise' = Null
  /\ pc' = [c \in Callers |-> IF c \in Waiters(n) THEN "idle" ELSE pc[c]]
  /\ db' = [c \in Callers |-> IF c \in Waiters(n) THEN Null ELSE db[c]]
  /\ UNCHANGED <<generation, attaches, dead, pool, conn>>

----------------------------------------------------------------------------
(* getConnection, releaseConnection *)

CurrentInPool == {i \in DOMAIN pool : pool[i].tag = generation}

\* A pooled connection of the current generation is taken, dropping those above
\* it; enabling the graph grammar on it is awaited but cannot fail.
Reuse(c) ==
  /\ pc[c] = "got"
  /\ CurrentInPool # {}
  /\ LET i == Max(CurrentInPool) IN
       /\ conn' = [conn EXCEPT ![c] = pool[i]]
       /\ pool' = SubSeq(pool, 1, i - 1)
  /\ Goto(c, "using")
  /\ UNCHANGED <<instance, initPromise, generation, attaches, attaching, dead, db, faults>>

\* The pool has none: a new connection is opened.
Open(c) ==
  /\ pc[c] = "got"
  /\ CurrentInPool = {}
  /\ pool' = <<>>
  /\ IF db[c] # Null
     THEN Goto(c, "connecting") /\ UNCHANGED <<db, conn>>
     ELSE Return(c)
  /\ UNCHANGED <<instance, initPromise, generation, attaches, attaching, dead, faults>>

\* db.connect() answers and the connection is tagged with the generation that is
\* current then; the settings that follow are best effort.
Connected(c) ==
  /\ pc[c] = "connecting"
  /\ conn' = [conn EXCEPT ![c] = [of |-> db[c], tag |-> generation]]
  /\ Goto(c, "using")
  /\ UNCHANGED <<instance, initPromise, generation, attaches, attaching, dead, pool,
                 db, faults>>

\* A dead instance may refuse the connection.
ConnectFails(c) ==
  /\ pc[c] = "connecting"
  /\ db[c] \in dead
  /\ Return(c)
  /\ UNCHANGED <<instance, initPromise, generation, attaches, attaching, dead, pool, faults>>

\* A fatal error while a statement runs invalidates the whole instance.
Fatal(c) ==
  /\ pc[c] = "using"
  /\ conn[c].of \notin dead
  /\ Fault("fatal")
  /\ dead' = dead \cup {conn[c].of}
  /\ UNCHANGED <<instance, initPromise, generation, attaches, attaching, pool,
                 pc, db, conn>>

\* Mutant: the size of the pool is not looked at.
ReleaseUnbounded(c) ==
  /\ pc[c] = "using"
  /\ pool' = IF conn[c].tag = generation THEN Append(pool, conn[c]) ELSE pool
  /\ Return(c)
  /\ UNCHANGED <<instance, initPromise, generation, attaches, attaching, dead, faults>>

\* Mutant: the tag is not looked at.
ReleaseUntagged(c) ==
  /\ pc[c] = "using"
  /\ pool' = IF Len(pool) < PoolSize THEN Append(pool, conn[c]) ELSE pool
  /\ Return(c)
  /\ UNCHANGED <<instance, initPromise, generation, attaches, attaching, dead, faults>>

\* releaseConnection, after success and failure alike: pooled unless its tag is
\* old or the pool is full, else closed.
Release(c) ==
  /\ pc[c] = "using"
  /\ pool' = IF conn[c].tag = generation /\ Len(pool) < PoolSize
             THEN Append(pool, conn[c]) ELSE pool
  /\ Return(c)
  /\ UNCHANGED <<instance, initPromise, generation, attaches, attaching, dead, faults>>

\* A promise was resolved: its continuations run before anything else does.
Resume(c) == Reuse(c) \/ Open(c)
Drained == \A c \in Callers : pc[c] # "got"

Call(c) == Drained /\ Request(c)

Answer(c) ==
  /\ Drained
  /\ \/ CheckPasses(c) \/ CheckReturns(c) \/ CheckFails(c)
     \/ Connected(c) \/ ConnectFails(c) \/ Release(c)

Attach(n) == Drained /\ (AttachSucceeds(n) \/ AttachFails(n))

Next ==
  \/ \E c \in Callers : Call(c) \/ Answer(c) \/ Resume(c) \/ (Drained /\ Fatal(c))
  \/ \E n \in attaching : Attach(n)

\* Requests keep coming, and every engine call and attach answers.
Fairness ==
  /\ \A c \in Callers : WF_vars(Call(c)) /\ WF_vars(Answer(c)) /\ WF_vars(Resume(c))
  /\ WF_vars(\E n \in attaching : Attach(n))

Spec == Init /\ [][Next]_vars
FairSpec == Spec /\ Fairness

----------------------------------------------------------------------------
(* Properties *)

Instances == 0..attaches
Conns == [of : Instances, tag : 0..generation]

TypeOK ==
  /\ attaches \in Nat /\ generation \in Nat /\ faults \in 0..MaxFaults
  /\ instance \in Instances /\ initPromise \in Instances
  /\ attaching \subseteq Instances \ {Null}
  /\ dead \subseteq Instances
  /\ pool \in Seq(Conns) /\ Len(pool) <= PoolSize
  /\ pc \in [Callers -> {"idle", "checking", "checked", "waiting", "got",
                         "connecting", "using"}]
  /\ db \in [Callers -> Instances]
  /\ conn \in [Callers -> Conns]

\* Every pooled connection carries the current generation: an invalidation
\* leaves nothing of an older one behind, also not connections that were in use
\* at the time and came back later.
PoolCurrent == \A i \in DOMAIN pool : pool[i].tag = generation

\* Nobody waits for an attach that will not answer: superseding an attach keeps
\* its promise to the callers that wait for it.
NobodyStranded == \A c \in Callers : pc[c] = "waiting" => db[c] \in attaching

\* What getConnection() may hand out, and whom it may keep waiting.
PoolSafe == PoolCurrent /\ NobodyStranded

\* A dead instance is given up once callers come: it does not stay current.
Recovers == (instance \in dead) ~> (instance \notin dead)

\* "We never hand a poisoned connection back": what the pool holds belongs to
\* the current instance.
NoPoison == \A i \in DOMAIN pool : instance # Null => pool[i].of = instance
============================================================================
