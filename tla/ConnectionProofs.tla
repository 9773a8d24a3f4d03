-------------------------- MODULE ConnectionProofs --------------------------
(***************************************************************************)
(* Proofs about what comes in and goes out beside the queries, for any     *)
(* values of the constants.  PrimaryPool (src/db.js): the pool keeps       *)
(* connections of the current generation only, and nobody waits for an     *)
(* attach that will not answer.  UserGate (src/db.js): slots are neither   *)
(* leaked nor given twice, and there are never more queries than the       *)
(* highest limit allowed.  KafkaConsumer (src/kafka-consumer.js): a        *)
(* message is in one batch only and not written twice without a crash.     *)
(* KafkaSubscription (src/index.js): no client of Kafka stays connected    *)
(* for a subscriber who left.  A behaviour of MCGateway is one of each of  *)
(* its parts: its specification keeps the invariants of all of them.       *)
(***************************************************************************)
EXTENDS MCGateway, StorageSwitchProofs, FiniteSetTheorems, TLAPS

\* A promise that callers without an instance would wait for is being attached.
Promised == instance = Null /\ initPromise # Null => initPromise \in attaching

PoolInv == TypeOK /\ PoolCurrent /\ Promised /\ NobodyStranded

\* The largest index of a pool whose connections are all current is its top.
LEMMA TopOfPool ==
  ASSUME TypeOK, PoolCurrent, CurrentInPool # {}
  PROVE  /\ Max(CurrentInPool) \in DOMAIN pool
         /\ pool[Max(CurrentInPool)] \in Conns
<1>1. /\ Len(pool) \in Nat
      /\ DOMAIN pool = 1..Len(pool)
  BY DEF TypeOK
<1>2. CurrentInPool = DOMAIN pool
  BY DEF CurrentInPool, PoolCurrent
<1>3. \E i \in CurrentInPool : \A j \in CurrentInPool : i >= j
  <2>1. Len(pool) \in CurrentInPool
    BY <1>1, <1>2
  <2>2. \A j \in CurrentInPool : Len(pool) >= j
    BY <1>1, <1>2
  <2> QED
    BY <2>1, <2>2
<1>4. Max(CurrentInPool) \in CurrentInPool
  BY <1>3 DEF Max
<1> QED
  BY <1>2, <1>4 DEF TypeOK

\* Taking from the pool and giving up its top keeps its type.
LEMMA ShorterPool ==
  ASSUME NEW S, NEW s \in Seq(S), NEW i \in DOMAIN s
  PROVE  /\ SubSeq(s, 1, i - 1) \in Seq(S)
         /\ Len(SubSeq(s, 1, i - 1)) = i - 1
         /\ i - 1 <= Len(s)
         /\ \A j \in DOMAIN SubSeq(s, 1, i - 1) :
              j \in DOMAIN s /\ SubSeq(s, 1, i - 1)[j] = s[j]
<1>1. i \in 1..Len(s) /\ Len(s) \in Nat
  OBVIOUS
<1>2. \A j \in 1..(i - 1) : s[j] \in S
  BY <1>1
<1> QED
  BY <1>1, <1>2

\* A pool stays one when more instances and generations are known.
LEMMA WiderPool ==
  ASSUME NEW S, NEW T, S \subseteq T, NEW s \in Seq(S)
  PROVE  s \in Seq(T)
  OBVIOUS

THEOREM InitInv == Init => PoolInv
<1> SUFFICES ASSUME Init PROVE PoolInv
  OBVIOUS
<1>1. TypeOK
  BY PoolAssumption DEF Init, TypeOK, Instances, Conns, Null, NoConn
<1> QED
  BY <1>1 DEF Init, PoolInv, PoolCurrent, Promised, NobodyStranded

----------------------------------------------------------------------------
(* Steps *)

LEMMA RequestInv ==
  ASSUME PoolInv, NEW c \in Callers, Request(c)
  PROVE  PoolInv'
<1> USE DEF PoolInv
<1>1. CASE instance # Null
  <2>1. /\ pc' = [pc EXCEPT ![c] = "checking"] /\ db' = [db EXCEPT ![c] = instance]
        /\ UNCHANGED <<instance, initPromise, generation, attaches, attaching, dead,
                       pool, conn, faults>>
    BY <1>1 DEF Request, Goto
  <2> QED
    BY <2>1 DEF TypeOK, PoolCurrent, Promised, NobodyStranded, Instances, Conns
<1>2. CASE instance = Null /\ initPromise # Null
  <2>1. /\ pc' = [pc EXCEPT ![c] = "waiting"] /\ db' = [db EXCEPT ![c] = initPromise]
        /\ UNCHANGED <<instance, initPromise, generation, attaches, attaching, dead,
                       pool, conn, faults>>
    BY <1>2 DEF Request, Goto, AwaitAttach
  <2> QED
    BY <1>2, <2>1 DEF TypeOK, PoolCurrent, Promised, NobodyStranded, Instances, Conns
<1>3. CASE instance = Null /\ initPromise = Null
  <2>1. /\ pc' = [pc EXCEPT ![c] = "waiting"] /\ db' = [db EXCEPT ![c] = attaches + 1]
        /\ initPromise' = attaches + 1 /\ attaches' = attaches + 1
        /\ attaching' = attaching \cup {attaches + 1}
        /\ UNCHANGED <<instance, generation, dead, pool, conn, faults>>
    BY <1>3 DEF Request, Goto, AwaitAttach
  <2>2. Instances \subseteq Instances' /\ attaches + 1 \in Instances' \ {Null}
        /\ Conns \subseteq Conns'
    BY <2>1 DEF TypeOK, Instances, Conns, Null
  <2>3. pool' \in Seq(Conns')
    BY <2>1, <2>2, WiderPool DEF TypeOK
  <2>4. TypeOK'
    BY <2>1, <2>2, <2>3 DEF TypeOK
  <2> QED
    BY <2>1, <2>4 DEF TypeOK, PoolCurrent, Promised, NobodyStranded
<1> QED
  BY <1>1, <1>2, <1>3

LEMMA CheckFailsInv ==
  ASSUME PoolInv, NEW c \in Callers, CheckFails(c)
  PROVE  PoolInv'
<1> USE DEF PoolInv
<1>1. /\ pc' = [pc EXCEPT ![c] = "waiting"] /\ db' = [db EXCEPT ![c] = attaches + 1]
      /\ initPromise' = attaches + 1 /\ attaches' = attaches + 1
      /\ attaching' = attaching \cup {attaches + 1}
      /\ generation' = generation + 1 /\ instance' = Null /\ pool' = <<>>
      /\ UNCHANGED <<dead, conn>>
  BY DEF CheckFails, Goto, AwaitAttach, Invalidate
<1>2. faults' \in 0..MaxFaults
  BY PoolAssumption DEF CheckFails, Unhealthy, Fault, TypeOK
<1>3. Instances \subseteq Instances' /\ attaches + 1 \in Instances' \ {Null}
      /\ Conns \subseteq Conns' /\ Null \in Instances'
  BY <1>1 DEF TypeOK, Instances, Conns, Null
<1>4. pool' \in Seq(Conns') /\ Len(pool') <= PoolSize
  BY <1>1, PoolAssumption
<1>5. TypeOK'
  BY <1>1, <1>2, <1>3, <1>4 DEF TypeOK
<1> QED
  BY <1>1, <1>5 DEF TypeOK, PoolCurrent, Promised, NobodyStranded

LEMMA AttachInv ==
  ASSUME PoolInv, NEW n \in attaching, AttachSucceeds(n) \/ AttachFails(n)
  PROVE  PoolInv'
<1> USE DEF PoolInv
<1>0. n \in Instances \ {Null} /\ Null \in Instances
  BY DEF TypeOK, Instances, Null
<1>1. CASE AttachSucceeds(n)
  <2>1. TypeOK'
    BY <1>0, <1>1 DEF AttachSucceeds, TypeOK, Instances, Conns
  <2>2. PoolCurrent' /\ Promised'
    BY <1>0, <1>1 DEF AttachSucceeds, PoolCurrent, Promised
  <2>3. NobodyStranded'
    BY <1>1 DEF AttachSucceeds, NobodyStranded, Waiters, TypeOK
  <2> QED
    BY <2>1, <2>2, <2>3
<1>2. CASE AttachFails(n)
  <2>1. faults' \in 0..MaxFaults
    BY <1>2, PoolAssumption DEF AttachFails, Fault, TypeOK
  <2>2. TypeOK'
    BY <1>0, <1>2, <2>1 DEF AttachFails, TypeOK, Instances, Conns
  <2>3. PoolCurrent' /\ Promised'
    BY <1>2 DEF AttachFails, PoolCurrent, Promised
  <2>4. NobodyStranded'
    BY <1>2 DEF AttachFails, NobodyStranded, Waiters, TypeOK
  <2> QED
    BY <2>2, <2>3, <2>4
<1> QED
  BY <1>1, <1>2

LEMMA ReuseInv ==
  ASSUME PoolInv, NEW c \in Callers, Reuse(c)
  PROVE  PoolInv'
<1> USE DEF PoolInv
<1> DEFINE i == Max(CurrentInPool)
<1>1. i \in DOMAIN pool /\ pool[i] \in Conns
  BY TopOfPool DEF Reuse
<1>2. /\ conn' = [conn EXCEPT ![c] = pool[i]] /\ pool' = SubSeq(pool, 1, i - 1)
      /\ pc' = [pc EXCEPT ![c] = "using"]
      /\ UNCHANGED <<instance, initPromise, generation, attaches, attaching, dead, db, faults>>
  BY DEF Reuse, Goto
<1>3. pool \in Seq(Conns)
  BY DEF TypeOK
<1> HIDE DEF i
<1>4. /\ pool' \in Seq(Conns) /\ Len(pool') = i - 1 /\ i - 1 <= Len(pool)
      /\ \A j \in DOMAIN pool' : j \in DOMAIN pool /\ pool'[j] = pool[j]
  BY <1>1, <1>2, <1>3, ShorterPool
<1>5. Len(pool') <= PoolSize
  <2>1. i \in Nat /\ Len(pool) \in Nat
    BY <1>1, <1>3
  <2> QED
    BY <1>4, <2>1, PoolAssumption DEF TypeOK
<1>6. TypeOK'
  BY <1>1, <1>2, <1>4, <1>5 DEF TypeOK, Instances, Conns
<1>7. PoolCurrent'
  BY <1>2, <1>4 DEF PoolCurrent
<1> QED
  BY <1>2, <1>6, <1>7 DEF Promised, NobodyStranded, TypeOK

LEMMA ReleaseInv ==
  ASSUME PoolInv, NEW c \in Callers, Release(c)
  PROVE  PoolInv'
<1> USE DEF PoolInv
<1>1. /\ pc' = [pc EXCEPT ![c] = "idle"] /\ db' = [db EXCEPT ![c] = Null]
      /\ conn' = [conn EXCEPT ![c] = NoConn]
      /\ UNCHANGED <<instance, initPromise, generation, attaches, attaching, dead, faults>>
  BY DEF Release, Return, Goto
<1>2. NoConn \in Conns /\ Null \in Instances /\ conn[c] \in Conns
  BY DEF TypeOK, NoConn, Conns, Instances, Null
<1>3. /\ pool' \in Seq(Conns) /\ Len(pool') <= PoolSize
      /\ \A j \in DOMAIN pool' : pool'[j].tag = generation
  <2>1. CASE conn[c].tag = generation /\ Len(pool) < PoolSize
    <3>1. pool' = Append(pool, conn[c])
      BY <2>1 DEF Release
    <3>2. pool \in Seq(Conns) /\ Len(pool) \in Nat
      BY DEF TypeOK
    <3>3. Len(pool') = Len(pool) + 1 /\ pool' \in Seq(Conns)
      BY <1>2, <3>1, <3>2
    <3>4. \A j \in 1..Len(pool) : pool'[j] = pool[j]
      BY <1>2, <3>1, <3>2
    <3>5. pool'[Len(pool) + 1] = conn[c]
      BY <1>2, <3>1, <3>2
    <3> QED
      BY <2>1, <3>2, <3>3, <3>4, <3>5, PoolAssumption DEF PoolCurrent
  <2>2. CASE ~(conn[c].tag = generation /\ Len(pool) < PoolSize)
    BY <2>2 DEF Release, TypeOK, PoolCurrent
  <2> QED
    BY <2>1, <2>2
<1>4. TypeOK'
  BY <1>1, <1>2, <1>3 DEF TypeOK, Instances, Conns
<1>5. PoolCurrent'
  BY <1>1, <1>3 DEF PoolCurrent
<1> QED
  BY <1>1, <1>4, <1>5 DEF Promised, NobodyStranded, TypeOK

\* Steps of a caller that leave the instance, the promise and the attaches alone
\* and do not make it wait.
LEMMA CallerInv ==
  ASSUME PoolInv, NEW c \in Callers,
         \/ CheckPasses(c) \/ CheckReturns(c) \/ Open(c)
         \/ Connected(c) \/ ConnectFails(c) \/ Fatal(c)
  PROVE  PoolInv'
<1> USE DEF PoolInv
<1>1. Null \in Instances /\ generation \in 0..generation /\ NoConn \in Conns
  BY DEF TypeOK, Instances, Null, NoConn, Conns
<1>2. CASE CheckPasses(c) \/ CheckReturns(c)
  BY <1>2, ZenonT(60) DEF CheckPasses, CheckReturns, Goto, TypeOK, Instances, Conns, PoolCurrent,
       Promised, NobodyStranded
<1>3. CASE Open(c)
  <2>1. pool' = <<>> /\ Len(pool') <= PoolSize /\ pool' \in Seq(Conns)
    BY <1>3, PoolAssumption DEF Open
  <2>2. UNCHANGED <<instance, initPromise, generation, attaches, attaching, dead, faults>>
    BY <1>3 DEF Open
  <2>3. CASE db[c] # Null
    <3>1. pc' = [pc EXCEPT ![c] = "connecting"] /\ UNCHANGED <<db, conn>>
      BY <1>3, <2>3 DEF Open, Goto
    <3> QED
      BY <2>1, <2>2, <3>1, SMTT(60) DEF TypeOK, Instances, Conns, PoolCurrent, Promised, NobodyStranded
  <2>4. CASE db[c] = Null
    <3>1. /\ pc' = [pc EXCEPT ![c] = "idle"]
          /\ db' = [db EXCEPT ![c] = Null] /\ conn' = [conn EXCEPT ![c] = NoConn]
      BY <1>3, <2>4 DEF Open, Return, Goto
    <3> QED
      BY <1>1, <2>1, <2>2, <3>1, SMTT(60) DEF TypeOK, Instances, Conns, PoolCurrent, Promised, NobodyStranded
  <2> QED
    BY <2>3, <2>4
<1>4. CASE Connected(c)
  <2>1. [of |-> db[c], tag |-> generation] \in Conns
    BY <1>1 DEF TypeOK, Conns
  <2>2. TypeOK'
    BY <1>4, <2>1 DEF Connected, Goto, TypeOK, Instances, Conns
  <2> QED
    BY <1>4, <2>2 DEF Connected, Goto, PoolCurrent, Promised, NobodyStranded, TypeOK
<1>5. CASE ConnectFails(c)
  BY <1>1, <1>5 DEF ConnectFails, Goto, Return, TypeOK, Instances, Conns, PoolCurrent,
       Promised, NobodyStranded
<1>6. CASE Fatal(c)
  <2>1. conn[c].of \in Instances
    BY DEF TypeOK, Conns
  <2>2. faults' \in 0..MaxFaults
    BY <1>6, PoolAssumption DEF Fatal, Fault, TypeOK
  <2> QED
    BY <1>6, <2>1, <2>2 DEF Fatal, TypeOK, Instances, Conns, PoolCurrent, Promised, NobodyStranded
<1> QED
  BY <1>2, <1>3, <1>4, <1>5, <1>6

THEOREM StepInv == PoolInv /\ [Next]_vars => PoolInv'
<1> SUFFICES ASSUME PoolInv, [Next]_vars PROVE PoolInv'
  OBVIOUS
<1>1. CASE Next
  <2>1. ASSUME NEW c \in Callers, Call(c) \/ Answer(c) \/ Resume(c) \/ (Drained /\ Fatal(c))
        PROVE  PoolInv'
    BY <2>1, RequestInv, CheckFailsInv, ReuseInv, ReleaseInv, CallerInv DEF Call, Answer, Resume
  <2>2. ASSUME NEW n \in attaching, Attach(n)
        PROVE  PoolInv'
    BY <2>2, AttachInv DEF Attach
  <2> QED
    BY <1>1, <2>1, <2>2 DEF Next
<1>2. CASE UNCHANGED vars
  BY <1>2 DEF vars, PoolInv, TypeOK, Instances, Conns, PoolCurrent, Promised, NobodyStranded
<1> QED
  BY <1>1, <1>2

----------------------------------------------------------------------------
(* Theorems *)

\* Every reachable state is well typed; the pool never exceeds its size.
THEOREM TypeCorrect == Spec => []TypeOK
<1>1. PoolInv => TypeOK
  BY DEF PoolInv
<1> QED
  BY <1>1, InitInv, StepInv, PTL DEF Spec

\* The pool never keeps a connection of an older generation, however callers,
\* invalidations and attaches interleave (releaseConnection's tag check).
THEOREM PoolStaysCurrent == Spec => []PoolCurrent
<1>1. PoolInv => PoolCurrent
  BY DEF PoolInv
<1> QED
  BY <1>1, InitInv, StepInv, PTL DEF Spec

\* A caller that waits in getDbInstance waits for an attach in progress, also
\* after that attach was superseded.
THEOREM NobodyStrandedEver == Spec => []NobodyStranded
<1>1. PoolInv => NobodyStranded
  BY DEF PoolInv
<1> QED
  BY <1>1, InitInv, StepInv, PTL DEF Spec

\* What getConnection keeps in the pool is of the current instance, and whoever it
\* lets wait, waits for an attach in progress.
THEOREM PoolAlwaysSafe == Spec => []PoolSafe
  BY PoolStaysCurrent, NobodyStrandedEver, PTL DEF PoolSafe

-----------------------------------------------------------------------------
(* The gate of user queries                                                *)

\* The queue holds each waiting request once, and nobody else.
SlotsAwaited ==
  /\ \A i \in DOMAIN queue : place[queue[i]] = "queued"
  /\ \A i, j \in DOMAIN queue : queue[i] = queue[j] => i = j
  /\ \A c \in Clients : place[c] = "queued" => \E i \in DOMAIN queue : queue[i] = c

\* What is true of the limits: a slot is taken only below the limit.
Limited == limit <= highest /\ active <= highest

GateInv ==
  /\ GateTypeOK
  /\ SlotsAwaited
  /\ IsFiniteSet(Holders)
  /\ SlotsExact
  /\ Limited

Owner == {"connecting", "running", "closing"}

----------------------------------------------------------------------------
(* Holders and queue *)

\* A request that takes a slot becomes one more holder.
LEMMA HolderJoins ==
  ASSUME GateTypeOK, IsFiniteSet(Holders), NEW c \in Clients, place[c] \notin Owner,
         place' = [place EXCEPT ![c] = "connecting"]
  PROVE  IsFiniteSet(Holders') /\ Cardinality(Holders') = Cardinality(Holders) + 1
<1>1. Holders' = Holders \cup {c}
  BY DEF Holders, Owner, GateTypeOK
<1>2. c \notin Holders
  BY DEF Holders, Owner
<1> QED
  BY <1>1, <1>2, FS_AddElement

\* A request that gives up its slot is no holder any more.
LEMMA HolderLeaves ==
  ASSUME GateTypeOK, IsFiniteSet(Holders), NEW c \in Clients, place[c] \in Owner,
         place' = [place EXCEPT ![c] = "idle"]
  PROVE  IsFiniteSet(Holders') /\ Cardinality(Holders') = Cardinality(Holders) - 1
<1>1. Holders' = Holders \ {c}
  BY DEF Holders, Owner, GateTypeOK
<1>2. c \in Holders
  BY DEF Holders, Owner
<1> QED
  BY <1>1, <1>2, FS_RemoveElement

\* A slot that is handed on changes its holder only.
LEMMA HolderChanges ==
  ASSUME GateTypeOK, IsFiniteSet(Holders), NEW c \in Clients, NEW h \in Clients,
         place[c] \in Owner, place[h] = "queued",
         place' = [place EXCEPT ![c] = "idle", ![h] = "connecting"]
  PROVE  IsFiniteSet(Holders') /\ Cardinality(Holders') = Cardinality(Holders)
<1>1. c # h
  BY DEF Owner
<1>2. Holders' = (Holders \ {c}) \cup {h}
  BY <1>1 DEF Holders, Owner, GateTypeOK
<1>3. c \in Holders /\ h \notin Holders
  BY DEF Holders, Owner
<1>4. IsFiniteSet(Holders \ {c}) /\ Cardinality(Holders \ {c}) = Cardinality(Holders) - 1
  BY <1>3, FS_RemoveElement
<1>5. /\ IsFiniteSet((Holders \ {c}) \cup {h})
      /\ Cardinality((Holders \ {c}) \cup {h}) = Cardinality(Holders \ {c}) + 1
  BY <1>3, <1>4, FS_AddElement
<1>6. Cardinality(Holders) \in Nat
  BY FS_CardinalityType
<1> QED
  BY <1>2, <1>4, <1>5, <1>6

\* The request at the head of a queue that is not empty.
LEMMA HeadOfQueue ==
  ASSUME GateTypeOK, SlotsAwaited, queue # <<>>
  PROVE  /\ Head(queue) \in Clients
         /\ place[Head(queue)] = "queued"
         /\ Tail(queue) \in Seq(Clients)
         /\ Len(queue) \in Nat \ {0}
         /\ Head(queue) = queue[1]
         /\ DOMAIN Tail(queue) = 1..(Len(queue) - 1)
         /\ \A i \in DOMAIN Tail(queue) : Tail(queue)[i] = queue[i + 1]
<1>1. queue \in Seq(Clients) /\ Len(queue) \in Nat \ {0} /\ DOMAIN queue = 1..Len(queue)
  BY DEF GateTypeOK
<1>2. Head(queue) = queue[1] /\ 1 \in DOMAIN queue
  BY <1>1
<1> QED
  BY <1>1, <1>2 DEF SlotsAwaited

----------------------------------------------------------------------------
(* Steps *)

THEOREM GateInitInv == GateInit => GateInv
<1> SUFFICES ASSUME GateInit PROVE GateInv
  OBVIOUS
<1>1. GateTypeOK
  BY GateAssumption DEF GateInit, GateTypeOK
<1>2. Holders = {}
  BY DEF GateInit, Holders
<1>3. IsFiniteSet(Holders) /\ SlotsExact
  BY <1>2, FS_EmptySet DEF GateInit, SlotsExact
<1> QED
  BY <1>1, <1>3, GateAssumption DEF GateInit, GateInv, SlotsAwaited, Limited

\* A request takes a free slot.
LEMMA TakesSlot ==
  ASSUME GateInv, NEW c \in Clients, place[c] = "idle", active < limit,
         active' = active + 1, place' = [place EXCEPT ![c] = "connecting"],
         UNCHANGED <<limit, queue, changes, highest>>
  PROVE  GateInv'
<1> USE DEF GateInv
<1>1. GateTypeOK'
  BY DEF GateTypeOK
<1>2. SlotsAwaited'
  BY DEF SlotsAwaited, GateTypeOK
<1>3. IsFiniteSet(Holders') /\ SlotsExact'
  BY HolderJoins DEF Owner, SlotsExact
<1>4. Limited'
  BY GateAssumption DEF Limited, GateTypeOK
<1> QED
  BY <1>1, <1>2, <1>3, <1>4

\* A request queues.
LEMMA Queues ==
  ASSUME GateInv, NEW c \in Clients, place[c] = "idle",
         queue' = Append(queue, c), place' = [place EXCEPT ![c] = "queued"],
         UNCHANGED <<limit, active, changes, highest>>
  PROVE  GateInv'
<1> USE DEF GateInv
<1>1. queue \in Seq(Clients) /\ Len(queue) \in Nat /\ DOMAIN queue = 1..Len(queue)
  BY DEF GateTypeOK
<1>2. /\ queue' \in Seq(Clients)
      /\ DOMAIN queue' = 1..(Len(queue) + 1)
      /\ \A i \in DOMAIN queue : queue'[i] = queue[i]
      /\ queue'[Len(queue) + 1] = c
  BY <1>1
<1>3. GateTypeOK'
  BY <1>2 DEF GateTypeOK
<1>4. SlotsAwaited'
  <2>1. \A i \in DOMAIN queue : queue[i] # c /\ queue[i] \in Clients
    BY <1>1 DEF SlotsAwaited
  <2>2. \A i \in DOMAIN queue' : i \in DOMAIN queue \/ i = Len(queue) + 1
    BY <1>1, <1>2
  <2>3. \A i \in DOMAIN queue' : place'[queue'[i]] = "queued"
    BY <1>1, <1>2, <2>1, <2>2 DEF SlotsAwaited, GateTypeOK
  <2>4. \A i, j \in DOMAIN queue' : queue'[i] = queue'[j] => i = j
    BY <1>2, <2>1, <2>2 DEF SlotsAwaited
  <2>5. ASSUME NEW d \in Clients, place'[d] = "queued"
        PROVE  \E i \in DOMAIN queue' : queue'[i] = d
    <3>1. CASE d = c
      BY <1>1, <1>2, <3>1
    <3>2. CASE d # c
      <4>1. place[d] = "queued"
        BY <2>5, <3>2 DEF GateTypeOK
      <4>2. PICK i \in DOMAIN queue : queue[i] = d
        BY <4>1 DEF SlotsAwaited
      <4>3. i \in DOMAIN queue' /\ queue'[i] = d
        BY <1>1, <1>2, <4>2
      <4> QED
        BY <4>3
    <3> QED
      BY <3>1, <3>2
  <2> QED
    BY <2>3, <2>4, <2>5 DEF SlotsAwaited
<1>5. Holders' = Holders
  BY DEF Holders, GateTypeOK
<1> QED
  BY <1>3, <1>4, <1>5 DEF SlotsExact, Limited

\* A holder gives its slot back, to the queue or to all.
LEMMA GivesBack ==
  ASSUME GateInv, NEW c \in Clients, place[c] \in Owner, Free(c),
         UNCHANGED <<limit, changes, highest>>
  PROVE  GateInv'
<1> USE DEF GateInv
<1>0. active \in Nat /\ highest \in Nat /\ c \in Holders
  BY GateAssumption DEF GateTypeOK, Holders, Owner
<1>1. CASE queue = <<>>
  <2>1. active' = active - 1 /\ place' = [place EXCEPT ![c] = "idle"] /\ queue' = queue
    BY <1>1 DEF Free, Move
  <2>2. IsFiniteSet(Holders') /\ SlotsExact'
    BY <2>1, HolderLeaves DEF SlotsExact
  <2>3. active' \in Nat
    BY <2>2, FS_CardinalityType DEF SlotsExact
  <2>4. GateTypeOK'
    BY <2>1, <2>3 DEF GateTypeOK
  <2>5. SlotsAwaited'
    BY <1>1, <2>1 DEF SlotsAwaited, GateTypeOK
  <2>6. Limited'
    BY <1>0, <2>1 DEF Limited
  <2> QED
    BY <2>2, <2>4, <2>5, <2>6
<1>2. CASE queue # <<>>
  <2> DEFINE h == Head(queue)
  <2>1. /\ active' = active /\ queue' = Tail(queue)
        /\ place' = [place EXCEPT ![c] = "idle", ![h] = "connecting"]
    BY <1>2 DEF Free
  <2>2. /\ h \in Clients /\ place[h] = "queued" /\ h = queue[1]
        /\ queue' \in Seq(Clients)
        /\ Len(queue) \in Nat \ {0}
        /\ DOMAIN queue' = 1..(Len(queue) - 1)
        /\ \A i \in DOMAIN queue' : queue'[i] = queue[i + 1]
    BY <1>2, <2>1, HeadOfQueue
  <2> HIDE DEF h
  <2>3. IsFiniteSet(Holders') /\ SlotsExact'
    BY <2>1, <2>2, HolderChanges DEF SlotsExact
  <2>4. GateTypeOK'
    BY <2>1, <2>2 DEF GateTypeOK
  <2>5. SlotsAwaited'
    <3>1. DOMAIN queue = 1..Len(queue) /\ queue \in Seq(Clients)
      BY DEF GateTypeOK
    <3>2. \A i \in DOMAIN queue' : i + 1 \in DOMAIN queue /\ i + 1 # 1 /\ 1 \in DOMAIN queue
      BY <2>2, <3>1
    <3>3. \A i \in DOMAIN queue' : queue'[i] # h /\ place[queue'[i]] = "queued"
      BY <2>2, <3>2 DEF SlotsAwaited
    <3>4. \A i \in DOMAIN queue' : place'[queue'[i]] = "queued"
      <4> SUFFICES ASSUME NEW i \in DOMAIN queue' PROVE place'[queue'[i]] = "queued"
        OBVIOUS
      <4>1. queue'[i] \in Clients
        BY <2>2, <3>1, <3>2
      <4>2. queue'[i] # h /\ queue'[i] # c
        BY <3>3 DEF Owner
      <4> QED
        BY <2>1, <3>3, <4>1, <4>2 DEF GateTypeOK
    <3>5. \A i, j \in DOMAIN queue' : queue'[i] = queue'[j] => i = j
      <4> SUFFICES ASSUME NEW i \in DOMAIN queue', NEW j \in DOMAIN queue',
                          queue'[i] = queue'[j]
                   PROVE  i = j
        OBVIOUS
      <4>1. i + 1 = j + 1
        BY <2>2, <3>2 DEF SlotsAwaited
      <4> QED
        BY <2>2, <4>1
    <3>6. ASSUME NEW d \in Clients, place'[d] = "queued"
          PROVE  \E i \in DOMAIN queue' : queue'[i] = d
      <4>1. place[d] = "queued" /\ d # h
        BY <2>1, <2>2, <3>6 DEF GateTypeOK
      <4>2. PICK j \in DOMAIN queue : queue[j] = d
        BY <4>1 DEF SlotsAwaited
      <4>3. j \in 2..Len(queue)
        BY <2>2, <3>1, <4>1, <4>2
      <4>4. j - 1 \in DOMAIN queue' /\ (j - 1) + 1 = j
        BY <2>2, <4>3
      <4> QED
        BY <2>2, <4>2, <4>4
    <3> QED
      BY <3>4, <3>5, <3>6 DEF SlotsAwaited
  <2>6. Limited'
    BY <2>1 DEF Limited
  <2> QED
    BY <2>3, <2>4, <2>5, <2>6
<1> QED
  BY <1>1, <1>2

\* A holder goes on from one stage of its query to the next.
LEMMA GoesOn ==
  ASSUME GateInv, NEW c \in Clients, place[c] \in Owner, NEW label \in Owner,
         place' = [place EXCEPT ![c] = label],
         UNCHANGED <<limit, active, queue, changes, highest>>
  PROVE  GateInv'
<1> USE DEF GateInv
<1>1. Holders' = Holders
  BY DEF Holders, Owner, GateTypeOK
<1>2. GateTypeOK'
  BY DEF GateTypeOK, Owner
<1>3. SlotsAwaited'
  BY DEF SlotsAwaited, GateTypeOK, Owner
<1> QED
  BY <1>1, <1>2, <1>3 DEF SlotsExact, Limited

LEMMA SetLimitInv ==
  ASSUME GateInv, NEW n \in Limits, SetLimit(n)
  PROVE  GateInv'
<1> USE DEF GateInv
<1>1. n \in Nat /\ highest \in Nat /\ active \in Nat /\ MaxChanges \in Nat
  BY GateAssumption DEF GateTypeOK
<1>2. GateTypeOK'
  BY <1>1 DEF SetLimit, GateTypeOK
<1>3. SlotsAwaited' /\ Holders' = Holders /\ active' = active
  BY DEF SetLimit, SlotsAwaited, Holders
<1>4. Limited'
  BY <1>1, <1>3 DEF SetLimit, Limited
<1> QED
  BY <1>2, <1>3, <1>4 DEF SlotsExact

THEOREM GateStepInv == GateInv /\ [GateNext]_gvars => GateInv'
<1> SUFFICES ASSUME GateInv, [GateNext]_gvars PROVE GateInv'
  OBVIOUS
<1>1. ASSUME NEW c \in Clients, Arrive(c) PROVE GateInv'
  BY <1>1, TakesSlot, Queues DEF Arrive, Acquire, Move
<1>2. ASSUME NEW c \in Clients, Start(c) PROVE GateInv'
  BY <1>2, GoesOn DEF Start, Move, Owner
<1>3. ASSUME NEW c \in Clients, ConnectError(c) PROVE GateInv'
  BY <1>3, GivesBack DEF ConnectError, Owner
<1>4. ASSUME NEW c \in Clients, Settle(c) PROVE GateInv'
  BY <1>4, GoesOn DEF Settle, Move, Owner
<1>5. ASSUME NEW c \in Clients, Close(c) PROVE GateInv'
  BY <1>5, GivesBack DEF Close, Owner
<1>6. ASSUME NEW n \in Limits, SetLimit(n) PROVE GateInv'
  BY <1>6, SetLimitInv
<1>7. CASE UNCHANGED gvars
  BY <1>7 DEF gvars, GateInv, GateTypeOK, SlotsAwaited, Holders, SlotsExact, Limited
<1> QED
  BY <1>1, <1>2, <1>3, <1>4, <1>5, <1>6, <1>7 DEF GateNext, Serve

----------------------------------------------------------------------------
(* Theorems *)

\* Every reachable state is well typed.
THEOREM GateTypeCorrect == GateSpec => []GateTypeOK
<1>1. GateInv => GateTypeOK
  BY DEF GateInv
<1> QED
  BY <1>1, GateInitInv, GateStepInv, PTL DEF GateSpec

\* Acquiring and releasing match on every path of withUserConnection: the slots
\* counted in userActive are those of the requests that own one.
THEOREM SlotsAlwaysExact == GateSpec => []SlotsExact
<1>1. GateInv => SlotsExact
  BY DEF GateInv
<1> QED
  BY <1>1, GateInitInv, GateStepInv, PTL DEF GateSpec

\* There are never more queries than the highest limit there was allowed.
THEOREM AlwaysCapped == GateSpec => []Capped
<1>1. GateInv => Capped
  BY DEF GateInv, Limited, Capped
<1> QED
  BY <1>1, GateInitInv, GateStepInv, PTL DEF GateSpec

\* userQueue holds the waiting requests, each once.
THEOREM QueueAlwaysExact == GateSpec => []QueueExact
<1> DEFINE Queued == {c \in Clients : place[c] = "queued"}
<1>1. GateInv => QueueExact
  <2> SUFFICES ASSUME GateInv PROVE QueueExact
    OBVIOUS
  <2>1. queue \in [1..Len(queue) -> Clients] /\ Len(queue) \in Nat
        /\ DOMAIN queue = 1..Len(queue)
    BY DEF GateInv, GateTypeOK
  <2>2. {queue[i] : i \in DOMAIN queue} = Queued
    BY <2>1 DEF GateInv, SlotsAwaited
  <2>3. queue \in Bijection(1..Len(queue), Queued)
    <3>1. queue \in [1..Len(queue) -> Queued]
      BY <2>1, <2>2
    <3>2. \A i, j \in 1..Len(queue) : queue[i] = queue[j] => i = j
      BY <2>1 DEF GateInv, SlotsAwaited
    <3>3. \A c \in Queued : \E i \in 1..Len(queue) : queue[i] = c
      BY <2>1, <2>2
    <3> QED
      BY <3>1, <3>2, <3>3 DEF Bijection, Injection, Surjection, IsInjective
  <2>4. Cardinality(Queued) = Len(queue)
    BY <2>1, <2>3, FS_CountingElements DEF ExistsBijection
  <2> QED
    BY <2>2, <2>4 DEF QueueExact
<1> QED
  BY <1>1, GateInitInv, GateStepInv, PTL DEF GateSpec

\* The gate counts its slots right and never gives more than the highest limit.
THEOREM GateAlwaysSafe == GateSpec => []GateSafe
  BY SlotsAlwaysExact, AlwaysCapped, PTL DEF GateSafe

----------------------------------------------------------------------------
(* Batches of the consumer (KafkaConsumer) *)

Flying == UNION {Elements(f.rows) : f \in flights}

Batches == Seq(Offsets)
Flights == [rows : Batches, full : BOOLEAN]
FitsBatch(b) == b \in Batches /\ Len(b) < Batch

KafkaTyped ==
  /\ next \in 1..(MaxOffset + 1) /\ commit \in 0..MaxOffset /\ commit < next
  /\ awaiting \in BOOLEAN /\ timeoutSet \in BOOLEAN /\ armed \in BOOLEAN
  /\ FitsBatch(batch) /\ flights \subseteq Flights
  /\ written \in [Offsets -> Nat] /\ dropped \subseteq Offsets /\ crashes \in Nat

\* A batch that waits has its timer, and each message handed over, up to
\* "next", is in one batch only: those of a crash's redelivery are in none.
InOneBatch ==
  /\ timeoutSet = armed /\ (batch # <<>> => armed)
  /\ \A o \in Elements(batch) \cup Flying : o < next
  /\ Elements(batch) \cap Flying = {}
  /\ \A f, g \in flights : f # g => Elements(f.rows) \cap Elements(g.rows) = {}

\* What was handed over waits, is written or is dropped,
HandedOver ==
  \A o \in 1..(next - 1) : kind[o] = "row" => o \in Stored \cup Elements(batch) \cup Flying \cup dropped

\* and, until a crash has it delivered again, one of the three.
WrittenOnceOnly ==
  crashes = 0 =>
    /\ \A o \in Stored : written[o] = 1 /\ o < next
    /\ \A o \in dropped : o < next
    /\ (Stored \cup dropped) \cap (Elements(batch) \cup Flying) = {}
    /\ Stored \cap dropped = {}

\* The inductive invariant of BatchesKept.
KafkaInv == KafkaTyped /\ InOneBatch /\ HandedOver /\ WrittenOnceOnly

LEMMA ElementsIn ==
  /\ Elements(<<>>) = {}
  /\ \A s \in Batches : Elements(s) \subseteq Offsets
BY DEF Elements, Batches

LEMMA EmptyBatch == FitsBatch(<<>>)
BY KafkaAssumption DEF FitsBatch, Batches

LEMMA FlightsIn ==
  /\ \A b \in Batches, x \in BOOLEAN : LET f == [rows |-> b, full |-> x] IN f \in Flights /\ f.rows = b
  /\ \A f \in Flights : f.rows \in Batches /\ f.full \in BOOLEAN
BY DEF Flights

LEMMA FlightAdded ==
  ASSUME NEW w, flights' = flights \cup {w} PROVE Flying' = Flying \cup Elements(w.rows)
BY DEF Flying

LEMMA ElementsAppend ==
  ASSUME NEW s \in Batches, NEW o \in Offsets
  PROVE  /\ Append(s, o) \in Batches /\ Len(Append(s, o)) = Len(s) + 1 /\ Append(s, o) # <<>>
         /\ Elements(Append(s, o)) = Elements(s) \cup {o}
<1> DEFINE t == Append(s, o)
<1>1. t \in Batches /\ Len(t) = Len(s) + 1 /\ t # <<>> /\ Len(s) \in Nat
  BY DEF Batches
<1>2. t[Len(s) + 1] = o /\ \A i \in 1..Len(s) : t[i] = s[i]
  BY DEF Batches
<1> HIDE DEF t
<1>3. Elements(t) = Elements(s) \cup {o}
  BY <1>1, <1>2 DEF Elements
<1> QED
  BY <1>1, <1>3 DEF t

LEMMA KafkaBegins == KafkaInit => KafkaInv
<1> SUFFICES ASSUME KafkaInit PROVE KafkaInv
  OBVIOUS
<1> USE KafkaAssumption DEF KafkaInit
<1>1. Flying = {} /\ Stored = {}
  BY DEF Flying, Stored
<1>2. KafkaTyped
  <2>1. FitsBatch(batch) /\ written \in [Offsets -> Nat]
    BY EmptyBatch
  <2>2. next \in 1..(MaxOffset + 1) /\ commit \in 0..MaxOffset /\ commit < next
    OBVIOUS
  <2> QED
    BY <2>1, <2>2 DEF KafkaTyped
<1>3. InOneBatch
  BY <1>1, ElementsIn DEF InOneBatch
<1>4. HandedOver /\ WrittenOnceOnly
  BY <1>1, ElementsIn DEF HandedOver, WrittenOnceOnly
<1> QED
  BY <1>2, <1>3, <1>4 DEF KafkaInv

LEMMA HandleKeeps == KafkaInv /\ HandleMessage => KafkaInv'
<1> SUFFICES ASSUME KafkaInv, HandleMessage PROVE KafkaInv'
  OBVIOUS
<1>0. KafkaTyped /\ InOneBatch /\ HandedOver /\ WrittenOnceOnly
  BY DEF KafkaInv
<1> DEFINE b == Append(batch, next)
           w == [rows |-> b, full |-> TRUE]
<1>1. next \in Offsets /\ next \in Nat /\ next < MaxOffset + 1
  BY <1>0, KafkaAssumption DEF HandleMessage, KafkaTyped, Offsets
<1>2. b \in Batches /\ b # <<>> /\ Elements(b) = Elements(batch) \cup {next} /\ Len(b) \in Nat
  <2>1. batch \in Batches
    BY <1>0 DEF KafkaTyped, FitsBatch
  <2>2. Len(b) \in Nat
    BY <1>1, <2>1 DEF Batches
  <2> QED
    BY <1>1, <2>1, <2>2, ElementsAppend
<1>3. w \in Flights /\ w.rows = b
  BY <1>2, FlightsIn
<1>4. /\ next' = next + 1
      /\ UNCHANGED <<kind, commit, written, dropped, writeFaults, crashes>>
  BY DEF HandleMessage
<1>5. Stored' = Stored /\ (\A o \in Stored \cup dropped : o \in Offsets) /\ (\A o \in Offsets : o \in Nat)
  BY <1>0, <1>4 DEF Stored, KafkaTyped, Offsets
<1>6. next' \in 1..(MaxOffset + 1) /\ commit' \in 0..MaxOffset /\ commit' < next'
  BY <1>0, <1>1, <1>4, KafkaAssumption DEF KafkaTyped
<1>7. \/ kind[next] # "row" /\ UNCHANGED <<awaiting, batch, timeoutSet, armed, flights>>
      \/ /\ timeoutSet' = FALSE /\ armed' = (armed /\ ~timeoutSet)
         /\ batch' = <<>> /\ flights' = flights \cup {w} /\ awaiting' = TRUE
      \/ /\ Len(b) < Batch /\ batch' = b /\ timeoutSet' = TRUE /\ armed' = (armed \/ ~timeoutSet)
         /\ UNCHANGED <<awaiting, flights>>
  BY <1>2, KafkaAssumption DEF HandleMessage
<1> HIDE DEF b, w
<1>8. \A o \in Elements(batch) \cup Flying : o \in Nat /\ o < next
  BY <1>0, <1>5, ElementsIn, FlightsIn DEF KafkaTyped, FitsBatch, InOneBatch, Flying
<1>9. ASSUME Elements(batch)' \cup Flying' \subseteq Elements(batch) \cup Flying \cup {next},
             Elements(batch) \cup Flying \subseteq Elements(batch)' \cup Flying',
             kind[next] = "row" => next \in Elements(batch)' \cup Flying'
      PROVE  HandedOver' /\ WrittenOnceOnly' /\ \A o \in Elements(batch)' \cup Flying' : o < next'
  <2>1. \A o \in Elements(batch)' \cup Flying' : o < next'
    BY <1>1, <1>4, <1>8, <1>9
  <2>2. HandedOver'
    <3>1. \A o \in 1..(next' - 1) : o \in 1..(next - 1) \/ o = next
      BY <1>1, <1>4
    <3> QED
      BY <1>0, <1>4, <1>5, <1>9, <3>1 DEF HandedOver
  <2>3. WrittenOnceOnly'
    <3>1. ASSUME crashes = 0 PROVE /\ \A o \in Stored : written[o] = 1 /\ o < next'
                                  /\ \A o \in dropped : o < next'
      <4>1. \A o \in Stored \cup dropped : o \in Nat /\ o < next
        BY <1>0, <1>5, <3>1 DEF WrittenOnceOnly
      <4>2. \A o \in Stored \cup dropped : o < next'
        BY <1>1, <1>4, <4>1
      <4> QED
        BY <1>0, <3>1, <4>2 DEF WrittenOnceOnly
    <3>2. ASSUME crashes = 0 PROVE next \notin Stored \cup dropped
      BY <1>0, <1>1, <3>2 DEF WrittenOnceOnly
    <3> QED
      BY <1>0, <1>4, <1>5, <1>9, <3>1, <3>2 DEF WrittenOnceOnly
  <2> QED
    BY <2>1, <2>2, <2>3
<1>10. CASE kind[next] # "row" /\ UNCHANGED <<awaiting, batch, timeoutSet, armed, flights>>
  <2>1. Flying' = Flying /\ Elements(batch)' = Elements(batch)
    BY <1>10 DEF Flying
  <2>2. KafkaTyped'
    BY <1>0, <1>4, <1>6, <1>10 DEF KafkaTyped
  <2>3. InOneBatch'
    BY <1>0, <1>9, <1>10, <2>1 DEF InOneBatch
  <2> QED
    BY <1>9, <1>10, <2>1, <2>2, <2>3 DEF KafkaInv
<1>11. CASE /\ timeoutSet' = FALSE /\ armed' = (armed /\ ~timeoutSet)
            /\ batch' = <<>> /\ flights' = flights \cup {w} /\ awaiting' = TRUE
  <2>1. Elements(batch)' = {} /\ Flying' = Flying \cup Elements(batch) \cup {next}
    BY <1>2, <1>3, <1>11, ElementsIn, FlightAdded
  <2>2. KafkaTyped'
    BY <1>0, <1>3, <1>4, <1>6, <1>11, EmptyBatch, KafkaAssumption DEF KafkaTyped
  <2>3. InOneBatch'
    <3>1. \A f \in flights : Elements(f.rows) \subseteq Flying
      BY DEF Flying
    <3>2. \A f \in flights : Elements(f.rows) \cap Elements(w.rows) = {}
      <4>1. Flying \cap (Elements(batch) \cup {next}) = {}
        <5>1. next \notin Flying
          BY <1>1, <1>8
        <5> QED
          BY <1>0, <5>1 DEF InOneBatch
      <4>2. Elements(w.rows) = Elements(batch) \cup {next}
        BY <1>2, <1>3
      <4> QED
        BY <3>1, <4>1, <4>2
    <3>3. \A f, g \in flights' : f # g => Elements(f.rows) \cap Elements(g.rows) = {}
      <4>1. \A f \in flights' : f \in flights \/ f = w
        BY <1>11
      <4> QED
        BY <1>0, <3>2, <4>1 DEF InOneBatch
    <3>4. timeoutSet' = armed' /\ batch' = <<>>
      BY <1>0, <1>11 DEF InOneBatch
    <3> QED
      BY <1>9, <2>1, <3>3, <3>4 DEF InOneBatch
  <2> QED
    BY <1>9, <2>1, <2>2, <2>3 DEF KafkaInv
<1>12. CASE /\ Len(b) < Batch /\ batch' = b /\ timeoutSet' = TRUE /\ armed' = (armed \/ ~timeoutSet)
            /\ UNCHANGED <<awaiting, flights>>
  <2>1. Elements(batch)' = Elements(batch) \cup {next} /\ Flying' = Flying
    BY <1>2, <1>12 DEF Flying
  <2>2. KafkaTyped'
    BY <1>0, <1>2, <1>4, <1>6, <1>12 DEF KafkaTyped, FitsBatch
  <2>3. InOneBatch'
    <3>1. Elements(batch)' \cap Flying' = {}
      BY <1>0, <1>1, <1>8, <2>1 DEF InOneBatch
    <3>2. timeoutSet' = armed' /\ armed'
      BY <1>0, <1>12 DEF InOneBatch, KafkaTyped
    <3> QED
      BY <1>0, <1>9, <1>12, <2>1, <3>1, <3>2 DEF InOneBatch
  <2> QED
    BY <1>9, <2>1, <2>2, <2>3 DEF KafkaInv
<1> QED
  BY <1>7, <1>10, <1>11, <1>12

LEMMA TimerKeeps == KafkaInv /\ TimerFires => KafkaInv'
<1> SUFFICES ASSUME KafkaInv, TimerFires PROVE KafkaInv'
  OBVIOUS
<1>0. KafkaTyped /\ InOneBatch /\ HandedOver /\ WrittenOnceOnly
  BY DEF KafkaInv
<1> DEFINE new == {[rows |-> b, full |-> FALSE] : b \in {batch} \ {<<>>}}
<1>1. /\ armed' = FALSE /\ timeoutSet' = FALSE /\ batch' = <<>>
      /\ flights' = flights \cup new
      /\ UNCHANGED <<kind, next, commit, awaiting, written, dropped, writeFaults, crashes>>
  BY DEF TimerFires, AfterTimer
<1>2. Stored' = Stored
  BY <1>1 DEF Stored
<1>3. \A f \in new : f = [rows |-> batch, full |-> FALSE] /\ f.rows = batch
  OBVIOUS
<1>4. batch # <<>> => [rows |-> batch, full |-> FALSE] \in new
  OBVIOUS
<1> HIDE DEF new
<1>5. Elements(batch)' = {} /\ Flying' = Flying \cup Elements(batch)
  <2>1. Elements(batch)' = {}
    BY <1>1, ElementsIn
  <2>2. CASE batch = <<>>
    <3>1. Elements(batch) = {}
      BY <2>2, ElementsIn
    <3> QED
      BY <1>1, <1>3, <2>1, <3>1 DEF Flying
  <2>3. CASE batch # <<>>
    BY <1>1, <1>3, <1>4, <2>1, <2>3 DEF Flying
  <2> QED
    BY <2>2, <2>3
<1>6. KafkaTyped'
  <2>1. \A f \in new : f \in Flights
    BY <1>0, <1>3, FlightsIn DEF KafkaTyped, FitsBatch
  <2> QED
    BY <1>0, <1>1, <2>1, EmptyBatch, KafkaAssumption DEF KafkaTyped
<1>7. InOneBatch'
  <2>1. \A f \in flights : Elements(f.rows) \cap Elements(batch) = {}
    BY <1>0 DEF InOneBatch, Flying
  <2>2. \A f, g \in flights' : f # g => Elements(f.rows) \cap Elements(g.rows) = {}
    BY <1>0, <1>1, <1>3, <2>1 DEF InOneBatch
  <2> QED
    BY <1>0, <1>1, <1>5, <2>2 DEF InOneBatch
<1>8. HandedOver'
  BY <1>0, <1>1, <1>2, <1>5 DEF HandedOver
<1>9. WrittenOnceOnly'
  BY <1>0, <1>1, <1>2, <1>5 DEF WrittenOnceOnly
<1> QED
  BY <1>6, <1>7, <1>8, <1>9 DEF KafkaInv

LEMMA FlushKeeps == ASSUME KafkaInv, NEW f \in flights, FlushEnds(f) PROVE KafkaInv'
<1>0. KafkaTyped /\ InOneBatch /\ HandedOver /\ WrittenOnceOnly
  BY DEF KafkaInv
<1>1. /\ flights' = flights \ {f} /\ awaiting' = (awaiting /\ ~f.full)
      /\ UNCHANGED <<kind, next, commit, batch, timeoutSet, armed, crashes>>
  BY DEF FlushEnds
<1> DEFINE E == Elements(f.rows)
<1>2. E \subseteq Offsets /\ E \subseteq Flying
  BY <1>0, ElementsIn, FlightsIn DEF KafkaTyped, Flying
<1>3. Flying' = Flying \ E
  <2>1. \A g \in flights : g # f => Elements(g.rows) \cap E = {}
    BY <1>0 DEF InOneBatch
  <2> QED
    BY <1>1, <2>1 DEF Flying
<1>4. \/ written' = Plus(f) /\ dropped' = dropped
      \/ written' = written /\ dropped' = dropped \cup E
  BY DEF FlushEnds, Committed, WriteFails
<1>5. /\ written' \in [Offsets -> Nat] /\ dropped' \subseteq Offsets
      /\ Stored' \cup dropped' = Stored \cup dropped \cup E
      /\ \/ Stored' = Stored \cup E /\ dropped' = dropped
            /\ \A o \in Offsets : written'[o] = written[o] + IF o \in E THEN 1 ELSE 0
         \/ Stored' = Stored /\ written' = written /\ dropped' = dropped \cup E
  <2>1. CASE written' = Plus(f) /\ dropped' = dropped
    <3>1. \A o \in Offsets : /\ written[o] \in Nat
                             /\ written'[o] = written[o] + IF o \in E THEN 1 ELSE 0
      BY <1>0, <2>1 DEF Plus, KafkaTyped
    <3>2. written' \in [Offsets -> Nat]
      BY <1>0, <2>1 DEF Plus, KafkaTyped
    <3>3. Stored' = Stored \cup E
      BY <1>2, <3>1 DEF Stored
    <3> QED
      BY <1>0, <2>1, <3>1, <3>2, <3>3 DEF KafkaTyped
  <2>2. CASE written' = written /\ dropped' = dropped \cup E
    BY <1>0, <1>2, <2>2 DEF Stored, KafkaTyped
  <2> QED
    BY <1>4, <2>1, <2>2
<1>6. KafkaTyped'
  BY <1>0, <1>1, <1>5 DEF KafkaTyped
<1> HIDE DEF E
<1>7. InOneBatch'
  BY <1>0, <1>1, <1>3 DEF InOneBatch
<1>8. HandedOver'
  BY <1>0, <1>1, <1>3, <1>5 DEF HandedOver
<1>9. WrittenOnceOnly'
  <2>1. \A o \in E : o < next /\ (crashes = 0 => o \notin Stored /\ o \notin dropped)
    BY <1>0, <1>2 DEF InOneBatch, WrittenOnceOnly
  <2>2. \A o \in E : o \notin Elements(batch)
    BY <1>0, <1>2 DEF InOneBatch
  <2>3. \A o \in E : o \in Offsets /\ (o \notin Stored => written[o] = 0)
    BY <1>0, <1>2 DEF Stored, KafkaTyped
  <2>4. crashes = 0 => \A o \in Stored' : written'[o] = 1 /\ o < next
    <3>1. \A o \in Stored : o \in Offsets
      BY DEF Stored
    <3> QED
      BY <1>0, <1>5, <2>1, <2>3, <3>1 DEF WrittenOnceOnly
  <2> QED
    BY <1>0, <1>1, <1>3, <1>5, <2>1, <2>2, <2>4 DEF WrittenOnceOnly
<1> QED
  BY <1>6, <1>7, <1>8, <1>9 DEF KafkaInv

LEMMA CrashKeeps == KafkaInv /\ ConsumerCrash => KafkaInv'
<1> SUFFICES ASSUME KafkaInv, ConsumerCrash PROVE KafkaInv'
  OBVIOUS
<1>0. KafkaTyped /\ InOneBatch
  BY DEF KafkaInv
<1>1. /\ crashes' = crashes + 1 /\ next' = commit + 1 /\ UNCHANGED <<kind, commit>>
      /\ dropped' = dropped \cup (1..commit \ Stored')
      /\ batch' = <<>> /\ timeoutSet' = FALSE /\ armed' = FALSE /\ awaiting' = FALSE /\ flights' = {}
  BY DEF ConsumerCrash
<1>2. written' \in [Offsets -> Nat]
  <2>1. written' = written \/ \E f \in flights : written' = Plus(f)
    BY DEF ConsumerCrash
  <2> QED
    BY <1>0, <2>1 DEF Plus, KafkaTyped
<1>3. Flying' = {} /\ Elements(batch)' = {}
  BY <1>1, ElementsIn DEF Flying
<1>4. KafkaTyped'
  <2>1. next' \in 1..(MaxOffset + 1) /\ commit' \in 0..MaxOffset /\ commit' < next'
    BY <1>0, <1>1, KafkaAssumption DEF KafkaTyped
  <2>2. dropped' \subseteq Offsets
    <3>1. 1..commit \subseteq Offsets
      BY <1>0, KafkaAssumption DEF KafkaTyped, Offsets
    <3> QED
      BY <1>0, <1>1, <3>1 DEF KafkaTyped
  <2>3. FitsBatch(batch')
    BY <1>1, EmptyBatch
  <2>4. crashes' \in Nat
    BY <1>0, <1>1 DEF KafkaTyped
  <2> QED
    BY <1>1, <1>2, <2>1, <2>2, <2>3, <2>4 DEF KafkaTyped
<1>5. InOneBatch'
  BY <1>1, <1>3 DEF InOneBatch
<1>6. HandedOver'
  BY <1>0, <1>1 DEF HandedOver, KafkaTyped
<1>7. WrittenOnceOnly'
  BY <1>0, <1>1 DEF WrittenOnceOnly, KafkaTyped
<1> QED
  BY <1>4, <1>5, <1>6, <1>7 DEF KafkaInv

LEMMA KafkaKeeps == KafkaInv /\ [KafkaNext]_kvars => KafkaInv'
<1> SUFFICES ASSUME KafkaInv, [KafkaNext]_kvars PROVE KafkaInv'
  OBVIOUS
<1>1. CASE AutoCommit
  <2>1. commit' \in 0..MaxOffset /\ commit' < next
    BY <1>1, KafkaAssumption DEF AutoCommit, KafkaInv, KafkaTyped
  <2> QED
    BY <1>1, <2>1 DEF AutoCommit, KafkaInv, KafkaTyped, InOneBatch, HandedOver, WrittenOnceOnly,
                      Flying, Stored
<1>2. CASE UNCHANGED kvars
  BY <1>2 DEF kvars, KafkaInv, KafkaTyped, InOneBatch, HandedOver, WrittenOnceOnly, Flying, Stored
<1> QED
  BY <1>1, <1>2, HandleKeeps, TimerKeeps, FlushKeeps, CrashKeeps DEF KafkaNext

LEMMA KafkaTells == KafkaInv => KafkaTypeOK /\ BatchesKept
<1> SUFFICES ASSUME KafkaInv PROVE KafkaTypeOK /\ BatchesKept
  OBVIOUS
<1> USE DEF KafkaInv
<1>1. KafkaTypeOK
  <2>1. Elements(batch) \subseteq Offsets /\ Len(batch) < Batch
    BY ElementsIn DEF KafkaTyped, FitsBatch
  <2>2. \A f \in flights : Elements(f.rows) \subseteq Offsets /\ f.full \in BOOLEAN
    BY ElementsIn, FlightsIn DEF KafkaTyped
  <2> QED
    BY <2>1, <2>2 DEF KafkaTyped, KafkaTypeOK
<1>2. Waiting = Elements(batch) \cup Flying
  BY DEF Waiting, Flying
<1>3. \A o \in 1..commit : o \in 1..(next - 1)
  BY KafkaAssumption DEF KafkaTyped
<1>4. BatchesKept
  BY <1>2, <1>3 DEF BatchesKept, InOneBatch, HandedOver, WrittenOnceOnly, Flying
<1> QED
  BY <1>1, <1>4

\* BatchesKept: for any size of batches, messages, failing writes and crashes,
\* each message waits in one batch only, with a timer, and is written at most
\* once unless a crash had it delivered again; what Kafka will not deliver
\* again was written, waits, or was dropped (src/kafka-consumer.js, flushBatch
\* and eachMessage).
THEOREM BatchesAlwaysKept == KafkaSpec => [](KafkaTypeOK /\ BatchesKept)
<1>1. KafkaInit /\ [][KafkaNext]_kvars => []KafkaInv
  BY KafkaBegins, KafkaKeeps, PTL
<1> QED
  BY <1>1, KafkaTells, PTL DEF KafkaSpec

----------------------------------------------------------------------------
(* The event stream of a subscription (KafkaSubscription) *)

\* Who is connected is held by the handler's variables, until the cleanup,
\* which a client's leaving begins, takes the admin and then the consumer.
Held ==
  /\ admin = "open" => adminRef
  /\ consumer = "open" => consumerRef
  /\ left <=> cleanup # "no"
  /\ cleanup # "no" => ~adminRef
  /\ cleanup = "done" => ~consumerRef

\* The response is written to once the start-up is over.
WrittenTo ==
  /\ step # "streaming" => dump = -1 /\ blocked = {}
  /\ left => blocked = {}

Polled ==
  /\ polls \in 0..MaxPolls
  /\ step \in {"adminConnect", "createTopics", "poll", "sleep"} => polls < MaxPolls

\* The inductive invariant of NoOrphans.
SubInv == SubTypeOK /\ Held /\ WrittenTo /\ Polled /\ adminRef \in BOOLEAN /\ consumerRef \in BOOLEAN
            /\ left \in BOOLEAN

LEMMA SubBegins == SubInit => SubInv
<1> SUFFICES ASSUME SubInit PROVE SubInv
  OBVIOUS
<1>1. dump \in -1..HistoricRows /\ polls \in 0..MaxPolls /\ polls < MaxPolls
  BY SubAssumption DEF SubInit
<1> QED
  BY <1>1 DEF SubInit, SubInv, SubTypeOK, Held, WrittenTo, Polled

LEMMA SubKeeps == SubInv /\ [SubNext]_subvars => SubInv'
<1> SUFFICES ASSUME SubInv, [SubNext]_subvars PROVE SubInv'
  OBVIOUS
<1> USE SubAssumption DEF SubInv, SubTypeOK, Held, WrittenTo, Polled
<1>1. CASE StartupStops
  BY <1>1 DEF StartupStops, Pending, Cancelled
<1>2. CASE StartupGoesOn
  BY <1>2 DEF StartupGoesOn, NextStep, Cancelled
<1>3. CASE PollReturns
  BY <1>3 DEF PollReturns
<1>4. CASE AdminClosed
  BY <1>4 DEF AdminClosed, Cancelled
<1>5. CASE RunReturns
  BY <1>5 DEF RunReturns
<1>6. CASE StartupFails
  BY <1>6 DEF StartupFails, Pending
<1>7. CASE ClientLeaves
  BY <1>7, ZenonT(60) DEF ClientLeaves
<1>8. CASE CleanupEnds
  BY <1>8 DEF CleanupEnds
<1>9. CASE StreamMessage
  BY <1>9 DEF StreamMessage
<1>10. CASE DumpRow
  <2>1. dump' \in -1..HistoricRows /\ step = "streaming"
    BY <1>10 DEF DumpRow
  <2>2. blocked' \subseteq {"live", "dump"} /\ (left => blocked' = {})
    BY <1>10 DEF DumpRow
  <2> QED
    BY <1>10, <2>1, <2>2 DEF DumpRow
<1>11. CASE Drain
  BY <1>11 DEF Drain
<1>12. CASE UNCHANGED subvars
  BY <1>12 DEF subvars
<1> QED
  BY <1>1, <1>2, <1>3, <1>4, <1>5, <1>6, <1>7, <1>8, <1>9, <1>10, <1>11, <1>12 DEF SubNext, Startup

LEMMA SubTells == SubInv => SubTypeOK /\ NoOrphans
BY DEF SubInv, NoOrphans, Held, WrittenTo

\* NoOrphans: wherever in the start-up the client leaves and whatever call
\* fails, once the cleanup is over no admin and no consumer is connected for
\* it, and no writer waits for one that left (src/index.js,
\* GET /kafka-subscribe).
THEOREM NothingOrphaned == SubSpec => [](SubTypeOK /\ NoOrphans)
  BY SubBegins, SubKeeps, SubTells, PTL DEF SubSpec

-----------------------------------------------------------------------------
(* The parts of a gateway together (MCGateway) *)

\* A behaviour of the run gateway is one of every part: its own moves, the
\* others stay as they began.
LEMMA PartsBegin ==
  MCInit => Init /\ GateInit /\ StorageInit /\ KafkaInit /\ SubInit /\ StartInit
BY DEF MCInit, GateRests, StorageRests, KafkaRests

LEMMA PartsMove ==
  [MCNext]_allvars => /\ [Next]_vars /\ [GateNext]_gvars /\ [StorageNext]_svars
                      /\ [KafkaNext]_kvars /\ [SubNext]_subvars /\ [StartNext]_startVars
BY DEF MCNext, allvars, kafka

\* Every state of the run gateway is well typed (TypesOK), and what the run
\* checks of the pool, the gate, the consumer and the subscriptions holds for
\* any values of the constants (src/db.js, src/kafka-consumer.js, src/index.js,
\* src/storage-config.js).
THEOREM GatewayAlwaysSafe ==
  MCSpec => [](TypesOK /\ PoolSafe /\ GateSafe /\ BatchesKept /\ NoOrphans)
<1>1. MCSpec => /\ Init /\ [][Next]_vars
                /\ GateInit /\ [][GateNext]_gvars
                /\ StorageInit /\ [][StorageNext]_svars
                /\ KafkaInit /\ [][KafkaNext]_kvars
                /\ SubInit /\ [][SubNext]_subvars
                /\ StartInit /\ [][StartNext]_startVars
  BY PartsBegin, PartsMove, PTL DEF MCSpec
<1>2. Init /\ [][Next]_vars => [](TypeOK /\ PoolSafe)
  BY TypeCorrect, PoolAlwaysSafe, PTL DEF Spec
<1>3. GateInit /\ [][GateNext]_gvars => [](GateTypeOK /\ GateSafe)
  BY GateTypeCorrect, GateAlwaysSafe, PTL DEF GateSpec
<1>4. StorageInit /\ [][StorageNext]_svars => []StorageTypeOK
  BY StorageTypeCorrect DEF StorageSpec
<1>5. KafkaInit /\ [][KafkaNext]_kvars => [](KafkaTypeOK /\ BatchesKept)
  BY KafkaBegins, KafkaKeeps, KafkaTells, PTL
<1>6. SubInit /\ [][SubNext]_subvars => [](SubTypeOK /\ NoOrphans)
  BY SubBegins, SubKeeps, SubTells, PTL
<1>7. StartInit /\ [][StartNext]_startVars => []StartTypeOK
  BY StartTypeCorrect
<1>8. TypeOK /\ GateTypeOK /\ StorageTypeOK /\ KafkaTypeOK /\ SubTypeOK /\ StartTypeOK => TypesOK
  BY DEF TypesOK
<1> QED
  BY <1>1, <1>2, <1>3, <1>4, <1>5, <1>6, <1>7, <1>8, PTL
============================================================================
