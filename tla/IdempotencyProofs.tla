-------------------------- MODULE IdempotencyProofs -------------------------
(***************************************************************************)
(* Proofs about Idempotency, for any number of requests, processes and     *)
(* hashes and any lease, TTL and clock.  Under every fault: type           *)
(* correctness, faithful replays, and no claim that nobody releases.  As   *)
(* long as clients do not disconnect from a running handler and no         *)
(* request outlives its claim: mutual exclusion of the handlers of one     *)
(* key, no handler after a stored response, and the refinement of          *)
(* OnceOnly.                                                               *)
(***************************************************************************)
EXTENDS Idempotency, TLAPS

LEMMA InitType == Init => TypeOK
  BY IdempotencyAssumption
  DEF Init, TypeOK, Labels, Engaged, AnswerKinds, Rows, RowStates, NoAnswer

LEMMA StepType == TypeOK /\ [Next]_vars => TypeOK'
<1> USE IdempotencyAssumption
    DEF TypeOK, Labels, Engaged, AnswerKinds, Rows, RowStates, NoAnswer
<1> SUFFICES ASSUME TypeOK, [Next]_vars PROVE TypeOK'
  OBVIOUS
<1>1. ASSUME Tick PROVE TypeOK'
  BY <1>1 DEF Tick
<1>2. ASSUME NEW r \in Requests, Arrive(r) PROVE TypeOK'
  <2>1. HostOf[r] \in Hosts
    OBVIOUS
  <2>2. lastPurge' \in [Hosts -> Int] /\ purging' \subseteq Requests
    BY <1>2, <2>1 DEF Arrive
  <2> QED
    BY <1>2, <2>2 DEF Arrive, Goto
<1>3. ASSUME NEW r \in Requests, FirstRead(r) PROVE TypeOK'
  <2>1. /\ pc' \in [Requests -> Labels]
        /\ answer' \in [Requests -> {NoAnswer} \cup [kind : AnswerKinds, of : Requests]]
    BY <1>3 DEF FirstRead, Goto, Send
  <2> QED
    BY <1>3, <2>1 DEF FirstRead
<1>4. ASSUME NEW r \in Requests, Claim(r) PROVE TypeOK'
  BY <1>4 DEF Claim, AppendRow, Goto
<1>5. ASSUME NEW r \in Requests, ReRead(r) PROVE TypeOK'
  <2>1. /\ pc' \in [Requests -> Labels]
        /\ answer' \in [Requests -> {NoAnswer} \cup [kind : AnswerKinds, of : Requests]]
    BY <1>5 DEF ReRead, Goto, Send
  <2> QED
    BY <1>5, <2>1 DEF ReRead
<1>6. ASSUME NEW r \in Requests, BackOff(r) PROVE TypeOK'
  BY <1>6 DEF BackOff, AppendRow, Goto
<1>7. ASSUME NEW r \in Requests, BeginFails(r) PROVE TypeOK'
  <2>1. rows' \subseteq Rows /\ nextSeq' \in Nat
    BY <1>7 DEF BeginFails, AppendFails, AppendRow
  <2>2. /\ pc' \in [Requests -> Labels]
        /\ answer' \in [Requests -> {NoAnswer} \cup [kind : AnswerKinds, of : Requests]]
    BY <1>7 DEF BeginFails, Goto, Send
  <2> QED
    BY <1>7, <2>1, <2>2 DEF BeginFails
<1>8. ASSUME NEW r \in Requests,
             HandlerWrites(r) \/ HandlerSucceeds(r) \/ HandlerFails(r)
      PROVE  TypeOK'
  BY <1>8 DEF HandlerWrites, HandlerSucceeds, HandlerFails, Goto
<1>9. ASSUME NEW r \in Requests, StoreDone(r) PROVE TypeOK'
  BY <1>9 DEF StoreDone, AppendRow, Goto, Send
<1>10. ASSUME NEW r \in Requests, StoreFails(r) PROVE TypeOK'
  BY <1>10 DEF StoreFails, AppendFails, AppendRow, Goto
<1>11. ASSUME NEW r \in Requests, ReleaseEnds(r) PROVE TypeOK'
  <2>1. rows' \subseteq Rows /\ nextSeq' \in Nat /\ warned' \subseteq Requests
    BY <1>11 DEF ReleaseEnds, AppendFails, AppendRow
  <2>2. /\ pc' \in [Requests -> Labels]
        /\ answer' \in [Requests -> {NoAnswer} \cup [kind : AnswerKinds, of : Requests]]
    BY <1>11 DEF ReleaseEnds, Goto, Send
  <2> QED
    BY <1>11, <2>1, <2>2 DEF ReleaseEnds
<1>12. ASSUME NEW r \in Requests, HangUp(r) PROVE TypeOK'
  BY <1>12 DEF HangUp
<1>13. ASSUME NEW r \in Requests, Purge(r) PROVE TypeOK'
  BY <1>13 DEF Purge, VisibleRows
<1>14. ASSUME NEW h \in Hosts, Crash(h) PROVE TypeOK'
  BY <1>14 DEF Crash
<1>15. ASSUME UNCHANGED vars PROVE TypeOK'
  BY <1>15 DEF vars
<1> QED
  BY <1>1, <1>2, <1>3, <1>4, <1>5, <1>6, <1>7, <1>8, <1>9, <1>10, <1>11,
     <1>12, <1>13, <1>14, <1>15 DEF Next, ServerStep

\* Every variable keeps its type: in particular every row names a request and
\* carries a row id, and each pc label is one the wrapper has.
THEOREM TypeCorrect == Spec => []TypeOK
  BY InitType, StepType, PTL DEF Spec

----------------------------------------------------------------------------
(* Mutual exclusion *)

\* Clients stay connected while their handler runs, and every request is done
\* before its claim lapses or its rows expire.
Undisturbed == "hangUp" \notin Faults /\ "slow" \notin Faults

\* Token t counts in a read at the time ms, in terms of the committed rows.
Blocks(t, ms) ==
  /\ Expiry(t) > ms
  /\ \E x \in rows : x.token = t
  /\ \/ Has(rows, t, "done")
     \/ ~Has(rows, t, "released") /\ InLease(t, ms)

Claiming == {"claimed", "running", "wrote", "storing"}

RowsNumbered == \A x \in rows : x.seq < nextSeq
RowsOfClaims == \A x \in rows : pc[x.token] \notin {"idle", "arrived", "claiming"}
NotInFuture  == \A r \in Requests : arrived[r] <= now
InTime == \A r \in Requests : pc[r] \in Engaged =>
            arrived[r] + Lease > now /\ arrived[r] + Ttl > now
ClaimsStand == \A r \in Requests : pc[r] \in Claiming =>
                 /\ \E x \in rows : x.token = r
                 /\ ~Has(rows, r, "done") /\ ~Has(rows, r, "released")
OnlyReleasing == \A r \in releasing : pc[r] \in {"releasing", "unstored"}
FirstInLine == \A r \in Executing : \A u \in Requests \ {r} :
                 Blocks(u, now) => Before(rows, r, u)

\* The inductive invariant.  FirstInLine says that a request whose handler runs
\* still is the first live claim in commit order; the others say why: rows are
\* numbered by commit, belong to requests that claimed, and the claim of a
\* request being served is neither settled nor lapsed.
IInv ==
  /\ TypeOK
  /\ RowsNumbered
  /\ RowsOfClaims
  /\ NotInFuture
  /\ InTime
  /\ ClaimsStand
  /\ OnlyReleasing
  /\ FirstInLine

\* What a query bound to ms sees of a token that has not expired is all of it,
\* so the tokens tokensOf keeps are those that Block.
LEMMA LiveBlocks ==
  ASSUME TypeOK, NEW t \in Requests, NEW ms \in Int
  PROVE  t \in LiveTokens(VisibleRows(ms), ms) <=> Blocks(t, ms)
  BY DEF LiveTokens, VisibleRows, Blocks, TokenState, Has, TypeOK, Rows

\* The owner tokensOf names comes before every other token that counts.
LEMMA OwnerFirst ==
  ASSUME TypeOK, NEW t \in Requests, NEW u \in Requests \ {t}, NEW ms \in Int,
         Owns(t, ms), Blocks(u, ms)
  PROVE  Before(rows, t, u)
<1>1. u \in LiveTokens(VisibleRows(ms), ms)
  BY LiveBlocks
<1>2. Before(VisibleRows(ms), t, u)
  BY <1>1 DEF Owns
<1>3. Expiry(u) > ms
  BY DEF Blocks
<1> QED
  BY <1>2, <1>3 DEF Before, VisibleRows

\* Two tokens cannot each have committed before the other.
LEMMA BeforeAntisymmetric ==
  ASSUME TypeOK, NEW t \in Requests, NEW u \in Requests,
         Before(rows, t, u)
  PROVE  ~Before(rows, u, t)
<1>1. \A x \in rows : x.seq \in Nat
  BY DEF TypeOK, Rows
<1> QED
  BY <1>1 DEF Before

\* A request whose handler runs counts, being neither lapsed nor settled.
LEMMA ExecutingBlocks ==
  ASSUME IInv, NEW r \in Requests, pc[r] \in Claiming
  PROVE  Blocks(r, now)
  BY DEF IInv, InTime, ClaimsStand, Blocks, Claiming, Engaged, InLease,
         Expiry, ClaimTime

\* The invariant yields the property.
LEMMA InvExclusive == IInv => Exclusive
<1> SUFFICES ASSUME IInv, NEW r \in Executing, NEW s \in Executing, r # s
             PROVE  FALSE
  BY DEF Exclusive
<1>1. /\ r \in Requests /\ pc[r] \in Claiming
      /\ s \in Requests /\ pc[s] \in Claiming
  BY DEF Executing, Claiming
<1>2. Blocks(r, now) /\ Blocks(s, now)
  BY <1>1, ExecutingBlocks
<1>3. Before(rows, r, s) /\ Before(rows, s, r)
  BY <1>1, <1>2 DEF IInv, FirstInLine
<1> QED
  BY <1>1, <1>3, BeforeAntisymmetric DEF IInv

\* What one committed INSERT changes: the new row comes after all others, so
\* it takes nobody's place and only its own token is seen differently.
LEMMA AppendKeeps ==
  ASSUME TypeOK, RowsNumbered, NEW t \in Requests, NEW s \in RowStates,
         AppendRow(t, s), UNCHANGED <<now, arrived>>
  PROVE  /\ RowsNumbered'
         /\ \A r, u \in Requests : Before(rows, r, u) => Before(rows, r, u)'
         /\ \A u \in Requests \ {t} : Blocks(u, now)' <=> Blocks(u, now)
         /\ s = "released" => (Blocks(t, now)' => Blocks(t, now))
         /\ (\A x \in rows : x.token # t) =>
              \A r \in Requests \ {t} :
                (\E x \in rows : x.token = r) => Before(rows, r, t)'
<1> DEFINE new == [seq |-> nextSeq, token |-> t, state |-> s]
<1>1. rows' = rows \cup {new} /\ nextSeq' = nextSeq + 1
  BY DEF AppendRow
<1>2. \A x \in rows : x.seq \in Nat /\ x.seq < nextSeq /\ x.token \in Requests
  BY DEF TypeOK, Rows, RowsNumbered
<1>3. new.seq = nextSeq /\ new.token = t /\ new.state = s /\ nextSeq \in Nat
  BY DEF TypeOK
<1> HIDE DEF new
<1>4. RowsNumbered'
  BY <1>1, <1>2, <1>3 DEF RowsNumbered
<1>5. ASSUME NEW r \in Requests, NEW u \in Requests, Before(rows, r, u)
      PROVE  Before(rows, r, u)'
  BY <1>1, <1>2, <1>3, <1>5 DEF Before
<1>6. ASSUME NEW u \in Requests \ {t} PROVE Blocks(u, now)' <=> Blocks(u, now)
  BY <1>1, <1>3 DEF Blocks, Has, Expiry, InLease, ClaimTime
<1>7. ASSUME s = "released" PROVE Blocks(t, now)' => Blocks(t, now)
  BY <1>1, <1>3, <1>7 DEF Blocks, Has, Expiry, InLease, ClaimTime
<1>8. ASSUME \A x \in rows : x.token # t,
             NEW r \in Requests \ {t}, \E x \in rows : x.token = r
      PROVE  Before(rows, r, t)'
  BY <1>1, <1>2, <1>3, <1>8 DEF Before
<1> QED
  BY <1>4, <1>5, <1>6, <1>7, <1>8

\* Steps that touch neither the rows nor the clock and let nobody in.
LEMMA QuietLine ==
  ASSUME IInv, UNCHANGED <<rows, now, arrived>>, Executing' \subseteq Executing
  PROVE  FirstInLine'
<1>1. ASSUME NEW u PROVE Blocks(u, now)' <=> Blocks(u, now)
  BY DEF Blocks, Has, Expiry, InLease, ClaimTime
<1>2. ASSUME NEW r, NEW u PROVE Before(rows, r, u)' <=> Before(rows, r, u)
  BY DEF Before
<1> QED
  BY <1>1, <1>2 DEF IInv, FirstInLine

\* Steps that append a row: a claim goes to the end of the line; a 'done' row
\* comes from the only request being executed; a 'released' row frees a place.
LEMMA AppendLine ==
  ASSUME IInv, NEW t \in Requests, NEW s \in RowStates,
         AppendRow(t, s), UNCHANGED <<now, arrived>>,
         Executing' \subseteq Executing \ {t},
         s = "released" \/ t \in Executing \/ \A x \in rows : x.token # t
  PROVE  FirstInLine'
<1> SUFFICES ASSUME NEW r \in Executing', NEW u \in Requests \ {r},
                    Blocks(u, now)'
             PROVE  Before(rows, r, u)'
  BY DEF FirstInLine
<1>1. r \in Executing /\ r \in Requests \ {t}
  BY DEF Executing
<1>2. TypeOK /\ RowsNumbered /\ FirstInLine
  BY DEF IInv
<1>3. CASE Blocks(u, now)
  <2>1. Before(rows, r, u)
    BY <1>1, <1>2, <1>3 DEF FirstInLine
  <2> QED
    BY <1>1, <1>2, <2>1, AppendKeeps
<1>4. CASE ~Blocks(u, now)
  <2>1. u = t /\ s # "released"
    BY <1>2, <1>4, AppendKeeps
  <2>2. t \notin Executing
    BY <1>1, InvExclusive DEF Exclusive
  <2>3. \E x \in rows : x.token = r
    BY <1>1 DEF IInv, ClaimsStand, Executing, Claiming
  <2> QED
    BY <1>1, <1>2, <2>1, <2>2, <2>3, AppendKeeps
<1> QED
  BY <1>3, <1>4

LEMMA InitInv == Init => IInv
<1> SUFFICES ASSUME Init PROVE IInv
  OBVIOUS
<1>1. TypeOK
  BY InitType
<1>2. \A r \in Requests : pc[r] = "idle"
  BY DEF Init
<1>3. InTime /\ ClaimsStand /\ FirstInLine
  BY <1>2 DEF InTime, ClaimsStand, FirstInLine, Engaged, Claiming, Executing
<1> QED
  BY <1>1, <1>3 DEF Init, IInv, RowsNumbered, RowsOfClaims, NotInFuture,
                    OnlyReleasing

\* Each step keeps the invariant.
LEMMA StepInv ==
  ASSUME Undisturbed, IInv, [Next]_vars
  PROVE  IInv'
<1> USE IdempotencyAssumption
<1>0. TypeOK'
  BY StepType DEF IInv
<1>a. /\ pc \in [Requests -> Labels]
      /\ releasing \subseteq Requests
      /\ \A x \in rows : x.token \in Requests
  BY DEF IInv, TypeOK, Rows
<1> USE DEF Claiming, Engaged
<1>1. ASSUME Tick PROVE IInv'
  <2>1. UNCHANGED <<rows, nextSeq, pc, arrived, releasing>> /\ now' = now + 1
    BY <1>1 DEF Tick
  <2>2. InTime'
    BY <1>1, <2>1 DEF Tick, Undisturbed, InTime
  <2>3. NotInFuture'
    BY <2>1 DEF IInv, NotInFuture, TypeOK
  <2>4. ASSUME NEW u \in Requests, Blocks(u, now)' PROVE Blocks(u, now)
    <3>1. arrived[u] \in Int /\ now \in Int
      BY DEF IInv, TypeOK
    <3> QED
      BY <2>1, <2>4, <3>1 DEF Blocks, Has, Expiry, InLease, ClaimTime
  <2>5. FirstInLine'
    BY <2>1, <2>4 DEF IInv, FirstInLine, Before, Executing
  <2> QED
    BY <1>0, <2>1, <2>2, <2>3, <2>5
    DEF IInv, RowsNumbered, RowsOfClaims, ClaimsStand, OnlyReleasing, Has
<1>2. ASSUME NEW r \in Requests, Arrive(r) PROVE IInv'
  <2>1. /\ pc[r] = "idle"
        /\ pc' = [pc EXCEPT ![r] = "arrived"]
        /\ arrived' = [arrived EXCEPT ![r] = now]
        /\ UNCHANGED <<now, rows, nextSeq, releasing>>
    BY <1>2 DEF Arrive, Goto
  <2>2. InTime' /\ NotInFuture'
    BY <2>1 DEF IInv, InTime, NotInFuture, TypeOK
  <2>3. \A x \in rows : x.token # r
    BY <2>1 DEF IInv, RowsOfClaims
  <2>4. RowsOfClaims' /\ ClaimsStand' /\ OnlyReleasing'
    BY <2>1, <2>3 DEF IInv, RowsOfClaims, ClaimsStand, OnlyReleasing, Has, TypeOK
  <2>5. ASSUME NEW u \in Requests, Blocks(u, now)' PROVE Blocks(u, now)
    BY <2>1, <2>3, <2>5 DEF Blocks, Has, Expiry, InLease, ClaimTime, IInv, TypeOK
  <2>6. Executing' \subseteq Executing
    BY <2>1 DEF Executing, IInv, TypeOK
  <2>7. FirstInLine'
    BY <2>1, <2>5, <2>6 DEF IInv, FirstInLine, Before
  <2> QED
    BY <1>0, <2>1, <2>2, <2>4, <2>7 DEF IInv, RowsNumbered
<1>3. ASSUME NEW r \in Requests, FirstRead(r) PROVE IInv'
  <2>1. /\ pc[r] = "arrived"
        /\ \/ pc' = [pc EXCEPT ![r] = "claiming"]
           \/ pc' = [pc EXCEPT ![r] = "answered"]
        /\ UNCHANGED <<now, rows, nextSeq, arrived, releasing>>
    BY <1>3 DEF FirstRead, Goto
  <2>2. \A x \in rows : x.token # r
    BY <2>1 DEF IInv, RowsOfClaims
  <2>3. RowsOfClaims' /\ ClaimsStand' /\ OnlyReleasing' /\ InTime'
    BY <1>a, <2>1, <2>2
    DEF IInv, RowsOfClaims, ClaimsStand, OnlyReleasing, InTime, Has
  <2>4. FirstInLine'
    BY <2>1, QuietLine DEF Executing, IInv, TypeOK
  <2> QED
    BY <1>0, <2>1, <2>3, <2>4 DEF IInv, RowsNumbered, NotInFuture
<1>4. ASSUME NEW r \in Requests, Claim(r) PROVE IInv'
  <2>1. /\ pc[r] = "claiming"
        /\ pc' = [pc EXCEPT ![r] = "claimed"]
        /\ AppendRow(r, "pending")
        /\ UNCHANGED <<now, arrived, releasing>>
    BY <1>4 DEF Claim, Goto
  <2>2. \A x \in rows : x.token # r
    BY <2>1 DEF IInv, RowsOfClaims
  <2>3. RowsNumbered'
    BY <2>1, AppendKeeps DEF IInv, RowStates
  <2>4. RowsOfClaims' /\ OnlyReleasing' /\ InTime'
    BY <1>a, <2>1 DEF IInv, RowsOfClaims, OnlyReleasing, InTime, AppendRow
  <2>5. ClaimsStand'
    <3> DEFINE new == [seq |-> nextSeq, token |-> r, state |-> "pending"]
    <3>1. rows' = rows \cup {new} /\ new.token = r /\ new.state = "pending"
      BY <2>1 DEF AppendRow
    <3> HIDE DEF new
    <3> QED
      BY <1>a, <2>1, <2>2, <3>1 DEF IInv, ClaimsStand, Has
  <2>6. FirstInLine'
    BY <2>1, <2>2, AppendLine DEF Executing, IInv, TypeOK, RowStates
  <2> QED
    BY <1>0, <2>1, <2>3, <2>4, <2>5, <2>6 DEF IInv, NotInFuture
<1>5. ASSUME NEW r \in Requests, ReRead(r) PROVE IInv'
  <2>1. /\ pc[r] = "claimed"
        /\ \/ pc' = [pc EXCEPT ![r] = "running"] /\ (Owns(r, now) \/ NoOwner(now))
           \/ pc' = [pc EXCEPT ![r] = "backingOff"]
        /\ UNCHANGED <<now, rows, nextSeq, arrived, releasing>>
    BY <1>5 DEF ReRead, Goto
  <2>2. RowsOfClaims' /\ ClaimsStand' /\ OnlyReleasing' /\ InTime'
    BY <1>a, <2>1
    DEF IInv, RowsOfClaims, ClaimsStand, OnlyReleasing, InTime, Has
  <2>3. FirstInLine'
    <3>1. CASE pc' = [pc EXCEPT ![r] = "backingOff"]
      BY <2>1, <3>1, QuietLine DEF Executing, IInv, TypeOK
    <3>2. CASE /\ pc' = [pc EXCEPT ![r] = "running"]
               /\ Owns(r, now) \/ NoOwner(now)
      <4>1. Blocks(r, now)
        BY <2>1, ExecutingBlocks
      <4>2. TypeOK /\ now \in Int
        BY DEF IInv, TypeOK
      <4>3. Owns(r, now)
        BY <3>2, <4>1, <4>2, LiveBlocks DEF NoOwner
      <4>4. Executing' = Executing \cup {r}
        BY <2>1, <3>2 DEF Executing, IInv, TypeOK
      <4>5. \A u \in Requests \ {r} : Blocks(u, now) => Before(rows, r, u)
        BY <4>2, <4>3, OwnerFirst
      <4>6. ASSUME NEW u PROVE Blocks(u, now)' <=> Blocks(u, now)
        BY <2>1 DEF Blocks, Has, Expiry, InLease, ClaimTime
      <4> QED
        BY <2>1, <4>4, <4>5, <4>6 DEF IInv, FirstInLine, Before
    <3> QED
      BY <2>1, <3>1, <3>2
  <2> QED
    BY <1>0, <2>1, <2>2, <2>3 DEF IInv, RowsNumbered, NotInFuture
<1>6. ASSUME NEW r \in Requests, BackOff(r) PROVE IInv'
  <2>1. /\ pc[r] = "backingOff"
        /\ pc' = [pc EXCEPT ![r] = "answered"]
        /\ AppendRow(r, "released")
        /\ UNCHANGED <<now, arrived, releasing>>
    BY <1>6 DEF BackOff, Goto
  <2>2. RowsNumbered'
    BY <2>1, AppendKeeps DEF IInv, RowStates
  <2>3. RowsOfClaims' /\ ClaimsStand' /\ OnlyReleasing' /\ InTime'
    BY <2>1 DEF IInv, RowsOfClaims, ClaimsStand, OnlyReleasing, InTime,
                Has, TypeOK, AppendRow
  <2>4. FirstInLine'
    BY <2>1, AppendLine DEF Executing, IInv, TypeOK, RowStates
  <2> QED
    BY <1>0, <2>1, <2>2, <2>3, <2>4 DEF IInv, NotInFuture
<1>7. ASSUME NEW r \in Requests, BeginFails(r) PROVE IInv'
  <2>1. /\ pc[r] \in {"arrived", "claimed", "claiming", "backingOff"}
        /\ pc' = [pc EXCEPT ![r] = "failed"]
        /\ UNCHANGED <<now, arrived, releasing>>
    BY <1>7 DEF BeginFails, Goto
  <2>2. RowsOfClaims' /\ ClaimsStand' /\ OnlyReleasing' /\ InTime'
    BY <1>7, <2>1 DEF IInv, RowsOfClaims, ClaimsStand, OnlyReleasing, InTime,
                      Has, TypeOK, BeginFails, AppendFails, AppendRow
  <2>3. Executing' \subseteq Executing \ {r}
    BY <2>1 DEF Executing, IInv, TypeOK
  <2>4. CASE UNCHANGED <<rows, nextSeq>>
    <3>1. FirstInLine'
      BY <2>1, <2>3, <2>4, QuietLine
    <3> QED
      BY <1>0, <2>1, <2>2, <2>4, <3>1 DEF IInv, RowsNumbered, NotInFuture
  <2>5. CASE pc[r] = "claiming" /\ AppendRow(r, "pending")
    <3>1. \A x \in rows : x.token # r
      BY <2>5 DEF IInv, RowsOfClaims
    <3>2. FirstInLine' /\ RowsNumbered'
      BY <2>1, <2>3, <2>5, <3>1, AppendLine, AppendKeeps DEF IInv, RowStates
    <3> QED
      BY <1>0, <2>1, <2>2, <3>2 DEF IInv, NotInFuture
  <2>6. CASE pc[r] = "backingOff" /\ AppendRow(r, "released")
    <3>1. FirstInLine' /\ RowsNumbered'
      BY <2>1, <2>3, <2>6, AppendLine, AppendKeeps DEF IInv, RowStates
    <3> QED
      BY <1>0, <2>1, <2>2, <3>1 DEF IInv, NotInFuture
  <2> QED
    BY <1>7, <2>4, <2>5, <2>6 DEF BeginFails, AppendFails
<1>8. ASSUME NEW r \in Requests,
             HandlerWrites(r) \/ HandlerSucceeds(r) \/ HandlerFails(r)
      PROVE  IInv'
  <2>1. /\ pc[r] \in {"running", "wrote"}
        /\ \/ pc' = [pc EXCEPT ![r] = "wrote"] /\ UNCHANGED releasing
           \/ pc' = [pc EXCEPT ![r] = "storing"] /\ UNCHANGED releasing
           \/ pc' = [pc EXCEPT ![r] = "releasing"] /\ releasing' = releasing \cup {r}
        /\ UNCHANGED <<now, rows, nextSeq, arrived>>
    BY <1>8 DEF HandlerWrites, HandlerSucceeds, HandlerFails, Goto
  <2>2. RowsOfClaims' /\ ClaimsStand' /\ InTime'
    BY <1>a, <2>1 DEF IInv, RowsOfClaims, ClaimsStand, InTime, Has
  <2>3. OnlyReleasing'
    BY <2>1 DEF IInv, OnlyReleasing, TypeOK
  <2>4. FirstInLine'
    BY <2>1, QuietLine DEF Executing, IInv, TypeOK
  <2> QED
    BY <1>0, <2>1, <2>2, <2>3, <2>4 DEF IInv, RowsNumbered, NotInFuture
<1>9. ASSUME NEW r \in Requests, StoreDone(r) \/ StoreFails(r) PROVE IInv'
  <2>1. /\ pc[r] = "storing"
        /\ AppendRow(r, "done") \/ UNCHANGED <<rows, nextSeq>>
        /\ \/ pc' = [pc EXCEPT ![r] = "answered"] /\ UNCHANGED releasing
           \/ pc' = [pc EXCEPT ![r] = "unstored"] /\ releasing' = releasing \cup {r}
        /\ UNCHANGED <<now, arrived>>
    BY <1>9 DEF StoreDone, StoreFails, AppendFails, Goto
  <2>2. RowsOfClaims' /\ ClaimsStand' /\ InTime'
    BY <1>a, <2>1
    DEF IInv, RowsOfClaims, ClaimsStand, InTime, Has, AppendRow
  <2>3. OnlyReleasing'
    BY <2>1 DEF IInv, OnlyReleasing, TypeOK
  <2>4. Executing' \subseteq Executing \ {r} /\ r \in Executing
    BY <2>1 DEF Executing, IInv, TypeOK
  <2>5. FirstInLine' /\ RowsNumbered'
    <3>1. CASE AppendRow(r, "done")
      BY <2>1, <2>4, <3>1, AppendLine, AppendKeeps DEF IInv, RowStates
    <3>2. CASE UNCHANGED <<rows, nextSeq>>
      BY <2>1, <2>4, <3>2, QuietLine DEF IInv, RowsNumbered
    <3> QED
      BY <2>1, <3>1, <3>2
  <2> QED
    BY <1>0, <2>1, <2>2, <2>3, <2>5 DEF IInv, NotInFuture
<1>10. ASSUME NEW r \in Requests, ReleaseEnds(r) PROVE IInv'
  <2>1. /\ pc[r] \in {"releasing", "unstored"}
        /\ pc' = [pc EXCEPT ![r] = "answered"]
        /\ AppendRow(r, "released") \/ UNCHANGED <<rows, nextSeq>>
        /\ releasing' = releasing \ {r}
        /\ UNCHANGED <<now, arrived>>
    BY <1>10 DEF ReleaseEnds, AppendFails, Goto, IInv, OnlyReleasing
  <2>2. RowsOfClaims' /\ ClaimsStand' /\ OnlyReleasing' /\ InTime'
    BY <2>1 DEF IInv, RowsOfClaims, ClaimsStand, OnlyReleasing, InTime, Has,
                TypeOK, AppendRow
  <2>3. Executing' \subseteq Executing \ {r}
    BY <2>1 DEF Executing, IInv, TypeOK
  <2>4. FirstInLine' /\ RowsNumbered'
    <3>1. CASE AppendRow(r, "released")
      BY <2>1, <2>3, <3>1, AppendLine, AppendKeeps DEF IInv, RowStates
    <3>2. CASE UNCHANGED <<rows, nextSeq>>
      BY <2>1, <2>3, <3>2, QuietLine DEF IInv, RowsNumbered
    <3> QED
      BY <2>1, <3>1, <3>2
  <2> QED
    BY <1>0, <2>1, <2>2, <2>4 DEF IInv, NotInFuture
<1>11. ASSUME NEW r \in Requests, HangUp(r) PROVE IInv'
  BY <1>11 DEF HangUp, Undisturbed
<1>12. ASSUME NEW r \in Requests, Purge(r) PROVE IInv'
  <2>1. /\ rows' = VisibleRows(arrived[r]) \/ UNCHANGED rows
        /\ UNCHANGED <<now, nextSeq, pc, arrived, releasing>>
    BY <1>12 DEF Purge
  <2>2. /\ rows' \subseteq rows
        /\ \A x \in rows : Expiry(x.token) > now => x \in rows'
    BY <2>1 DEF VisibleRows, IInv, NotInFuture, TypeOK, Rows, Expiry
  <2>3. ASSUME NEW u \in Requests, Blocks(u, now)' PROVE Blocks(u, now)
    BY <2>1, <2>2, <2>3 DEF Blocks, Has, Expiry, InLease, ClaimTime
  <2>4. FirstInLine'
    <3> SUFFICES ASSUME NEW p \in Executing, NEW u \in Requests \ {p},
                        Blocks(u, now)'
                 PROVE  Before(rows, p, u)'
      BY <2>1 DEF FirstInLine, Executing
    <3>1. Before(rows, p, u)
      BY <2>3 DEF IInv, FirstInLine
    <3>2. p \in Requests /\ pc[p] \in Claiming
      BY DEF Executing
    <3>3. Expiry(p) > now
      BY <3>2, ExecutingBlocks DEF Blocks
    <3> QED
      BY <2>1, <2>2, <3>1, <3>3 DEF Before
  <2>5. ClaimsStand'
    <3> SUFFICES ASSUME NEW p \in Requests, pc[p] \in Claiming
                 PROVE  /\ \E x \in rows' : x.token = p
                        /\ ~Has(rows', p, "done") /\ ~Has(rows', p, "released")
      BY <2>1 DEF ClaimsStand
    <3>1. Expiry(p) > now
      BY ExecutingBlocks DEF Blocks
    <3> QED
      BY <2>2, <3>1 DEF IInv, ClaimsStand, Has
  <2> QED
    BY <1>0, <2>1, <2>2, <2>4, <2>5
    DEF IInv, RowsNumbered, RowsOfClaims, NotInFuture, InTime, OnlyReleasing
<1>13. ASSUME NEW h \in Hosts, Crash(h) PROVE IInv'
  <2>1. /\ \A r \in Requests : pc'[r] \in {pc[r], "dead"}
        /\ \A r \in Requests : HostOf[r] # h => pc'[r] = pc[r]
        /\ \A r \in Requests : pc[r] = "idle" => pc'[r] = pc[r]
        /\ releasing' = {r \in releasing : HostOf[r] # h}
        /\ UNCHANGED <<now, rows, nextSeq, arrived>>
    BY <1>13 DEF Crash
  <2>2. RowsOfClaims' /\ ClaimsStand' /\ InTime'
    BY <2>1 DEF IInv, RowsOfClaims, ClaimsStand, InTime, Has, TypeOK, Rows
  <2>3. OnlyReleasing'
    BY <2>1 DEF IInv, OnlyReleasing, TypeOK
  <2>4. FirstInLine'
    BY <2>1, QuietLine DEF Executing
  <2> QED
    BY <1>0, <2>1, <2>2, <2>3, <2>4 DEF IInv, RowsNumbered, NotInFuture
<1>14. ASSUME UNCHANGED vars PROVE IInv'
  <2>1. UNCHANGED <<now, rows, nextSeq, pc, arrived, releasing>>
    BY <1>14 DEF vars
  <2>2. FirstInLine'
    BY <2>1, QuietLine DEF Executing
  <2> QED
    BY <1>0, <2>1, <2>2 DEF IInv, RowsNumbered, RowsOfClaims, NotInFuture,
                            InTime, ClaimsStand, OnlyReleasing, Has
<1> QED
  BY <1>1, <1>2, <1>3, <1>4, <1>5, <1>6, <1>7, <1>8, <1>9, <1>10, <1>11,
     <1>12, <1>13, <1>14 DEF Next, ServerStep

\* While clients stay connected and requests finish within their lease, two
\* requests with the same key are never inside the write handler together,
\* whatever crashes, failing appends and purges happen: the claim / re-read
\* protocol of beginIdempotentRequest is a lock.
THEOREM ExclusiveRun == Undisturbed => (Spec => []Exclusive)
<1> SUFFICES ASSUME Undisturbed PROVE Spec => []Exclusive
  OBVIOUS
<1>1. IInv /\ [Next]_vars => IInv'
  BY StepInv
<1> QED
  BY InitInv, <1>1, InvExclusive, PTL DEF Spec

----------------------------------------------------------------------------
(* Stored responses *)

\* A stored response was stored by the first in line, and whoever claims later
\* comes after it.
DoneFirst == \A u \in Requests : Has(rows, u, "done") /\ Expiry(u) > now =>
               \A r \in Requests : pc[r] \in Claiming => Before(rows, u, r)

\* Only a request whose handler was let in writes, and what is stored is the
\* response of a request that wrote.
HandledLabels == {"wrote", "storing", "releasing", "unstored", "answered", "dead"}
WritersHandled ==
  /\ \A r \in written : pc[r] \in HandledLabels
  /\ \A r \in Requests : pc[r] \in {"wrote", "storing", "unstored"} => r \in written
DoneWritten == \A x \in rows : x.state = "done" => x.token \in written

\* A request that got a replay never reaches its handler.
Replays == {r \in Requests : answer[r].kind = "replay"}
ReplaysOver == \A r \in Replays : pc[r] \in {"backingOff", "answered", "failed", "dead"}

\* Only what was claimed is released.
ReleasersClaimed == \A r \in releasing : pc[r] \notin {"idle", "arrived", "claiming"}

\* What a request claimed is settled by the time it is answered.
SettledOnAnswer == \A r \in Requests : pc[r] = "answered" /\ r \notin warned =>
                     \A x \in rows : x.token = r =>
                       Has(rows, r, "done") \/ Has(rows, r, "released")

\* The inductive invariant of what holds under every fault.
AInv ==
  /\ TypeOK
  /\ RowsOfClaims
  /\ ReleasersClaimed
  /\ WritersHandled
  /\ DoneWritten
  /\ ReplaysOver
  /\ ReplayFaithful
  /\ SettledOnAnswer
\* What a query returns contains nothing that was not committed.
LEMMA OwnerDone ==
  ASSUME NEW t, NEW ms, Owns(t, ms), StateOfOwner(t, ms) = "done"
  PROVE  Has(rows, t, "done")
  BY DEF StateOfOwner, TokenState, Has, VisibleRows

\* One committed INSERT, seen by its state.
LEMMA AppendHas ==
  ASSUME NEW t \in Requests, NEW s \in RowStates, AppendRow(t, s)
  PROVE  /\ Has(rows', t, s)
         /\ \A u \in Requests, q \in RowStates : Has(rows, u, q) => Has(rows', u, q)
         /\ \A x \in rows' : x \in rows \/ (x.token = t /\ x.state = s)
<1> DEFINE new == [seq |-> nextSeq, token |-> t, state |-> s]
<1>1. rows' = rows \cup {new} /\ new.token = t /\ new.state = s
  BY DEF AppendRow
<1> HIDE DEF new
<1> QED
  BY <1>1 DEF Has

LEMMA InitA == Init => AInv
<1> SUFFICES ASSUME Init PROVE AInv
  OBVIOUS
<1>1. TypeOK
  BY InitType
<1>2. \A r \in Requests : answer[r].kind = "none"
  BY DEF Init, NoAnswer
<1> QED
  BY <1>1, <1>2 DEF Init, AInv, RowsOfClaims, ReleasersClaimed, WritersHandled, DoneWritten,
     ReplaysOver, Replays, ReplayFaithful, SettledOnAnswer

\* Each step keeps it, whatever fails.
LEMMA StepA == ASSUME AInv, [Next]_vars PROVE AInv'
<1>0. TypeOK'
  BY StepType DEF AInv
<1>a. /\ pc \in [Requests -> Labels]
      /\ DOMAIN answer = Requests
      /\ releasing \subseteq Requests /\ written \subseteq Requests
      /\ \A x \in rows : x.token \in Requests /\ x.state \in RowStates
      /\ RowStates = {"pending", "done", "released"}
  BY DEF AInv, TypeOK, Rows, RowStates
<1> USE DEF HandledLabels
<1>1. ASSUME UNCHANGED <<rows, pc, releasing, written, answer, warned>> PROVE AInv'
  BY <1>0, <1>1 DEF AInv, RowsOfClaims, ReleasersClaimed, WritersHandled, DoneWritten,
     ReplaysOver, Replays, ReplayFaithful, SettledOnAnswer, Has
<1>2. ASSUME NEW r \in Requests, Arrive(r) PROVE AInv'
  <2>1. /\ pc[r] = "idle" /\ pc' = [pc EXCEPT ![r] = "arrived"]
        /\ UNCHANGED <<rows, releasing, written, answer, warned>>
    BY <1>2 DEF Arrive, Goto
  <2> QED
    BY <1>0, <1>a, <2>1 DEF AInv, RowsOfClaims, ReleasersClaimed, WritersHandled, DoneWritten,
       ReplaysOver, Replays, ReplayFaithful, SettledOnAnswer, Has
<1>3. ASSUME NEW r \in Requests, FirstRead(r) PROVE AInv'
  <2>1. /\ pc[r] = "arrived"
        /\ UNCHANGED <<rows, releasing, written, warned>>
        /\ \/ pc' = [pc EXCEPT ![r] = "claiming"] /\ UNCHANGED answer
           \/ pc' = [pc EXCEPT ![r] = "answered"]
              /\ \E t \in Requests :
                   /\ Owns(t, arrived[r])
                   /\ \/ Send(r, "mismatch", t)
                      \/ Replayed(r, t, arrived[r]) /\ Send(r, "replay", t)
                      \/ Send(r, "inProgress", t)
    BY <1>3 DEF FirstRead, Goto
  <2>2. \A x \in rows : x.token # r
    BY <2>1 DEF AInv, RowsOfClaims
  <2>3. r \notin written
    BY <2>1 DEF AInv, WritersHandled
  <2>4. RowsOfClaims' /\ ReleasersClaimed' /\ WritersHandled' /\ DoneWritten'
         /\ SettledOnAnswer'
    <3>1. RowsOfClaims' /\ ReleasersClaimed'
      BY <1>a, <2>1, <2>2, <2>3 DEF AInv, RowsOfClaims, ReleasersClaimed
    <3>2. WritersHandled' /\ DoneWritten'
      BY <1>a, <2>1, <2>2, <2>3 DEF AInv, WritersHandled, DoneWritten
    <3>3. SettledOnAnswer'
      BY <1>a, <2>1, <2>2, <2>3 DEF AInv, SettledOnAnswer, Has
    <3> QED
      BY <3>1, <3>2, <3>3
  <2>5. ReplaysOver' /\ ReplayFaithful'
    <3>1. ASSUME NEW t \in Requests, Owns(t, arrived[r]), Replayed(r, t, arrived[r])
          PROVE  t \in written /\ HashOf[t] = HashOf[r]
      BY <3>1, OwnerDone DEF Replayed, AInv, DoneWritten, Has
    <3> QED
      BY <1>a, <2>1, <2>3, <3>1
      DEF AInv, ReplaysOver, Replays, ReplayFaithful, Send
  <2> QED
    BY <1>0, <2>4, <2>5 DEF AInv
<1>4. ASSUME NEW r \in Requests, Claim(r) PROVE AInv'
  <2>1. /\ pc[r] = "claiming" /\ pc' = [pc EXCEPT ![r] = "claimed"]
        /\ AppendRow(r, "pending")
        /\ UNCHANGED <<releasing, written, answer, warned>>
    BY <1>4 DEF Claim, Goto
  <2> QED
    BY <1>0, <1>a, <2>1, AppendHas
    DEF AInv, RowsOfClaims, ReleasersClaimed, WritersHandled, DoneWritten,
        ReplaysOver, Replays,
        ReplayFaithful, SettledOnAnswer
<1>5. ASSUME NEW r \in Requests, ReRead(r) PROVE AInv'
  <2>1. /\ pc[r] = "claimed"
        /\ UNCHANGED <<rows, releasing, written, warned>>
        /\ \/ pc' = [pc EXCEPT ![r] = "running"] /\ UNCHANGED answer
           \/ pc' = [pc EXCEPT ![r] = "backingOff"]
              /\ \E t \in Requests :
                   /\ Owns(t, now)
                   /\ \/ Send(r, "mismatch", t)
                      \/ Replayed(r, t, now) /\ Send(r, "replay", t)
                      \/ Send(r, "inProgress", t)
    BY <1>5 DEF ReRead, Goto
  <2>2. r \notin written
    BY <2>1 DEF AInv, WritersHandled
  <2>3. RowsOfClaims' /\ ReleasersClaimed' /\ WritersHandled' /\ DoneWritten'
         /\ SettledOnAnswer'
    <3>1. RowsOfClaims' /\ ReleasersClaimed'
      BY <1>a, <2>1, <2>2 DEF AInv, RowsOfClaims, ReleasersClaimed
    <3>2. WritersHandled' /\ DoneWritten'
      BY <1>a, <2>1, <2>2 DEF AInv, WritersHandled, DoneWritten
    <3>3. SettledOnAnswer'
      BY <1>a, <2>1, <2>2 DEF AInv, SettledOnAnswer, Has
    <3> QED
      BY <3>1, <3>2, <3>3
  <2>4. ReplaysOver' /\ ReplayFaithful'
    <3>1. ASSUME NEW t \in Requests, Owns(t, now), Replayed(r, t, now)
          PROVE  t \in written /\ HashOf[t] = HashOf[r]
      BY <3>1, OwnerDone DEF Replayed, AInv, DoneWritten, Has
    <3> QED
      BY <1>a, <2>1, <2>2, <3>1
      DEF AInv, ReplaysOver, Replays, ReplayFaithful, Send
  <2> QED
    BY <1>0, <2>3, <2>4 DEF AInv
<1>6. ASSUME NEW r \in Requests, BackOff(r) PROVE AInv'
  <2>1. /\ pc[r] = "backingOff" /\ pc' = [pc EXCEPT ![r] = "answered"]
        /\ AppendRow(r, "released")
        /\ UNCHANGED <<releasing, written, answer, warned>>
    BY <1>6 DEF BackOff, Goto
  <2> QED
    BY <1>0, <1>a, <2>1, AppendHas
    DEF AInv, RowsOfClaims, ReleasersClaimed, WritersHandled, DoneWritten,
        ReplaysOver, Replays,
        ReplayFaithful, SettledOnAnswer
<1>7. ASSUME NEW r \in Requests, BeginFails(r) PROVE AInv'
  <2>1. /\ pc[r] \in {"arrived", "claimed", "claiming", "backingOff"}
        /\ pc' = [pc EXCEPT ![r] = "failed"]
        /\ \/ UNCHANGED <<rows, nextSeq>>
           \/ AppendRow(r, "pending")
           \/ AppendRow(r, "released")
        /\ \/ pc[r] = "backingOff" /\ UNCHANGED answer
           \/ Send(r, "error", r)
        /\ UNCHANGED <<releasing, written, warned>>
    BY <1>7 DEF BeginFails, AppendFails, Goto
  <2>2. r \notin written
    BY <2>1 DEF AInv, WritersHandled
  <2>3. /\ \A u \in Requests, q \in RowStates : Has(rows, u, q) => Has(rows', u, q)
        /\ \A x \in rows' : x \in rows \/ (x.token = r /\ x.state \in {"pending", "released"})
    BY <1>a, <2>1, AppendHas
  <2>4. RowsOfClaims' /\ ReleasersClaimed' /\ WritersHandled' /\ DoneWritten'
         /\ SettledOnAnswer'
    <3>1. RowsOfClaims' /\ ReleasersClaimed'
      BY <1>a, <2>1, <2>2, <2>3 DEF AInv, RowsOfClaims, ReleasersClaimed
    <3>2. WritersHandled' /\ DoneWritten'
      BY <1>a, <2>1, <2>2, <2>3 DEF AInv, WritersHandled, DoneWritten
    <3>3. SettledOnAnswer'
      BY <1>a, <2>1, <2>2, <2>3 DEF AInv, SettledOnAnswer
    <3> QED
      BY <3>1, <3>2, <3>3
  <2>5. ReplaysOver' /\ ReplayFaithful'
    BY <1>a, <2>1 DEF AInv, ReplaysOver, Replays, ReplayFaithful, Send
  <2> QED
    BY <1>0, <2>4, <2>5 DEF AInv
<1>8. ASSUME NEW r \in Requests,
             HandlerWrites(r) \/ HandlerSucceeds(r) \/ HandlerFails(r)
      PROVE  AInv'
  <2>1. /\ pc[r] \in {"running", "wrote"}
        /\ \/ pc[r] = "running" /\ pc' = [pc EXCEPT ![r] = "wrote"] /\ written' = written \cup {r}
           \/ pc[r] = "wrote" /\ pc' = [pc EXCEPT ![r] = "storing"] /\ UNCHANGED written
           \/ pc' = [pc EXCEPT ![r] = "releasing"] /\ UNCHANGED written
        /\ releasing' \subseteq releasing \cup {r}
        /\ UNCHANGED <<rows, answer, warned>>
    BY <1>8 DEF HandlerWrites, HandlerSucceeds, HandlerFails, Goto
  <2>2. r \notin Replays
    BY <2>1 DEF AInv, ReplaysOver
  <2>3. RowsOfClaims' /\ ReleasersClaimed' /\ WritersHandled' /\ DoneWritten'
         /\ SettledOnAnswer'
    <3>1. RowsOfClaims' /\ ReleasersClaimed'
      BY <1>a, <2>1 DEF AInv, RowsOfClaims, ReleasersClaimed
    <3>2. WritersHandled' /\ DoneWritten'
      BY <1>a, <2>1 DEF AInv, WritersHandled, DoneWritten
    <3>3. SettledOnAnswer'
      BY <1>a, <2>1 DEF AInv, SettledOnAnswer, Has
    <3> QED
      BY <3>1, <3>2, <3>3
  <2>4. ReplaysOver' /\ ReplayFaithful'
    BY <1>a, <2>1, <2>2 DEF AInv, ReplaysOver, Replays, ReplayFaithful
  <2> QED
    BY <1>0, <2>3, <2>4 DEF AInv
<1>9. ASSUME NEW r \in Requests, StoreDone(r) \/ StoreFails(r) PROVE AInv'
  <2>1. /\ pc[r] = "storing"
        /\ \/ pc' = [pc EXCEPT ![r] = "answered"] /\ Send(r, "ok", r)
              /\ AppendRow(r, "done")
           \/ pc' = [pc EXCEPT ![r] = "unstored"] /\ UNCHANGED answer
              /\ (AppendRow(r, "done") \/ UNCHANGED <<rows, nextSeq>>)
        /\ releasing' \subseteq releasing \cup {r}
        /\ UNCHANGED <<written, warned>>
    BY <1>9 DEF StoreDone, StoreFails, AppendFails, Goto
  <2>2. r \in written
    BY <2>1 DEF AInv, WritersHandled
  <2>3. /\ \A u \in Requests, q \in RowStates : Has(rows, u, q) => Has(rows', u, q)
        /\ \A x \in rows' : x \in rows \/ x.token = r
        /\ pc'[r] = "answered" => Has(rows', r, "done")
    BY <1>a, <2>1, AppendHas
  <2>4. RowsOfClaims' /\ ReleasersClaimed' /\ WritersHandled' /\ DoneWritten'
         /\ SettledOnAnswer'
    <3>1. RowsOfClaims' /\ ReleasersClaimed'
      BY <1>a, <2>1, <2>2, <2>3 DEF AInv, RowsOfClaims, ReleasersClaimed
    <3>2. WritersHandled' /\ DoneWritten'
      BY <1>a, <2>1, <2>2, <2>3 DEF AInv, WritersHandled, DoneWritten
    <3>3. SettledOnAnswer'
      BY <1>a, <2>1, <2>2, <2>3 DEF AInv, SettledOnAnswer
    <3> QED
      BY <3>1, <3>2, <3>3
  <2>5. ReplaysOver' /\ ReplayFaithful'
    BY <1>a, <2>1 DEF AInv, ReplaysOver, Replays, ReplayFaithful, Send
  <2> QED
    BY <1>0, <2>4, <2>5 DEF AInv
<1>10. ASSUME NEW r \in Requests, ReleaseEnds(r) PROVE AInv'
  <2>1. /\ \/ pc[r] \in {"releasing", "unstored"} /\ pc' = [pc EXCEPT ![r] = "answered"]
              /\ (Send(r, "error", r) \/ Send(r, "ok", r))
           \/ UNCHANGED <<pc, answer>>
        /\ \/ AppendRow(r, "released") /\ UNCHANGED warned
           \/ /\ warned' = warned \cup {r}
              /\ (AppendRow(r, "released") \/ UNCHANGED <<rows, nextSeq>>)
        /\ r \in releasing /\ releasing' = releasing \ {r} /\ UNCHANGED written
    BY <1>10 DEF ReleaseEnds, AppendFails, Goto
  <2>2. /\ \A u \in Requests, q \in RowStates : Has(rows, u, q) => Has(rows', u, q)
        /\ \A x \in rows' : x \in rows \/ (x.token = r /\ x.state = "released")
        /\ r \in warned' \/ Has(rows', r, "released")
        /\ warned \subseteq warned' /\ warned' \subseteq warned \cup {r}
    BY <1>a, <2>1, AppendHas
  <2>3. CASE pc[r] \notin {"idle", "arrived", "claiming"}
      <3>1. RowsOfClaims' /\ ReleasersClaimed' /\ WritersHandled' /\ DoneWritten'
           /\ SettledOnAnswer'
      <4>1. RowsOfClaims' /\ ReleasersClaimed'
        BY <1>a, <2>1, <2>2, <2>3 DEF AInv, RowsOfClaims, ReleasersClaimed
      <4>2. WritersHandled' /\ DoneWritten'
        BY <1>a, <2>1, <2>2, <2>3 DEF AInv, WritersHandled, DoneWritten
      <4>3. SettledOnAnswer'
        BY <1>a, <2>1, <2>2, <2>3 DEF AInv, SettledOnAnswer
      <4> QED
        BY <4>1, <4>2, <4>3
    <3>2. ReplaysOver' /\ ReplayFaithful'
      BY <1>a, <2>1 DEF AInv, ReplaysOver, Replays, ReplayFaithful, Send
    <3> QED
      BY <1>0, <3>1, <3>2 DEF AInv
  <2>4. pc[r] \notin {"idle", "arrived", "claiming"}
    BY <2>1 DEF AInv, ReleasersClaimed
  <2> QED
    BY <2>3, <2>4
<1>11. ASSUME NEW r \in Requests, Purge(r) PROVE AInv'
  <2>1. /\ rows' = VisibleRows(arrived[r]) \/ UNCHANGED rows
        /\ UNCHANGED <<pc, arrived, releasing, written, answer, warned>>
    BY <1>11 DEF Purge
  <2>2. /\ rows' \subseteq rows
        /\ \A x, y \in rows : x \in rows' /\ y.token = x.token => y \in rows'
    BY <2>1 DEF VisibleRows
  <2>3. SettledOnAnswer'
    BY <2>1, <2>2 DEF AInv, SettledOnAnswer, Has
  <2> QED
    BY <1>0, <2>1, <2>2, <2>3
    DEF AInv, RowsOfClaims, ReleasersClaimed, WritersHandled, DoneWritten,
        ReplaysOver, Replays,
        ReplayFaithful
<1>12. ASSUME NEW h \in Hosts, Crash(h) PROVE AInv'
  <2>1. /\ \A r \in Requests : pc'[r] \in {pc[r], "dead"}
        /\ \A r \in Requests : pc[r] = "idle" => pc'[r] = pc[r]
        /\ releasing' \subseteq releasing
        /\ UNCHANGED <<rows, written, answer, warned>>
    BY <1>12 DEF Crash
  <2> QED
    BY <1>0, <1>a, <2>1
    DEF AInv, RowsOfClaims, ReleasersClaimed, WritersHandled, DoneWritten,
        ReplaysOver, Replays,
        ReplayFaithful, SettledOnAnswer, Has, TypeOK
<1>13. ASSUME NEW r \in Requests, HangUp(r) PROVE AInv'
  <2>1. /\ pc[r] \in {"running", "wrote"} /\ releasing' = releasing \cup {r}
        /\ UNCHANGED <<rows, pc, written, answer, warned>>
    BY <1>13 DEF HangUp
  <2> QED
    BY <1>0, <2>1 DEF AInv, RowsOfClaims, ReleasersClaimed, WritersHandled,
       DoneWritten, ReplaysOver, Replays, ReplayFaithful, SettledOnAnswer, Has
<1> QED
  BY <1>1, <1>2, <1>3, <1>4, <1>5, <1>6, <1>7, <1>8, <1>9, <1>10, <1>11,
     <1>12, <1>13 DEF Next, ServerStep, Tick, vars

\* A replayed response is the response of another request with the same hash
\* that did reach the lake, and the request that got it wrote nothing: also
\* when clients disconnect, leases lapse, processes die and appends fail.
THEOREM ReplaysFaithful == Spec => []ReplayFaithful
<1>1. AInv => ReplayFaithful
  BY DEF AInv
<1> QED
  BY InitA, StepA, <1>1, PTL DEF Spec

\* No path out of the wrapper leaves a claim that blocks the key: a claim that
\* counts is a stored response, or belongs to a request still being served, to
\* a dead process, or to a request with a failed append.
THEOREM NoOrphans == Spec => []NoOrphanClaim
<1>1. ASSUME AInv PROVE NoOrphanClaim
  <2> SUFFICES ASSUME NEW t \in LiveTokens(VisibleRows(now), now),
                      TokenState(rows, t) # "done",
                      pc[t] \in {"idle", "arrived", "claiming", "answered"},
                      t \notin warned
               PROVE  FALSE
    BY DEF NoOrphanClaim
  <2>1. t \in Requests /\ Blocks(t, now)
    BY <1>1, LiveBlocks DEF LiveTokens, VisibleRows, AInv, TypeOK, Rows
  <2>2. PICK x \in rows : x.token = t
    BY <2>1 DEF Blocks
  <2>3. pc[t] = "answered"
    BY <1>1, <2>2 DEF AInv, RowsOfClaims
  <2>4. ~Has(rows, t, "done")
    BY DEF TokenState
  <2>5. Has(rows, t, "released")
    BY <1>1, <2>1, <2>2, <2>3, <2>4 DEF AInv, SettledOnAnswer
  <2> QED
    BY <2>1, <2>4, <2>5 DEF Blocks
<1> QED
  BY InitA, StepA, <1>1, PTL DEF Spec
----------------------------------------------------------------------------
(* OnceOnly is implemented *)

\* The inductive invariant of the refinement.
OInv == IInv /\ AInv /\ DoneFirst

\* Steps that store nothing and add no claim.
LEMMA QuietDone ==
  ASSUME IInv, DoneFirst, UNCHANGED <<rows, now, arrived>>,
         \A r \in Requests : pc'[r] \in Claiming => pc[r] \in Claiming
  PROVE  DoneFirst'
<1>1. ASSUME NEW u, NEW r PROVE Before(rows, u, r)' <=> Before(rows, u, r)
  BY DEF Before
<1> QED
  BY <1>1 DEF DoneFirst, Has, Expiry

\* Steps that append a row: a claim goes to the end of the line, and a response
\* is stored by the first in line.
LEMMA AppendDone ==
  ASSUME IInv, DoneFirst, NEW t \in Requests, NEW s \in RowStates,
         AppendRow(t, s), UNCHANGED <<now, arrived>>,
         \A r \in Requests \ {t} : pc'[r] \in Claiming => pc[r] \in Claiming,
         pc'[t] \in Claiming => s = "pending" /\ \A x \in rows : x.token # t,
         s = "done" => t \in Executing /\ Expiry(t) > now
  PROVE  DoneFirst'
<1> SUFFICES ASSUME NEW u \in Requests, Has(rows', u, "done"), Expiry(u)' > now',
                    NEW r \in Requests, pc'[r] \in Claiming
             PROVE  Before(rows, u, r)'
  BY DEF DoneFirst
<1>1. TypeOK /\ RowsNumbered /\ Expiry(u) > now
  BY DEF IInv, Expiry
<1>2. CASE Has(rows, u, "done") /\ r # t
  <2>1. Before(rows, u, r)
    BY <1>1, <1>2 DEF DoneFirst
  <2> QED
    BY <1>1, <2>1, AppendKeeps
<1>3. CASE Has(rows, u, "done") /\ r = t
  <2>1. \A x \in rows : x.token # t
    BY <1>3
  <2>2. u # t /\ \E x \in rows : x.token = u
    BY <1>3, <2>1 DEF Has
  <2> QED
    BY <1>1, <1>3, <2>1, <2>2, AppendKeeps
<1>4. CASE ~Has(rows, u, "done")
  <2>1. u = t /\ s = "done"
    BY <1>4, AppendHas DEF Has
  <2>2. r # t /\ pc[r] \in Claiming
    BY <2>1
  <2>3. Blocks(r, now)
    BY <2>2, ExecutingBlocks
  <2>4. Before(rows, u, r)
    BY <2>1, <2>2, <2>3 DEF IInv, FirstInLine
  <2> QED
    BY <1>1, <2>4, AppendKeeps
<1> QED
  BY <1>2, <1>3, <1>4

\* A request that is let in, or is being executed, finds no stored response.
LEMMA NothingStored ==
  ASSUME OInv, NEW r \in Requests, pc[r] \in Claiming,
         \A u \in Requests \ {r} : Blocks(u, now) => Before(rows, r, u)
  PROVE  StoredTokens(now) = {}
<1> SUFFICES ASSUME NEW u \in Requests, Has(VisibleRows(now), u, "done") PROVE FALSE
  BY DEF StoredTokens
<1>1. Has(rows, u, "done") /\ Expiry(u) > now
  BY DEF Has, VisibleRows
<1>2. Before(rows, u, r)
  BY <1>1 DEF OInv, DoneFirst
<1>3. Blocks(u, now)
  BY <1>1 DEF Blocks, Has
<1>4. u # r
  BY <1>1 DEF OInv, IInv, ClaimsStand
<1>5. Before(rows, r, u)
  BY <1>3, <1>4
<1> QED
  BY <1>2, <1>5, BeforeAntisymmetric DEF OInv, IInv

LEMMA ExecutingAlone ==
  ASSUME OInv, NEW r \in Executing
  PROVE  StoredTokens(now) = {}
<1>1. r \in Requests /\ pc[r] \in Claiming
  BY DEF Executing, Claiming
<1> QED
  BY <1>1, NothingStored DEF OInv, IInv, FirstInLine

\* What is stored changes only where a response is appended.
LEMMA StoredKept ==
  ASSUME UNCHANGED <<rows, now, arrived>>
  PROVE  StoredTokens(now)' = StoredTokens(now)
  BY DEF StoredTokens, VisibleRows, Has, Expiry

LEMMA StoredAppend ==
  ASSUME TypeOK, NEW t \in Requests, NEW s \in RowStates, AppendRow(t, s),
         UNCHANGED <<now, arrived>>, Expiry(t) > now
  PROVE  StoredTokens(now)' = IF s = "done" THEN StoredTokens(now) \cup {t}
                                            ELSE StoredTokens(now)
<1> DEFINE new == [seq |-> nextSeq, token |-> t, state |-> s]
<1>1. rows' = rows \cup {new} /\ new.token = t /\ new.state = s
  BY DEF AppendRow
<1> HIDE DEF new
<1> QED
  BY <1>1 DEF StoredTokens, VisibleRows, Has, Expiry

LEMMA StoredOther ==
  ASSUME TypeOK, NEW t \in Requests, NEW s \in RowStates, AppendRow(t, s),
         UNCHANGED <<now, arrived>>, s # "done"
  PROVE  StoredTokens(now)' = StoredTokens(now)
<1> DEFINE new == [seq |-> nextSeq, token |-> t, state |-> s]
<1>1. rows' = rows \cup {new} /\ new.token = t /\ new.state = s
  BY DEF AppendRow
<1> HIDE DEF new
<1> QED
  BY <1>1 DEF StoredTokens, VisibleRows, Has, Expiry

LEMMA InitO == Init => OInv /\ Promise!Init
<1> SUFFICES ASSUME Init PROVE OInv /\ Promise!Init
  OBVIOUS
<1>1. IInv /\ AInv
  BY InitInv, InitA
<1>2. rows = {} /\ written = {} /\ \A r \in Requests : pc[r] = "idle"
  BY DEF Init
<1>3. DoneFirst /\ Executing = {} /\ StoredTokens(now) = {}
  BY <1>2 DEF DoneFirst, Has, Executing, StoredTokens, VisibleRows
<1> QED
  BY <1>1, <1>2, <1>3 DEF OInv, Promise!Init

LEMMA StepDone ==
  ASSUME Undisturbed, OInv, [Next]_vars
  PROVE  DoneFirst'
<1> USE DEF OInv
<1>a. /\ pc \in [Requests -> Labels]
      /\ \A x \in rows : x.token \in Requests
  BY DEF IInv, TypeOK, Rows
<1>b. \A r \in Requests : now \in Nat /\ arrived[r] \in Nat
  BY DEF IInv, TypeOK
<1>1. ASSUME Tick PROVE DoneFirst'
  BY <1>b, <1>1, IdempotencyAssumption
  DEF Tick, DoneFirst, Has, Expiry, Before
<1>2. ASSUME NEW r \in Requests, Arrive(r) PROVE DoneFirst'
  <2>1. /\ pc[r] = "idle" /\ pc' = [pc EXCEPT ![r] = "arrived"]
        /\ arrived' = [arrived EXCEPT ![r] = now]
        /\ UNCHANGED <<now, rows>>
    BY <1>2 DEF Arrive, Goto
  <2>2. \A x \in rows : x.token # r
    BY <2>1 DEF IInv, RowsOfClaims
  <2>3. \A u \in Requests \ {r} : arrived'[u] = arrived[u]
    BY <2>1 DEF IInv, TypeOK
  <2> QED
    BY <1>a, <2>1, <2>2, <2>3 DEF DoneFirst, Has, Expiry, Before, Claiming
<1>3. ASSUME NEW r \in Requests,
             FirstRead(r) \/ ReRead(r) \/ HandlerWrites(r) \/ HandlerSucceeds(r)
               \/ HandlerFails(r)
      PROVE DoneFirst'
  <2>1. /\ pc[r] \in Claiming \/ pc[r] = "arrived"
        /\ \/ pc[r] = "arrived" /\ \E l \in {"claiming", "answered"} : pc' = [pc EXCEPT ![r] = l]
           \/ pc[r] \in Claiming /\ \E l \in Labels : pc' = [pc EXCEPT ![r] = l]
        /\ UNCHANGED <<now, rows, arrived>>
    BY <1>3 DEF FirstRead, ReRead, HandlerWrites, HandlerSucceeds, HandlerFails,
       Goto, Claiming, Labels, Engaged
  <2> QED
    BY <1>a, <2>1, QuietDone DEF Claiming
<1>4. ASSUME NEW r \in Requests, Claim(r) PROVE DoneFirst'
  <2>1. \A x \in rows : x.token # r
    BY <1>4 DEF Claim, IInv, RowsOfClaims
  <2> QED
    BY <1>a, <1>4, <2>1, AppendDone DEF Claim, Goto, RowStates
<1>5. ASSUME NEW r \in Requests, BackOff(r) \/ BeginFails(r) PROVE DoneFirst'
  <2>1. /\ \E l \in {"answered", "failed"} : pc' = [pc EXCEPT ![r] = l]
        /\ \/ UNCHANGED rows
           \/ AppendRow(r, "pending")
           \/ AppendRow(r, "released")
        /\ UNCHANGED <<now, arrived>>
    BY <1>5 DEF BackOff, BeginFails, AppendFails, Goto
  <2> QED
    BY <1>a, <2>1, AppendDone, QuietDone DEF RowStates, Claiming
<1>6. ASSUME NEW r \in Requests, StoreDone(r) \/ StoreFails(r) PROVE DoneFirst'
  <2>1. /\ pc[r] = "storing"
        /\ \E l \in {"answered", "unstored"} : pc' = [pc EXCEPT ![r] = l]
        /\ AppendRow(r, "done") \/ UNCHANGED rows
        /\ UNCHANGED <<now, arrived>>
    BY <1>6 DEF StoreDone, StoreFails, AppendFails, Goto
  <2>2. r \in Executing /\ Expiry(r) > now
    BY <2>1 DEF Executing, IInv, InTime, Engaged, Expiry
  <2> QED
    BY <1>a, <2>1, <2>2, AppendDone, QuietDone DEF RowStates, Claiming
<1>7. ASSUME NEW r \in Requests, ReleaseEnds(r) PROVE DoneFirst'
  <2>1. /\ pc' = [pc EXCEPT ![r] = "answered"]
        /\ AppendRow(r, "released") \/ UNCHANGED rows
        /\ UNCHANGED <<now, arrived>>
    BY <1>7 DEF ReleaseEnds, AppendFails, Goto, IInv, OnlyReleasing
  <2> QED
    BY <1>a, <2>1, AppendDone, QuietDone DEF RowStates, Claiming
<1>8. ASSUME NEW r \in Requests, HangUp(r) PROVE DoneFirst'
  BY <1>8 DEF HangUp, Undisturbed
<1>9. ASSUME NEW r \in Requests, Purge(r) PROVE DoneFirst'
  <2>1. /\ rows' = VisibleRows(arrived[r]) \/ UNCHANGED rows
        /\ UNCHANGED <<now, pc, arrived>>
    BY <1>9 DEF Purge
  <2>2. /\ rows' \subseteq rows
        /\ \A x \in rows : Expiry(x.token) > now => x \in rows'
    BY <2>1, IdempotencyAssumption
    DEF VisibleRows, IInv, NotInFuture, TypeOK, Rows, Expiry
  <2> QED
    BY <2>1, <2>2 DEF DoneFirst, Has, Before, Expiry
<1>10. ASSUME NEW h \in Hosts, Crash(h) PROVE DoneFirst'
  <2>1. /\ \A r \in Requests : pc'[r] \in {pc[r], "dead"}
        /\ UNCHANGED <<now, rows, arrived>>
    BY <1>10 DEF Crash
  <2> QED
    BY <2>1, QuietDone DEF Claiming
<1>11. ASSUME UNCHANGED vars PROVE DoneFirst'
  BY <1>11, QuietDone DEF vars
<1> QED
  BY <1>1, <1>2, <1>3, <1>4, <1>5, <1>6, <1>7, <1>8, <1>9, <1>10, <1>11
  DEF Next, ServerStep
LEMMA StepO == ASSUME Undisturbed, OInv, [Next]_vars PROVE OInv'
  BY StepInv, StepA, StepDone DEF OInv

\* A step of the wrapper is one of OnceOnly's, or none.
LEMMA StepPromise ==
  ASSUME Undisturbed, OInv, [Next]_vars
  PROVE  [Promise!Next]_(Promise!vars)
<1> USE DEF OInv
<1>a. /\ pc \in [Requests -> Labels]
      /\ \A x \in rows : x.token \in Requests
      /\ TypeOK
  BY DEF IInv, TypeOK, Rows
<1> DEFINE Still == UNCHANGED <<Executing, StoredTokens(now), written>>
<1>b. Still => [Promise!Next]_(Promise!vars)
  BY DEF Promise!vars
<1>c. ASSUME NEW r \in Requests,
             Promise!Start(r) \/ Promise!Write(r) \/ Promise!Keep(r) \/ Promise!Abandon(r)
      PROVE  [Promise!Next]_(Promise!vars)
  BY <1>c DEF Promise!Next
<1>1. ASSUME Tick PROVE [Promise!Next]_(Promise!vars)
  <2>1. UNCHANGED <<rows, pc, arrived, written>> /\ now' = now + 1
    BY <1>1 DEF Tick
  <2>2. \A t \in Requests : Expiry(t) \in Int /\ now \in Int
    BY IdempotencyAssumption DEF IInv, TypeOK, Expiry
  <2>3. StoredTokens(now)' \subseteq StoredTokens(now)
    BY <1>a, <2>1, <2>2 DEF StoredTokens, VisibleRows, Has, Expiry
  <2> QED
    BY <2>1, <2>3 DEF Promise!Next, Promise!Forget, Executing
<1>2. ASSUME NEW r \in Requests, Arrive(r) PROVE [Promise!Next]_(Promise!vars)
  <2>1. /\ pc[r] = "idle" /\ pc' = [pc EXCEPT ![r] = "arrived"]
        /\ arrived' = [arrived EXCEPT ![r] = now]
        /\ UNCHANGED <<now, rows, written>>
    BY <1>2 DEF Arrive, Goto
  <2>2. \A x \in rows : x.token # r
    BY <2>1 DEF IInv, RowsOfClaims
  <2>3. \A u \in Requests \ {r} : arrived'[u] = arrived[u]
    BY <2>1 DEF IInv, TypeOK
  <2>4. StoredTokens(now)' = StoredTokens(now)
    BY <1>a, <2>1, <2>2, <2>3 DEF StoredTokens, VisibleRows, Has, Expiry
  <2> QED
    BY <1>a, <1>b, <2>1, <2>4 DEF Executing
<1>3. ASSUME NEW r \in Requests, FirstRead(r) \/ HandlerSucceeds(r)
      PROVE  [Promise!Next]_(Promise!vars)
  <2>1. UNCHANGED <<now, rows, arrived, written>>
    BY <1>3 DEF FirstRead, HandlerSucceeds
  <2>2. Executing' = Executing
    BY <1>3, <1>a DEF FirstRead, HandlerSucceeds, Goto, Executing
  <2> QED
    BY <1>b, <2>1, <2>2, StoredKept
<1>4. ASSUME NEW r \in Requests, Claim(r) \/ BackOff(r) \/ BeginFails(r) \/ ReleaseEnds(r)
      PROVE  [Promise!Next]_(Promise!vars)
  <2>1. /\ UNCHANGED <<now, arrived, written>>
        /\ \/ UNCHANGED rows
           \/ AppendRow(r, "pending")
           \/ AppendRow(r, "released")
    BY <1>4 DEF Claim, BackOff, BeginFails, ReleaseEnds, AppendFails
  <2>2. StoredTokens(now)' = StoredTokens(now)
    BY <1>a, <2>1, StoredKept, StoredOther DEF RowStates
  <2>3. /\ pc[r] \notin {"running", "wrote", "storing"}
        /\ \E l \in {"claimed", "answered", "failed"} : pc' = [pc EXCEPT ![r] = l]
    BY <1>4 DEF Claim, BackOff, BeginFails, ReleaseEnds, Goto, IInv, OnlyReleasing
  <2>4. Executing' = Executing
    BY <1>a, <2>3 DEF Executing
  <2> QED
    BY <1>b, <2>1, <2>2, <2>4
<1>5. ASSUME NEW r \in Requests, ReRead(r) PROVE [Promise!Next]_(Promise!vars)
  <2>1. /\ pc[r] = "claimed"
        /\ \/ pc' = [pc EXCEPT ![r] = "running"] /\ (Owns(r, now) \/ NoOwner(now))
           \/ pc' = [pc EXCEPT ![r] = "backingOff"]
        /\ UNCHANGED <<now, rows, arrived, written>>
    BY <1>5 DEF ReRead, Goto
  <2>2. StoredTokens(now)' = StoredTokens(now)
    BY <2>1, StoredKept
  <2>3. CASE pc' = [pc EXCEPT ![r] = "backingOff"]
    BY <1>a, <1>b, <2>1, <2>2, <2>3 DEF Executing
  <2>4. CASE pc' = [pc EXCEPT ![r] = "running"] /\ (Owns(r, now) \/ NoOwner(now))
    <3>1. pc[r] \in Claiming /\ now \in Int /\ TypeOK
      BY <2>1 DEF Claiming, IInv, TypeOK
    <3>2. Blocks(r, now)
      BY <3>1, ExecutingBlocks
    <3>3. Owns(r, now)
      BY <2>4, <3>1, <3>2, LiveBlocks DEF NoOwner
    <3>4. \A u \in Requests \ {r} : Blocks(u, now) => Before(rows, r, u)
      BY <3>1, <3>3, OwnerFirst
    <3>5. StoredTokens(now) = {}
      BY <3>1, <3>4, NothingStored
    <3>6. ASSUME NEW p \in Executing PROVE FALSE
      <4>1. p \in Requests \ {r} /\ pc[p] \in Claiming
        BY <2>1 DEF Executing, Claiming
      <4>2. Blocks(p, now)
        BY <4>1, ExecutingBlocks
      <4>3. Before(rows, r, p) /\ Before(rows, p, r)
        BY <3>2, <3>4, <4>1, <4>2 DEF IInv, FirstInLine
      <4> QED
        BY <3>1, <4>1, <4>3, BeforeAntisymmetric
    <3>7. Executing = {} /\ Executing' = {r}
      BY <1>a, <2>4, <3>6 DEF Executing
    <3> QED
      BY <1>c, <2>1, <2>2, <3>5, <3>7 DEF Promise!Start
  <2> QED
    BY <2>1, <2>3, <2>4
<1>6. ASSUME NEW r \in Requests, HandlerWrites(r) PROVE [Promise!Next]_(Promise!vars)
  <2>1. /\ pc[r] = "running" /\ pc' = [pc EXCEPT ![r] = "wrote"]
        /\ written' = written \cup {r}
        /\ UNCHANGED <<now, rows, arrived>>
    BY <1>6 DEF HandlerWrites, Goto
  <2>2. r \in Executing \ written /\ Executing' = Executing
    BY <1>a, <2>1 DEF Executing, AInv, WritersHandled, HandledLabels
  <2> QED
    BY <1>c, <2>1, <2>2, StoredKept DEF Promise!Write
<1>7. ASSUME NEW r \in Requests, HandlerFails(r) PROVE [Promise!Next]_(Promise!vars)
  <2>1. /\ pc[r] \in {"running", "wrote"} /\ pc' = [pc EXCEPT ![r] = "releasing"]
        /\ UNCHANGED <<now, rows, arrived, written>>
    BY <1>7 DEF HandlerFails, Goto
  <2>2. r \in Executing /\ Executing' = Executing \ {r}
    BY <1>a, <2>1 DEF Executing
  <2> QED
    BY <1>c, <2>1, <2>2, StoredKept DEF Promise!Abandon
<1>8. ASSUME NEW r \in Requests, StoreDone(r) \/ StoreFails(r)
      PROVE  [Promise!Next]_(Promise!vars)
  <2>1. /\ pc[r] = "storing"
        /\ \E l \in {"answered", "unstored"} : pc' = [pc EXCEPT ![r] = l]
        /\ AppendRow(r, "done") \/ UNCHANGED rows
        /\ UNCHANGED <<now, arrived, written>>
    BY <1>8 DEF StoreDone, StoreFails, AppendFails, Goto
  <2>2. /\ r \in Executing \cap written /\ Expiry(r) > now
        /\ Executing' = Executing \ {r}
    BY <1>a, <2>1
    DEF Executing, IInv, InTime, Engaged, Expiry, AInv, WritersHandled
  <2>3. CASE AppendRow(r, "done")
    <3>1. StoredTokens(now)' = StoredTokens(now) \cup {r}
      BY <1>a, <2>1, <2>2, <2>3, StoredAppend DEF RowStates
    <3> QED
      BY <1>c, <2>1, <2>2, <3>1 DEF Promise!Keep
  <2>4. CASE UNCHANGED rows
    BY <1>c, <2>1, <2>2, <2>4, StoredKept DEF Promise!Abandon
  <2> QED
    BY <2>1, <2>3, <2>4
<1>9. ASSUME NEW r \in Requests, HangUp(r) PROVE [Promise!Next]_(Promise!vars)
  BY <1>9 DEF HangUp, Undisturbed
<1>10. ASSUME NEW r \in Requests, Purge(r) PROVE [Promise!Next]_(Promise!vars)
  <2>1. /\ rows' = VisibleRows(arrived[r]) \/ UNCHANGED rows
        /\ UNCHANGED <<now, pc, arrived, written>>
    BY <1>10 DEF Purge
  <2>2. rows' \subseteq rows
    BY <2>1 DEF VisibleRows
  <2>3. StoredTokens(now)' \subseteq StoredTokens(now)
    BY <2>1, <2>2 DEF StoredTokens, VisibleRows, Has, Expiry
  <2> QED
    BY <2>1, <2>3 DEF Promise!Next, Promise!Forget, Executing
<1>11. ASSUME NEW h \in Hosts, Crash(h) PROVE [Promise!Next]_(Promise!vars)
  <2>1. /\ \A r \in Requests : pc'[r] \in {pc[r], "dead"}
        /\ UNCHANGED <<now, rows, arrived, written>>
    BY <1>11 DEF Crash
  <2>2. Executing' \subseteq Executing
    BY <2>1 DEF Executing
  <2>3. CASE Executing' = Executing
    BY <1>b, <2>1, <2>3, StoredKept
  <2>4. CASE Executing' # Executing
    <3>1. PICK r \in Executing : r \notin Executing'
      BY <2>2, <2>4
    <3>2. Executing' = Executing \ {r}
      BY <2>2, <3>1, InvExclusive DEF Exclusive
    <3>3. r \in Requests
      BY DEF Executing
    <3> QED
      BY <1>c, <2>1, <3>1, <3>2, <3>3, StoredKept DEF Promise!Abandon
  <2> QED
    BY <2>3, <2>4
<1>12. ASSUME UNCHANGED vars PROVE [Promise!Next]_(Promise!vars)
  BY <1>12, <1>b, StoredKept DEF vars, Executing
<1> QED
  BY <1>1, <1>2, <1>3, <1>4, <1>5, <1>6, <1>7, <1>8, <1>9, <1>10, <1>11, <1>12
  DEF Next, ServerStep

\* As long as clients stay connected and requests finish within their lease, no
\* handler with the key writes to the lake while the response of an earlier one
\* is stored.
THEOREM NeverRerun == Undisturbed => (Spec => NoRerun)
<1> SUFFICES ASSUME Undisturbed PROVE Spec => NoRerun
  OBVIOUS
<1>1. OInv /\ [Next]_vars => OInv'
  BY StepO
<1>2. OInv /\ [Next]_vars =>
        [\A r \in Requests : r \in written' \ written => StoredTokens(now) = {}]_vars
  <2> SUFFICES ASSUME OInv, Next, NEW r \in Requests, r \in written' \ written
               PROVE  StoredTokens(now) = {}
    BY DEF vars
  <2>1. r \in Executing
    BY DEF Next, ServerStep, Tick, Arrive, FirstRead, Claim, ReRead, BackOff,
       BeginFails, HandlerWrites, HandlerSucceeds, HandlerFails, StoreDone,
       StoreFails, ReleaseEnds, HangUp, Purge, Crash, Executing
  <2> QED
    BY <2>1, ExecutingAlone
<1> QED
  BY InitO, <1>1, <1>2, PTL DEF Spec, NoRerun

\* The wrapper implements OnceOnly: it lets one request in at a time, none while
\* a response is stored, and stores the responses of requests that wrote only;
\* the re-read after the claim is the step that takes the key.
THEOREM Implements == Undisturbed => (Spec => OnceOnlySpec)
<1> SUFFICES ASSUME Undisturbed PROVE Spec => OnceOnlySpec
  OBVIOUS
<1>1. OInv /\ [Next]_vars => OInv' /\ [Promise!Next]_(Promise!vars)
  BY StepO, StepPromise
<1> QED
  BY InitO, <1>1, PTL DEF Spec, OnceOnlySpec, Promise!Spec
=============================================================================
