------------------------------ MODULE OnceOnly ------------------------------
(***************************************************************************)
(* What an Idempotency-Key promises (README.md section 9.5, with the       *)
(* retention of IDEMPOTENCY_TTL_HOURS): at most one request with the key   *)
(* executes at a time, and none starts while the response of an earlier    *)
(* one is stored.  How requests claim the key is left open.                *)
(***************************************************************************)
CONSTANT Requests

VARIABLES
  running,  \* requests executing
  stored,   \* requests whose response is stored and not expired
  written   \* requests whose write reached the lake

vars == <<running, stored, written>>

Init == running = {} /\ stored = {} /\ written = {}

\* A request is let in only on a free key with no stored response.
Start(r) ==
  /\ running = {} /\ stored = {}
  /\ running' = {r}
  /\ UNCHANGED <<stored, written>>

Write(r) ==
  /\ r \in running \ written
  /\ written' = written \cup {r}
  /\ UNCHANGED <<running, stored>>

\* The response of a request that wrote is stored, and the key is settled.
Keep(r) ==
  /\ r \in running \cap written
  /\ running' = running \ {r}
  /\ stored' = stored \cup {r}
  /\ UNCHANGED written

\* The request failed, or its process died: a retry may run.
Abandon(r) ==
  /\ r \in running
  /\ running' = running \ {r}
  /\ UNCHANGED <<stored, written>>

\* The stored response expires.
Forget ==
  /\ stored' \subseteq stored
  /\ UNCHANGED <<running, written>>

Next ==
  \/ \E r \in Requests : Start(r) \/ Write(r) \/ Keep(r) \/ Abandon(r)
  \/ Forget

Spec == Init /\ [][Next]_vars
=============================================================================
