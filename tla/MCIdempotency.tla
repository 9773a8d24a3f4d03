--------------------------- MODULE MCIdempotency ---------------------------
(* Instances of Idempotency for TLC: three requests with one key, served by  *)
(* two gateway processes; the third request has a different body.            *)
EXTENDS Idempotency

CONSTANTS r1, r2, r3, hashA, hashB, gw1, gw2

MCHashOf == [r \in Requests |-> IF r = r3 THEN hashB ELSE hashA]
MCHostOf == [r \in Requests |-> IF r = r2 THEN gw2 ELSE gw1]
=============================================================================
