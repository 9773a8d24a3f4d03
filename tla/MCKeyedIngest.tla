--------------------------- MODULE MCKeyedIngest ---------------------------
(* Instances of KeyedIngest for TLC.                                         *)
EXTENDS KeyedIngest, MCIngestRequests
============================================================================
