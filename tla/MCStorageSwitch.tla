-------------------------- MODULE MCStorageSwitch --------------------------
(* Settings for StorageSwitch: two data paths, and settings that pass the    *)
(* console's test and never attach.                                          *)
EXTENDS StorageSwitch

CONSTANTS env, other, bad, p1, p2

MCPathOf == [s \in Settings |-> IF s = other THEN p2 ELSE p1]
============================================================================
