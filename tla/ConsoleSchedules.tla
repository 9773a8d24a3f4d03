-------------------------- MODULE ConsoleSchedules --------------------------
(***************************************************************************)
(* The timers a gateway's console runs side by side: maintenance of the    *)
(* lake (Maintenance; startMaintenanceScheduler of                         *)
(* src/console/maintenance.js) and prune rules (PruneRules;                *)
(* startPruneScheduler of src/console/retention.js).  Each has a row of    *)
(* its own in the lake and neither looks at the other's, so the two share  *)
(* no state.                                                               *)
(***************************************************************************)
EXTENDS Maintenance, PruneRules

SchedulesSpec == MaintSpec /\ PruneSpec

\* No slot is claimed twice, however many gateways' timers fire at it: one of the
\* maintenance schedule while that comes again (claimMaintenance), and one of a
\* prune rule (claimRule).
SlotsOnce == SlotOnce /\ PruneSlotOnce
=============================================================================
