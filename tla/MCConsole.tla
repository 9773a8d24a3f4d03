----------------------------- MODULE MCConsole -----------------------------
(***************************************************************************)
(* Jobs of the console's schedulers, settings shared by gateways, and      *)
(* exports beside imports, for TLC.  They share no state: each behaviour   *)
(* is about one of them; the variables of the others stay as they began.   *)
(***************************************************************************)
EXTENDS ConsoleSchedules, ConsoleSettings, Transfers, TLC

CONSTANTS g1, g2,         \* gateways
          e1, e2, i1, i2, \* exports, imports
          t1, t2          \* tables

\* Scheduled runs of maintenance only: manual ones may reopen a slot.
Ticking == {<<g1, "schedule">>, <<g2, "schedule">>}

\* An export of one table as a file beside one of the whole lake, and two
\* imports: they create tables in an empty lake, or one appends to the table
\* that the other replaces.
Export(f, z) == [format |-> f, zip |-> z]
Import(m, t) == [mode |-> m, table |-> t]
MCExportKinds == {(e1 :> Export("parquet", FALSE)) @@ (e2 :> Export("text", TRUE))}
MCImportAsks == {(i1 :> Import("auto", t1)) @@ (i2 :> Import("replace", t)) : t \in LakeTables}
MCFirstLakes == {(t1 :> n) @@ (t2 :> 0) : n \in {0, 1}}

VARIABLE part   \* the part this behaviour is about

consolevars == <<part, mvars, pruneVars, cvars, tvars>>

\* One initial state of each part, for the behaviours about another.
MaintRests == MaintInit /\ period = 1
PruneRests == PruneInit /\ due = 1
TransfersRest ==
  /\ kindOf = (CHOOSE f \in ExportKinds : TRUE) /\ askOf = (CHOOSE f \in ImportAsks : TRUE)
  /\ concurrency = 1 /\ lake = (CHOOSE l \in FirstLakes : TRUE) /\ TransfersInit

\* The prune rule begins unscheduled: the first tick schedules it.
ConsoleInit ==
  /\ SettingsInit
  /\ \/ part = "maintenance" /\ MaintInit /\ PruneRests /\ TransfersRest
     \/ part = "prune" /\ MaintRests /\ due = 0 /\ PruneInit /\ TransfersRest
     \/ part = "settings" /\ MaintRests /\ PruneRests /\ TransfersRest
     \/ part = "transfers" /\ MaintRests /\ PruneRests /\ TransfersInit
        /\ (lake[t1] = 1 <=> askOf[i2].table = t1)

ConsoleNext ==
  \/ part = "maintenance" /\ MaintNext /\ UNCHANGED <<part, pruneVars, cvars, tvars>>
  \/ part = "prune" /\ PruneNext /\ UNCHANGED <<part, mvars, cvars, tvars>>
  \/ part = "settings" /\ SettingsNext /\ UNCHANGED <<part, mvars, pruneVars, tvars>>
  \/ part = "transfers" /\ TransfersNext /\ UNCHANGED <<part, mvars, pruneVars, cvars>>

\* Each part's own fairness, in the behaviours that are about it.
ConsoleFairness ==
  /\ \A g \in Gateways : /\ WF_mvars(part = "maintenance" /\ BootHost(g))
                         /\ WF_mvars(part = "maintenance" /\ TimerStep(g))
  /\ \A c \in Activations : WF_mvars(part = "maintenance" /\ CallerStep(c))
  /\ WF_mvars(part = "maintenance" /\ ClockTick)
  /\ \A h \in PruneHosts : /\ WF_pruneVars(part = "prune" /\ BootPrune(h))
                           /\ WF_pruneVars(part = "prune" /\ TickStep(h))
  /\ \A c \in Starts : WF_pruneVars(part = "prune" /\ StartStep(c))
  /\ \A i \in 1..MaxRuns : WF_pruneVars(part = "prune" /\ JobStep(i))
  /\ SF_pruneVars(part = "prune" /\ PruneClock)
  /\ \A h \in SettingHosts : /\ WF_cvars(part = "settings" /\ StartupStep(h))
                             /\ WF_cvars(part = "settings" /\ ChangeStep(h))
                             /\ WF_cvars(part = "settings" /\ Refresh(h))
                             /\ WF_cvars(part = "settings" /\ ApplyRefresh(h))
  /\ \A e \in Exports :
       /\ WF_tvars(part = "transfers" /\ EngineStep(e) /\ UNCHANGED importVars)
       /\ WF_tvars(part = "transfers" /\ TimeoutDestroys(e) /\ UNCHANGED importVars)
       /\ WF_tvars(part = "transfers" /\ WriteRejects(e) /\ UNCHANGED importVars)

ConsoleSpec == ConsoleInit /\ [][ConsoleNext]_consolevars /\ ConsoleFairness

\* The type invariant of the part a behaviour is about.
TypesOK ==
  CASE part = "maintenance" -> MaintTypeOK
    [] part = "prune" -> PruneTypeOK
    [] part = "settings" -> SettingsTypeOK
    [] part = "transfers" -> TransfersTypeOK

\* What is due is done (Maintenance), what was started is settled in the log
\* (PruneRules), every gateway comes to hold the settings that are stored
\* (ConsoleSettings), and an export gives its slot back in the end (Transfers).
WorkIsDone ==
  /\ DueRuns /\ RunsSettle /\ SlotsComeBack
  /\ part = "settings" => Converges
=============================================================================
