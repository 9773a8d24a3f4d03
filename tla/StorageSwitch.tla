--------------------------- MODULE StorageSwitch ---------------------------
(***************************************************************************)
(* A gateway that tries new storage settings at its next start: the two-   *)
(* phase save of src/storage-config.js, and getDbInstance and              *)
(* runPendingStorageSwitch of src/db.js, which move the lake to a new data *)
(* path before attaching.                                                  *)
(*                                                                         *)
(* One gateway and its supervisor.  DuckLake is modelled as README.md says *)
(* of it: an attach whose data path is not the catalog's is rejected,      *)
(* unless it overrides the path.                                           *)
(***************************************************************************)
EXTENDS StorageSettings

VARIABLES
  file,       \* storage.json, NoFile when there is none
  lake,       \* the data path recorded in each catalog
  userFiles,  \* some user table has data files
  systemAt,   \* where the files of each catalog's system tables are, if any
  phase,      \* what the gateway process is at
  loaded,     \* of the process: the file as it last read or wrote it,
  applied,    \*   the settings it runs on,
  trying,     \*   they are pending
  failures,   \*   failed attaches on them
  tries,    \*   failed startup attempts
  started,    \*   startup is over
  worked,     \* history: settings the gateway has been ready with
  mishaps,    \* how often something went wrong
  saves       \* how often settings were saved

process == <<loaded, applied, trying, failures, tries, started>>
data == <<lake, userFiles, systemAt>>
svars == <<file, data, phase, process, worked, mishaps, saves>>

Catalogs == {"ducklake", "_console"}
NoFiles == "none"

NewPath == PathOf[Effective(applied)]
OldPath == PathOf[loaded.switchFrom]

\* Steps of getDbInstance that await something.
Connecting == {"inventory", "recordLake", "recordConsole", "rewrite", "attach"}

StorageInit ==
  /\ file = NoFile
  /\ lake = [c \in Catalogs |-> PathOf[Env]]
  /\ userFiles \in BOOLEAN
  /\ systemAt \in [Catalogs -> {NoFiles, PathOf[Env]}]
  /\ phase = "down"
  /\ loaded = NoFile /\ applied = NoSettings /\ trying = FALSE
  /\ failures = 0 /\ tries = 0 /\ started = FALSE
  /\ worked = {Env}
  /\ mishaps = 0 /\ saves = 0

\* The catalog has a new path that no start has confirmed yet.
Moved ==
  /\ file.pending /\ file.switchFrom # NoSettings
  /\ \E c \in Catalogs : lake[c] # PathOf[file.switchFrom]

\* One more thing may go wrong, after "spent" in the same step.
May(kind, spent) ==
  /\ kind \in Mishaps
  /\ mishaps + spent < MaxMishaps
  /\ Moved => "moved" \in Mishaps

Spend(n) == mishaps' = mishaps + n

----------------------------------------------------------------------------
(* Attaching *)

\* writeStorageFile, whose errors its callers here log only.
Write(doc, spent) ==
  \/ file' = doc /\ loaded' = doc /\ Spend(spent)
  \/ May("write", spent) /\ UNCHANGED <<file, loaded>> /\ Spend(spent + 1)

\* Mutant: failures are forgotten between attempts.
FailedUncounted(fatal, spent) ==
  /\ tries' = IF started THEN tries ELSE tries + 1
  /\ phase' = IF ~started /\ tries + 1 >= StartupAttempts THEN "exiting" ELSE "start"
  /\ Spend(spent)
  /\ UNCHANGED <<file, loaded, trying, failures, data, applied, started, worked, saves>>

\* An attach failed.  On pending settings it counts: at the limit, or at once
\* when fatal, the previous settings are written back and the process exits.
\* The startup sequence tries again, StartupAttempts times in all.
Failed(fatal, spent) ==
  LET reverts == trying /\ (fatal \/ failures + 1 >= PendingAttempts) IN
  /\ failures' = IF trying THEN failures + 1 ELSE failures
  /\ tries' = IF started THEN tries ELSE tries + 1
  /\ phase' = IF reverts \/ (~started /\ tries + 1 >= StartupAttempts)
              THEN "exiting" ELSE "start"
  /\ IF reverts
     THEN Write(RevertedDoc(loaded), spent) /\ trying' = FALSE
     ELSE Spend(spent) /\ UNCHANGED <<file, loaded, trying>>
  /\ UNCHANGED <<data, applied, started, worked, saves>>

\* pendingSwitch, and the paths differ.
Switching == trying /\ loaded.switchFrom # NoSettings /\ OldPath # NewPath

\* A call of getDbInstance finds no instance.
Connect ==
  /\ phase = "start"
  /\ phase' = IF Switching THEN "inventory" ELSE "attach"
  /\ UNCHANGED <<file, data, process, worked, mishaps, saves>>

\* Mutant: user tables with files do not block.
InventoryUnchecked ==
  /\ phase = "inventory"
  /\ IF \E c \in Catalogs : lake[c] # OldPath
     THEN Failed(FALSE, 0)
     ELSE phase' = "recordLake"
          /\ UNCHANGED <<file, data, process, worked, mishaps, saves>>

\* Both catalogs are attached at the old path; user tables with data files
\* refuse the move.  The rows of system tables with files are kept in memory.
Inventory ==
  /\ phase = "inventory"
  /\ \/ (\E c \in Catalogs : lake[c] # OldPath) /\ Failed(FALSE, 0)
     \/ (\A c \in Catalogs : lake[c] = OldPath) /\ userFiles /\ Failed(TRUE, 0)
     \/ /\ (\A c \in Catalogs : lake[c] = OldPath) /\ ~userFiles
        /\ phase' = "recordLake"
        /\ UNCHANGED <<file, data, process, worked, mishaps, saves>>

\* A catalog is attached with OVERRIDE_DATA_PATH and records the new path.
Record(c, label, then) ==
  /\ phase = label
  /\ lake' = [lake EXCEPT ![c] = NewPath]
  /\ phase' = then
  /\ UNCHANGED <<file, userFiles, systemAt, process, worked, mishaps, saves>>

Behind == {c \in Catalogs : systemAt[c] \notin {NoFiles, NewPath}}

\* Mutant: the console's own catalog is forgotten.
RewriteLakeOnly ==
  /\ phase = "rewrite"
  /\ IF "ducklake" \in Behind
     THEN systemAt' = [systemAt EXCEPT !["ducklake"] = NewPath] /\ UNCHANGED phase
     ELSE phase' = "attach" /\ UNCHANGED systemAt
  /\ UNCHANGED <<file, lake, userFiles, process, worked, mishaps, saves>>

\* The system tables of one catalog are dropped and created again at the new
\* path; in the end older snapshots are expired and the catalogs detached.
Rewrite ==
  /\ phase = "rewrite"
  /\ \/ \E c \in Behind :
          systemAt' = [systemAt EXCEPT ![c] = NewPath] /\ UNCHANGED phase
     \/ Behind = {} /\ phase' = "attach" /\ UNCHANGED systemAt
  /\ UNCHANGED <<file, lake, userFiles, process, worked, mishaps, saves>>

\* Mutant: whatever the process last wrote is confirmed, tried or not.
ConfirmSaved ==
  IF loaded.pending
  THEN Write(ConfirmedDoc(loaded), 0) /\ trying' = FALSE
  ELSE UNCHANGED <<file, loaded, trying, mishaps>>

\* confirmStorageConfig.
Confirm ==
  IF trying
  THEN Write(ConfirmedDoc(loaded), 0) /\ trying' = FALSE
  ELSE UNCHANGED <<file, loaded, trying, mishaps>>

\* _attachDuckLake, and the settings are confirmed in the same turn.
AttachLake ==
  /\ phase = "attach"
  /\ \A c \in Catalogs : lake[c] = NewPath
  /\ Effective(applied) \notin Broken
  /\ Confirm
  /\ phase' = "ready"
  /\ tries' = 0 /\ started' = TRUE
  /\ worked' = worked \cup {Effective(applied)}
  /\ UNCHANGED <<data, applied, failures, saves>>

AttachRejected ==
  /\ phase = "attach"
  /\ Effective(applied) \in Broken \/ \E c \in Catalogs : lake[c] # NewPath
  /\ Failed(FALSE, 0)

\* Any await on the way rejects.
StepFails ==
  /\ phase \in Connecting
  /\ May("attach", 0)
  /\ Failed(FALSE, 1)

----------------------------------------------------------------------------
(* The process *)

\* applyStorageConfigFile, when db.js is imported.
Boot ==
  /\ phase = "down"
  /\ phase' = "start"
  /\ loaded' = file /\ applied' = file.settings /\ trying' = file.pending
  /\ failures' = 0
  /\ UNCHANGED <<file, data, tries, started, worked, mishaps, saves>>

\* Nothing of the process is left.
Gone ==
  /\ phase' = "down"
  /\ loaded' = NoFile /\ applied' = NoSettings /\ trying' = FALSE
  /\ failures' = 0 /\ tries' = 0 /\ started' = FALSE
  /\ UNCHANGED <<file, data, worked, saves>>

\* The process exits because of the above, or an operator restarts it.
Exit == phase \in {"exiting", "ready"} /\ Gone /\ UNCHANGED mishaps

Crash == phase # "down" /\ May("crash", 0) /\ Gone /\ Spend(1)

\* A fatal error invalidates the primary instance: the next call attaches
\* again.
Invalidated ==
  /\ phase = "ready"
  /\ phase' = "start"
  /\ UNCHANGED <<file, data, process, worked, mishaps, saves>>

\* saveStorage: a new data path only while no user table has data files.  The
\* process goes on with the settings it has, or exits to be restarted.
Save(s) ==
  LET moving == PathOf[s] # PathOf[Effective(applied)] IN
  /\ phase = "ready"
  /\ saves < MaxSaves
  /\ s # Effective(applied)
  /\ moving => ~userFiles
  /\ moving /\ s \in Broken => "moved" \in Mishaps
  /\ file' = SavedDoc(s, applied) /\ loaded' = file'
  /\ phase' \in {"ready", "exiting"}
  /\ saves' = saves + 1
  /\ UNCHANGED <<data, applied, trying, failures, tries, started, worked, mishaps>>

\* Clients fill and drop tables.
UserTables ==
  /\ phase = "ready"
  /\ userFiles' = ~userFiles
  /\ UNCHANGED <<file, lake, systemAt, phase, process, worked, mishaps, saves>>

ProcessStep ==
  \/ Connect \/ Inventory
  \/ Record("ducklake", "recordLake", "recordConsole")
  \/ Record("_console", "recordConsole", "rewrite")
  \/ Rewrite \/ AttachLake \/ AttachRejected

StorageNext ==
  \/ ProcessStep \/ StepFails \/ Boot \/ Exit \/ Crash \/ Invalidated
  \/ \E s \in Settings : Save(s)
  \/ UserTables

\* Database calls return, and a supervisor ends and starts the process.
StorageFairness ==
  /\ WF_svars(ProcessStep)
  /\ WF_svars(Boot)
  /\ WF_svars(phase = "exiting" /\ Exit)

StorageSpec == StorageInit /\ [][StorageNext]_svars
FairStorageSpec == StorageSpec /\ StorageFairness

----------------------------------------------------------------------------
(* Properties *)

StorageTypeOK ==
  /\ file \in Docs
  /\ lake \in [Catalogs -> Paths]
  /\ userFiles \in BOOLEAN
  /\ systemAt \in [Catalogs -> Paths \cup {NoFiles}]
  /\ phase \in Connecting \cup {"down", "start", "ready", "exiting"}
  /\ loaded \in Docs /\ applied \in MaybeSettings /\ trying \in BOOLEAN
  /\ failures \in Nat /\ tries \in Nat /\ started \in BOOLEAN
  /\ worked \subseteq Settings
  /\ mishaps \in Nat /\ saves \in Nat

\* Settings are left for good only when a gateway has been ready with them,
\* confirmed by the start that tried them or restored: never new ones, though
\* a process that saved them re-attaches on the old ones meanwhile.
SettledWorked == ~file.pending => Effective(file.settings) \in worked

\* The settings left for good open the lake: both catalogs record their path.
SettledMatchLake ==
  ~file.pending => \A c \in Catalogs : lake[c] = PathOf[Effective(file.settings)]

\* A lake never moves away from data files of user tables, those written
\* after the console allowed the move included.
UserFilesKept == [][userFiles => lake' = lake]_svars

\* A ready gateway finds the files of its system tables where its catalogs
\* say they are, after any moves.
SystemFilesFound ==
  phase = "ready" => \A c \in Catalogs : systemAt[c] \in {NoFiles, lake[c]}

\* Settings that are left for good worked, open the lake, and find its files.
StorageSafe == SettledWorked /\ SettledMatchLake /\ SystemFilesFound

\* "A bad setting cannot lock the gateway out": whatever is saved, tried and
\* reverted, the gateway is ready again.
NotLockedOut == (phase # "ready") ~> (phase = "ready")
============================================================================
