-------------------------- MODULE StorageSettings --------------------------
(***************************************************************************)
(* The storage settings file of the console's Storage page                 *)
(* (src/storage-config.js): the documents that saving, confirming and      *)
(* reverting write.  A setting map is abstracted to a value of Settings;   *)
(* what matters of it is the data path and whether the lake opens with it. *)
(***************************************************************************)
EXTENDS Integers

CONSTANTS
  Settings,        \* complete setting maps
  Env,             \* the one docker/.env gives
  NoSettings,      \* {} or null
  PathOf,          \* DUCKLAKE_DATA_PATH of each
  Broken,          \* settings that pass the console's test, yet never attach
  PendingAttempts, \* PENDING_ATTEMPTS
  StartupAttempts, \* STARTUP_ATTEMPTS
  Mishaps,         \* what may go wrong, see MishapKinds
  MaxMishaps,      \* bound: how often
  MaxSaves         \* bound: how often settings are saved

\* "attach": a step of the switch or of attaching fails; "crash": the process
\* dies; "write": the settings file cannot be written; "moved": all this, and
\* a broken setting, also while the lake is moved and not yet confirmed.
MishapKinds == {"attach", "crash", "write", "moved"}

ASSUME SettingsAssumption ==
  /\ Env \in Settings \ Broken
  /\ NoSettings \notin Settings
  /\ Broken \subseteq Settings
  /\ PendingAttempts \in Nat \ {0}
  /\ StartupAttempts \in Nat \ {0}
  /\ Mishaps \subseteq MishapKinds
  /\ MaxMishaps \in Nat /\ MaxSaves \in Nat

Paths == {PathOf[s] : s \in Settings}

MaybeSettings == Settings \cup {NoSettings}

Docs == [settings : MaybeSettings, pending : BOOLEAN,
         previous : MaybeSettings, switchFrom : MaybeSettings]

\* No file: nothing is applied.
NoFile == [settings |-> NoSettings, pending |-> FALSE,
           previous |-> NoSettings, switchFrom |-> NoSettings]

\* setEnv: without saved settings those of docker/.env count.
Effective(applied) == IF applied = NoSettings THEN Env ELSE applied

\* Mutant: of the settings in effect only the path is kept.
SavedPathOnly(s, applied) ==
  [settings |-> s, pending |-> TRUE, previous |-> applied,
   switchFrom |-> IF PathOf[s] # PathOf[Effective(applied)]
                  THEN PathOf[Effective(applied)] ELSE NoSettings]

\* saveStorageConfig, in a process that runs on "applied"; switchFrom holds
\* the settings in effect when the data path changes.
SavedDoc(s, applied) ==
  [settings |-> s, pending |-> TRUE, previous |-> applied,
   switchFrom |-> IF PathOf[s] # PathOf[Effective(applied)]
                  THEN Effective(applied) ELSE NoSettings]

ConfirmedDoc(doc) == [doc EXCEPT !.pending = FALSE, !.switchFrom = NoSettings]

\* Mutant: nothing is restored, docker/.env applies again.
RevertedToEnv(doc) == NoFile

\* revertStorageConfig.
RevertedDoc(doc) == [NoFile EXCEPT !.settings = doc.previous]
============================================================================
