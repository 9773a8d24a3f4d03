--------------------------- MODULE ConsoleSettings ---------------------------
(***************************************************************************)
(* Settings kept in the console's database and shared by all gateways:     *)
(* src/console/store.js, src/console/index.js, src/rbac.js.  A gateway     *)
(* holds the overrides it read in memory; the environment it was started   *)
(* with counts where there is none.  The setting here is API_KEYS, whose   *)
(* keys are also rows of _rbac_users; the session secret is another row    *)
(* written in the same way.                                                *)
(*                                                                         *)
(* Bounds: MaxTurns changes, deaths and failures, MaxRestarts of them      *)
(* deaths or failures.                                                     *)
(***************************************************************************)
EXTENDS Integers, FiniteSets

CONSTANTS
  SettingHosts,   \* gateways
  AdminHosts,     \* those an administrator changes settings on
  Keys,           \* API keys
  EnvKeys,        \* API_KEYS of docker/.env, the same on every gateway
  NoValue,        \* no override, no secret
  MaxTurns, MaxRestarts

ASSUME SettingsAssumption ==
  /\ EnvKeys \in (SUBSET Keys) \ {{}} /\ AdminHosts \subseteq SettingHosts
  /\ NoValue \notin SettingHosts
  /\ MaxTurns \in Nat /\ MaxRestarts \in Nat

VARIABLES
  stored,     \* rows of API_KEYS in the settings table
  active,     \* keys with an active row in _rbac_users
  secrets,    \* rows of the session secret
  memory,     \* per gateway: its override
  fetched,    \* per gateway: what a refresh read and has not applied
  stage,      \* per gateway: how far it has started
  secret,     \* per gateway: the session secret it signs with
  change,     \* per gateway: the change being made
  changesMade, restarts,
  clean       \* nothing failed, and no start or refresh overlapped a change

cvars == <<stored, active, secrets, memory, fetched, stage, secret, change,
           changesMade, restarts, clean>>

\* currentApiKeys: the list as a gateway sees it.
ListAt(m) == IF m = NoValue THEN EnvKeys ELSE m
StoredValues == IF stored = {} THEN {NoValue} ELSE stored

\* Bound.
MoreTurns == changesMade + restarts < MaxTurns

NoChange == [step |-> "none", to |-> EnvKeys, before |-> EnvKeys]

SettingsInit ==
  /\ stored = {} /\ active = {} /\ secrets = {}
  /\ memory = [h \in SettingHosts |-> NoValue]
  /\ fetched = [h \in SettingHosts |-> {}]
  /\ stage = [h \in SettingHosts |-> "down"]
  /\ secret = [h \in SettingHosts |-> NoValue]
  /\ change = [h \in SettingHosts |-> NoChange]
  /\ changesMade = 0 /\ restarts = 0 /\ clean = TRUE

Stages == <<"down", "loaded", "promoted", "secret", "deleted", "inserted", "up">>
Changing == {h \in SettingHosts : change[h].step # "none"}
-----------------------------------------------------------------------------
(* A gateway starts. *)

\* loadSettingOverrides, before the bootstrap promotes the keys.
LoadOverrides(h) ==
  /\ stage[h] = "down"
  /\ stage' = [stage EXCEPT ![h] = "loaded"]
  /\ \E v \in StoredValues : memory' = [memory EXCEPT ![h] = v]
  /\ clean' = (clean /\ Changing = {})
  /\ UNCHANGED <<stored, active, secrets, fetched, secret, change, changesMade, restarts>>

\* Mutant: the keys of the environment are promoted, whatever the overrides say.
BootPromotesEnvironment(h) ==
  /\ stage[h] = "loaded"
  /\ stage' = [stage EXCEPT ![h] = "promoted"]
  /\ active' = active \cup EnvKeys
  /\ UNCHANGED <<stored, secrets, memory, fetched, secret, change, changesMade,
                 restarts, clean>>

BootPromotes(h) ==
  /\ stage[h] = "loaded"
  /\ stage' = [stage EXCEPT ![h] = "promoted"]
  /\ active' = active \cup ListAt(memory[h])
  /\ UNCHANGED <<stored, secrets, memory, fetched, secret, change, changesMade,
                 restarts, clean>>

\* getOrCreateSessionSecret: read; else delete, insert and read again.
ReadSecret(h) ==
  /\ stage[h] = "promoted"
  /\ IF secrets = {} THEN /\ stage' = [stage EXCEPT ![h] = "secret"]
                          /\ UNCHANGED secret
     ELSE /\ stage' = [stage EXCEPT ![h] = "up"]
          /\ \E s \in secrets : secret' = [secret EXCEPT ![h] = s]
  /\ UNCHANGED <<stored, active, secrets, memory, fetched, change, changesMade,
                 restarts, clean>>

DeleteSecret(h) ==
  /\ stage[h] = "secret"
  /\ stage' = [stage EXCEPT ![h] = "deleted"]
  /\ secrets' = {}
  /\ UNCHANGED <<stored, active, memory, fetched, secret, change, changesMade,
                 restarts, clean>>

InsertSecret(h) ==
  /\ stage[h] = "deleted"
  /\ stage' = [stage EXCEPT ![h] = "inserted"]
  /\ secrets' = secrets \cup {h}
  /\ secret' = [secret EXCEPT ![h] = h]
  /\ UNCHANGED <<stored, active, memory, fetched, change, changesMade, restarts, clean>>

RereadSecret(h) ==
  /\ stage[h] = "inserted"
  /\ stage' = [stage EXCEPT ![h] = "up"]
  /\ IF secrets = {} THEN UNCHANGED secret
     ELSE \E s \in secrets : secret' = [secret EXCEPT ![h] = s]
  /\ UNCHANGED <<stored, active, secrets, memory, fetched, change, changesMade,
                 restarts, clean>>

\* A process dies, wherever it is.
Restart(h) ==
  /\ stage[h] # "down" /\ restarts < MaxRestarts /\ MoreTurns
  /\ restarts' = restarts + 1
  /\ stage' = [stage EXCEPT ![h] = "down"]
  /\ memory' = [memory EXCEPT ![h] = NoValue]
  /\ fetched' = [fetched EXCEPT ![h] = {}]
  /\ secret' = [secret EXCEPT ![h] = NoValue]
  /\ change' = [change EXCEPT ![h] = NoChange]
  /\ clean' = (clean /\ change[h].step = "none")
  /\ UNCHANGED <<stored, active, secrets, changesMade>>

\* refreshOverrides, every 30 seconds: the table is read, then its answer
\* replaces what the gateway held.
Refresh(h) ==
  /\ stage[h] = "up" /\ fetched[h] = {}
  /\ \E v \in StoredValues : fetched' = [fetched EXCEPT ![h] = {v}]
  /\ clean' = (clean /\ change[h].step = "none")
  /\ UNCHANGED <<stored, active, secrets, memory, stage, secret, change, changesMade,
                 restarts>>

ApplyRefresh(h) ==
  /\ fetched[h] # {}
  /\ \E v \in fetched[h] : memory' = [memory EXCEPT ![h] = v]
  /\ fetched' = [fetched EXCEPT ![h] = {}]
  /\ UNCHANGED <<stored, active, secrets, stage, secret, change, changesMade,
                 restarts, clean>>
-----------------------------------------------------------------------------
(* An administrator changes the list. *)

\* A key is added or revoked, or the list goes back to the environment's
\* (to = NoValue).  The last key is not revoked.
StartChange(h, to) ==
  /\ h \in AdminHosts /\ stage[h] = "up" /\ change[h].step = "none"
  /\ MoreTurns
  /\ changesMade' = changesMade + 1
  /\ to = NoValue \/ \E k \in Keys : \/ to = ListAt(memory[h]) \cup {k}
                                     \/ to = ListAt(memory[h]) \ {k}
  /\ to \notin {{}, ListAt(memory[h])}
  /\ change' = [change EXCEPT ![h] =
                  [step |-> "delete", to |-> to, before |-> ListAt(memory[h])]]
  /\ clean' = (clean /\ fetched[h] = {} /\ \A g \in SettingHosts : stage[g] # "loaded")
  /\ UNCHANGED <<stored, active, secrets, memory, fetched, stage, secret, restarts>>

Moves(h, step) == change' = [change EXCEPT ![h].step = step]

\* writeRawSetting and clearOverride: the row is deleted, then written anew.
DeleteSetting(h) ==
  /\ change[h].step = "delete"
  /\ stored' = {}
  /\ IF change[h].to = NoValue
     THEN Moves(h, "removed") /\ memory' = [memory EXCEPT ![h] = NoValue]
     ELSE Moves(h, "insert") /\ UNCHANGED memory
  /\ UNCHANGED <<active, secrets, fetched, stage, secret, changesMade, restarts, clean>>

InsertSetting(h) ==
  /\ change[h].step = "insert"
  /\ stored' = stored \cup {change[h].to}
  /\ memory' = [memory EXCEPT ![h] = change[h].to]
  /\ Moves(h, "removed")
  /\ UNCHANGED <<active, secrets, fetched, stage, secret, changesMade, restarts, clean>>

\* syncLegacyApiKeys: keys taken off the list are deactivated, then those on
\* it promoted.
DeactivateRemoved(h) ==
  /\ change[h].step = "removed"
  /\ active' = active \ (change[h].before \ ListAt(change[h].to))
  /\ Moves(h, "promote")
  /\ UNCHANGED <<stored, secrets, memory, fetched, stage, secret, changesMade,
                 restarts, clean>>

PromoteListed(h) ==
  /\ change[h].step = "promote"
  /\ active' = active \cup ListAt(change[h].to)
  /\ change' = [change EXCEPT ![h] = NoChange]
  /\ UNCHANGED <<stored, secrets, memory, fetched, stage, secret, changesMade,
                 restarts, clean>>

\* A statement of the change throws; the request ends there.
ChangeFails(h) ==
  /\ change[h].step # "none" /\ restarts < MaxRestarts /\ MoreTurns
  /\ restarts' = restarts + 1
  /\ change' = [change EXCEPT ![h] = NoChange]
  /\ clean' = FALSE
  /\ UNCHANGED <<stored, active, secrets, memory, fetched, stage, secret, changesMade>>

StartupStep(h) == \/ LoadOverrides(h) \/ BootPromotes(h) \/ ReadSecret(h)
                  \/ DeleteSecret(h) \/ InsertSecret(h) \/ RereadSecret(h)
ChangeStep(h) == \/ DeleteSetting(h) \/ InsertSetting(h) \/ DeactivateRemoved(h)
                 \/ PromoteListed(h)
RefreshStep(h) == Refresh(h) \/ ApplyRefresh(h)

SettingsNext ==
  \E h \in SettingHosts :
    \/ StartupStep(h) \/ RefreshStep(h) \/ ChangeStep(h)
    \/ \E to \in (SUBSET Keys) \cup {NoValue} : StartChange(h, to)
    \/ Restart(h) \/ ChangeFails(h)

SettingsFairness ==
  \A h \in SettingHosts : /\ WF_cvars(StartupStep(h)) /\ WF_cvars(ChangeStep(h))
                          /\ WF_cvars(Refresh(h)) /\ WF_cvars(ApplyRefresh(h))

SettingsSpec == SettingsInit /\ [][SettingsNext]_cvars /\ SettingsFairness
-----------------------------------------------------------------------------
SettingsTypeOK ==
  /\ stored \subseteq SUBSET Keys /\ active \subseteq Keys
  /\ secrets \subseteq SettingHosts
  /\ \A h \in SettingHosts : memory[h] = NoValue \/ memory[h] \subseteq Keys
  /\ \A h \in SettingHosts : \E i \in DOMAIN Stages : stage[h] = Stages[i]
  /\ secret \in [SettingHosts -> SettingHosts \cup {NoValue}]

\* Between changes that were made on one gateway and ran to their end, a key
\* is an active superuser exactly if it is on the list that is stored: it is
\* revoked by taking it off the list, and no restart brings it back.  (The
\* order of STARTUP_STEPS, loadSettingOverrides, syncLegacyApiKeys.)
KeysInStep ==
  clean /\ Changing = {} /\ (\A h \in SettingHosts : stage[h] \notin {"down", "loaded"})
    => \A v \in StoredValues : active = ListAt(v)

\* Every gateway comes to hold what is stored, also where an override was
\* cleared or a refresh had read the table before a change of its own gateway.
Converges == \A h \in SettingHosts : <>[](memory[h] \in StoredValues)

\* Gateways that have started sign sessions with the same secret
\* (getOrCreateSessionSecret).
SecretsAgree ==
  \A g, h \in SettingHosts :
    stage[g] = "up" /\ stage[h] = "up" => secret[g] = secret[h]
=============================================================================
