---------------------------- MODULE LakeHistory ----------------------------
(***************************************************************************)
(* Snapshots and data files of the lake under maintenance: what writers    *)
(* commit, what runMaintenance and reclaimTableStorage (src/db.js) rewrite, *)
(* expire and delete, and the setting that says how long history is kept   *)
(* (src/console/registry.js).  A snapshot is the set of its data files.    *)
(* External: DuckLake keeps the newest snapshot, schedules the files no    *)
(* snapshot names for deletion, and takes a file that no snapshot names    *)
(* and that was never scheduled for an orphan.                             *)
(***************************************************************************)
EXTENDS Integers

CONSTANTS Unset,          \* no SNAPSHOT_RETENTION_DAYS
          Grace,          \* FILE_CLEANUP_GRACE_MINUTES
          DataFiles,      \* bound: data files ever written
          EndOfHistory    \* bound: the last moment

ASSUME HistoryAssumption == Grace \in Nat \ {0} /\ EndOfHistory \in Nat

VARIABLES moment,
          field,     \* what the administrator left in the field: "", or a number
          days,      \* SNAPSHOT_RETENTION_DAYS of the process, in moments, or Unset
          history,   \* the snapshots: [at, files]
          files,     \* data files in storage
          born,      \* file -> the moment it was written
          doomed,    \* file -> the moment it was scheduled for deletion, or -1
          writing,   \* files written by transactions under way
          reading    \* [since, files] of the queries under way

historyVars == <<moment, field, days, history, files, born, doomed, writing, reading>>

Empty == -1   \* the field's text is ""

HistoryTypeOK ==
    /\ moment \in 0 .. EndOfHistory
    /\ field \in {Empty, 0, 1} /\ days \in {Unset, 0, 1}
    /\ \A s \in history : s.at \in 0 .. EndOfHistory /\ s.files \subseteq DataFiles
    /\ files \subseteq DataFiles /\ writing \subseteq DataFiles
    /\ born \in [DataFiles -> 0 .. EndOfHistory]
    /\ doomed \in [DataFiles -> -1 .. EndOfHistory]
    /\ \A r \in reading : r.since \in 0 .. EndOfHistory /\ r.files \subseteq DataFiles

HistoryInit ==
    /\ moment = 0 /\ field = Empty /\ days = Unset
    /\ history = {[at |-> 0, nr |-> 0, files |-> {}]}
    /\ files = {} /\ writing = {} /\ reading = {}
    /\ born = [f \in DataFiles |-> 0] /\ doomed = [f \in DataFiles |-> -1]

Newest == CHOOSE s \in history : \A t \in history : t.nr <= s.nr
Commits(fs) == history' = history \cup {[at |-> moment, nr |-> Newest.nr + 1, files |-> fs]}
Unused(f) == f \notin files /\ born[f] = 0 /\ doomed[f] = -1
                /\ \A s \in history : f \notin s.files

-----------------------------------------------------------------------------
(* Writers and queries.                                                    *)

WriteFile(f) ==
    /\ Unused(f)
    /\ files' = files \cup {f} /\ born' = [born EXCEPT ![f] = moment]
    /\ writing' = writing \cup {f}
    /\ UNCHANGED <<moment, field, days, history, doomed, reading>>

CommitFile(f) ==
    /\ f \in writing
    /\ writing' = writing \ {f}
    /\ Commits(Newest.files \cup {f})
    /\ UNCHANGED <<moment, field, days, files, born, doomed, reading>>

BeginQuery ==
    /\ reading = {}
    /\ reading' = {[since |-> moment, files |-> Newest.files]}
    /\ UNCHANGED <<moment, field, days, history, files, born, doomed, writing>>

EndQuery(r) ==
    /\ reading' = reading \ {r}
    /\ UNCHANGED <<moment, field, days, history, files, born, doomed, writing>>

-----------------------------------------------------------------------------
(* Maintenance.                                                            *)

\* ducklake_merge_adjacent_files, ducklake_rewrite_data_files: one new file
Rewrite(old, f) ==
    /\ old \in (SUBSET Newest.files) \ {{}} /\ Unused(f)
    /\ files' = files \cup {f} /\ born' = [born EXCEPT ![f] = moment]
    /\ Commits((Newest.files \ old) \cup {f})
    /\ UNCHANGED <<moment, field, days, doomed, writing, reading>>

\* snapshotRetentionDays, read at the step; the call is left out when it is unset
Expire ==
    /\ days # Unset
    /\ LET old == {s \in history \ {Newest} : s.at <= moment - days}
           kept == UNION {s.files : s \in history \ old}
           freed == (UNION {s.files : s \in old}) \ kept
       IN  /\ old # {}
           /\ history' = history \ old
           /\ doomed' = [f \in DataFiles |-> IF f \in freed THEN moment ELSE doomed[f]]
    /\ UNCHANGED <<moment, field, days, files, born, writing, reading>>

\* Mutant: files are deleted as soon as they are scheduled.
OlderThanNothing(t) == t >= 0

Older(t) == t >= 0 /\ t <= moment - Grace

\* ducklake_cleanup_old_files and ducklake_delete_orphaned_files, also the
\* deferred clean-up of reclaimTableStorage
Cleanup ==
    /\ LET named == UNION {s.files : s \in history}
           old == {f \in files : Older(doomed[f])}
           orphans == {f \in files \ named : doomed[f] = -1 /\ Older(born[f])}
       IN  old \cup orphans # {} /\ files' = files \ (old \cup orphans)
    /\ UNCHANGED <<moment, field, days, history, born, doomed, writing, reading>>

-----------------------------------------------------------------------------
(* The setting: PUT /settings/SNAPSHOT_RETENTION_DAYS sends the field's    *)
(* text; normaliseSettingValue makes a number of it, and Number("") is 0.  *)

normaliseSettingValue(text) == IF text = Empty THEN 0 ELSE text

SaveRetention(text) ==
    /\ field' = text
    /\ days' = normaliseSettingValue(text)
    /\ UNCHANGED <<moment, history, files, born, doomed, writing, reading>>

\* DELETE /settings/SNAPSHOT_RETENTION_DAYS: back to the environment's
ResetRetention ==
    /\ field' = Empty /\ days' = Unset
    /\ UNCHANGED <<moment, history, files, born, doomed, writing, reading>>

\* A transaction commits, and a query ends, within the grace period: a longer
\* one may lose its files to a clean-up.
HistoryTick ==
    /\ moment < EndOfHistory
    /\ \A f \in writing : moment - born[f] < Grace - 1
    /\ \A r \in reading : moment - r.since < Grace - 1
    /\ moment' = moment + 1
    /\ UNCHANGED <<field, days, history, files, born, doomed, writing, reading>>

HistoryNext ==
    \/ \E f \in DataFiles :
         \/ WriteFile(f) \/ CommitFile(f)
         \/ \E old \in SUBSET DataFiles : Rewrite(old, f)
    \/ BeginQuery \/ \E r \in reading : EndQuery(r)
    \/ Expire \/ Cleanup
    \/ \E text \in {Empty, 0, 1} : SaveRetention(text)
    \/ ResetRetention \/ HistoryTick

HistorySpec == HistoryInit /\ [][HistoryNext]_historyVars

-----------------------------------------------------------------------------
(* Whatever is rewritten, expired and cleaned up beside them, the files of *)
(* every snapshot that can still be read, of a query under way and of a    *)
(* transaction not yet committed are in storage (db.js:1040).              *)
FilesThere ==
    /\ \A s \in history : s.files \subseteq files
    /\ \A r \in reading : r.files \subseteq files
    /\ writing \subseteq files

(* "Empty: never expire (unlimited time travel, storage is not reclaimed)" *)
(* (registry.js:259): while the field is empty no snapshot goes.           *)
EmptyKeepsAll == [][field = Empty => history \subseteq history']_historyVars
=============================================================================
