------------------------ MODULE StorageSwitchProofs ------------------------
(***************************************************************************)
(* Proofs about StorageSwitch: what is settled in storage.json has worked, *)
(* a move never leaves data files of users behind, and, as long as nothing *)
(* fails between the move of the lake and its confirmation, the settled    *)
(* settings match the catalogs.  Startup: a process has each timer at most *)
(* once and a ready one has them all.                                      *)
(***************************************************************************)
EXTENDS Startup, TLAPS

LakeAt(p) == \A c \in Catalogs : lake[c] = p

\* What the process knows of the file.
Knows ==
  /\ phase # "down" => loaded = file
  /\ trying => phase # "down" /\ file.pending /\ applied = file.settings
  /\ phase = "ready" => started
  /\ phase = "down" => ~started
  /\ started => ~trying

\* Settings to fall back to have worked, and those a started process runs on.
FallsBack ==
  /\ file.pending => Effective(file.previous) \in worked
  /\ started => Effective(applied) \in worked

\* The re-check precedes the first write to a catalog.
Rechecked == phase \in {"recordLake", "recordConsole"} => ~userFiles

Worked == Knows /\ FallsBack /\ SettledWorked /\ Rechecked

\* Where the lake is while settings are pending.  Only a process that tries
\* them is at work on a lake that has moved.
Midway ==
  /\ phase \in {"inventory", "recordLake", "recordConsole", "rewrite"} => Switching
  /\ phase \in {"inventory", "start"} /\ Switching => LakeAt(OldPath)
  /\ phase = "recordLake" => LakeAt(OldPath)
  /\ phase = "recordConsole" => lake["ducklake"] = NewPath /\ lake["_console"] = OldPath
  /\ phase = "rewrite" => LakeAt(NewPath)
  /\ phase = "attach" /\ Switching => LakeAt(NewPath)

PendingMoves ==
  file.pending =>
    IF file.switchFrom = NoSettings
    THEN LakeAt(PathOf[file.settings]) /\ PathOf[Effective(file.previous)] = PathOf[file.settings]
    ELSE /\ file.switchFrom \in Settings /\ PathOf[file.switchFrom] # PathOf[file.settings]
         /\ PathOf[Effective(file.previous)] = PathOf[file.switchFrom]
         /\ file.settings \notin Broken
         /\ \/ LakeAt(PathOf[file.switchFrom])
            \/ trying /\ phase \in {"recordConsole", "rewrite", "attach"}

Where ==
  /\ file.pending => file.settings # NoSettings
  /\ Midway /\ PendingMoves /\ SettledMatchLake
  /\ started => LakeAt(NewPath)

----------------------------------------------------------------------------
(* Types *)

LEMMA EffectiveType ==
  ASSUME NEW a \in MaybeSettings
  PROVE  Effective(a) \in Settings /\ PathOf[Effective(a)] \in Paths
  BY SettingsAssumption DEF Effective, MaybeSettings, Paths

LEMMA NoFileType == NoFile \in Docs
  BY DEF NoFile, Docs, MaybeSettings

LEMMA DocTypes ==
  ASSUME NEW doc \in Docs
  PROVE  /\ ConfirmedDoc(doc) \in Docs /\ RevertedDoc(doc) \in Docs
         /\ ConfirmedDoc(doc).settings = doc.settings /\ ~ConfirmedDoc(doc).pending
         /\ RevertedDoc(doc).settings = doc.previous /\ ~RevertedDoc(doc).pending
  BY DEF ConfirmedDoc, RevertedDoc, NoFile, Docs, MaybeSettings

LEMMA SavedType ==
  ASSUME NEW s \in Settings, NEW a \in MaybeSettings
  PROVE  /\ SavedDoc(s, a) \in Docs
         /\ SavedDoc(s, a).settings = s /\ SavedDoc(s, a).pending
         /\ SavedDoc(s, a).previous = a
         /\ SavedDoc(s, a).switchFrom = IF PathOf[s] # PathOf[Effective(a)]
                                        THEN Effective(a) ELSE NoSettings
  BY EffectiveType DEF SavedDoc, Docs, MaybeSettings

\* What writing the file, or failing to, does to types.
LEMMA WriteType ==
  ASSUME StorageTypeOK, NEW doc \in Docs, NEW n \in Nat, Write(doc, n)
  PROVE  file' \in Docs /\ loaded' \in Docs /\ mishaps' \in Nat
<1>1. CASE file' = doc /\ loaded' = doc /\ Spend(n)
  BY <1>1 DEF Spend, StorageTypeOK
<1>2. CASE UNCHANGED <<file, loaded>> /\ Spend(n + 1)
  BY <1>2 DEF Spend, StorageTypeOK
<1> QED
  BY <1>1, <1>2 DEF Write

LEMMA FailedType ==
  ASSUME StorageTypeOK, NEW n \in Nat, Failed(TRUE, n) \/ Failed(FALSE, n)
  PROVE  StorageTypeOK'
<1>1. file' \in Docs /\ loaded' \in Docs /\ trying' \in BOOLEAN /\ mishaps' \in Nat
  <2>1. CASE Write(RevertedDoc(loaded), n) /\ trying' = FALSE
    <3>1. RevertedDoc(loaded) \in Docs
      BY DocTypes DEF StorageTypeOK
    <3> QED
      BY <2>1, <3>1, WriteType
  <2>2. CASE Spend(n) /\ UNCHANGED <<file, loaded, trying>>
    BY <2>2 DEF Spend, StorageTypeOK
  <2> QED
    BY <2>1, <2>2 DEF Failed
<1>2. failures' \in Nat /\ tries' \in Nat /\ phase' \in {"exiting", "start"}
  BY DEF Failed, StorageTypeOK
<1>3. UNCHANGED <<lake, userFiles, systemAt, applied, started, worked, saves>>
  BY DEF Failed, data
<1> QED
  BY <1>1, <1>2, <1>3 DEF StorageTypeOK

LEMMA InitType == StorageInit => StorageTypeOK
<1> SUFFICES ASSUME StorageInit PROVE StorageTypeOK
  OBVIOUS
<1>1. Env \in Settings /\ PathOf[Env] \in Paths /\ NoSettings \in MaybeSettings
  BY SettingsAssumption DEF Paths, MaybeSettings
<1>2. lake \in [Catalogs -> Paths] /\ systemAt \in [Catalogs -> Paths \cup {NoFiles}]
  BY <1>1 DEF StorageInit
<1> QED
  BY <1>1, <1>2, NoFileType DEF StorageInit, StorageTypeOK

LEMMA StepType == StorageTypeOK /\ [StorageNext]_svars => StorageTypeOK'
<1> SUFFICES ASSUME StorageTypeOK, [StorageNext]_svars PROVE StorageTypeOK'
  OBVIOUS
<1>0. 0 \in Nat /\ 1 \in Nat
  OBVIOUS
<1>1. CASE Connect
  BY <1>1 DEF Connect, StorageTypeOK, Connecting, data, process
<1>2. CASE Inventory
  <2>1. CASE Failed(FALSE, 0) \/ Failed(TRUE, 0)
    BY <1>0, <2>1, FailedType, Zenon
  <2>2. CASE phase' = "recordLake" /\ UNCHANGED <<file, data, process, worked, mishaps, saves>>
    BY <2>2 DEF StorageTypeOK, Connecting, data, process
  <2> QED
    BY <1>2, <2>1, <2>2 DEF Inventory
<1>3. ASSUME NEW c \in Catalogs, NEW l, NEW then \in Connecting, Record(c, l, then)
      PROVE  StorageTypeOK'
  <2>1. NewPath \in Paths
    BY EffectiveType DEF NewPath, StorageTypeOK
  <2> QED
    BY <1>3, <2>1 DEF Record, StorageTypeOK, process
<1>4. CASE Rewrite
  <2>1. NewPath \in Paths
    BY EffectiveType DEF NewPath, StorageTypeOK
  <2>2. systemAt' \in [Catalogs -> Paths \cup {NoFiles}]
    BY <1>4, <2>1 DEF Rewrite, StorageTypeOK, Behind
  <2> QED
    BY <1>4, <2>2 DEF Rewrite, StorageTypeOK, Connecting, process
<1>5. CASE AttachLake
  <2>1. file' \in Docs /\ loaded' \in Docs /\ trying' \in BOOLEAN /\ mishaps' \in Nat
    <3>1. CASE Write(ConfirmedDoc(loaded), 0) /\ trying' = FALSE
      <4>1. ConfirmedDoc(loaded) \in Docs
        BY DocTypes DEF StorageTypeOK
      <4> QED
        BY <1>0, <3>1, <4>1, WriteType, Zenon
    <3>2. CASE UNCHANGED <<file, loaded, trying, mishaps>>
      BY <3>2 DEF StorageTypeOK
    <3> QED
      BY <1>5, <3>1, <3>2 DEF AttachLake, Confirm
  <2>2. Effective(applied) \in Settings
    BY EffectiveType DEF StorageTypeOK
  <2> QED
    BY <1>5, <2>1, <2>2 DEF AttachLake, StorageTypeOK, data
<1>6. CASE AttachRejected \/ StepFails
  BY <1>0, <1>6, FailedType, Zenon DEF AttachRejected, StepFails
<1>7. CASE Boot
  BY <1>7 DEF Boot, StorageTypeOK, Docs, data
<1>8. CASE Exit \/ Crash
  <2>1. NoSettings \in MaybeSettings
    BY DEF MaybeSettings
  <2>2. Gone /\ mishaps' \in Nat
    BY <1>8 DEF Exit, Crash, Spend, StorageTypeOK
  <2> QED
    BY <2>1, <2>2, NoFileType DEF Gone, StorageTypeOK, data
<1>9. CASE Invalidated
  BY <1>9 DEF Invalidated, StorageTypeOK, data, process
<1>10. ASSUME NEW s \in Settings, Save(s) PROVE StorageTypeOK'
  <2>1. file' \in Docs /\ loaded' \in Docs
    BY <1>10, SavedType DEF Save, StorageTypeOK
  <2> QED
    BY <1>10, <2>1 DEF Save, StorageTypeOK, data
<1>11. CASE UserTables
  BY <1>11 DEF UserTables, StorageTypeOK, process
<1>12. CASE UNCHANGED svars
  BY <1>12 DEF svars, StorageTypeOK, data, process
<1> QED
  BY <1>1, <1>2, <1>3, <1>4, <1>5, <1>6, <1>7, <1>8, <1>9, <1>10, <1>11, <1>12
     DEF StorageNext, ProcessStep, Catalogs, Connecting

----------------------------------------------------------------------------
(* What is settled has worked, and user files stay *)

\* A failed attach: the previous settings are written back, or could not be,
\* or it is tried again.
LEMMA FailedFacts ==
  ASSUME NEW n, Failed(TRUE, n) \/ Failed(FALSE, n)
  PROVE  /\ phase' \in {"exiting", "start"}
         /\ UNCHANGED <<lake, userFiles, systemAt, applied, started, worked>>
         /\ \/ trying /\ ~trying' /\ file' = RevertedDoc(loaded) /\ loaded' = file'
            \/ trying /\ ~trying' /\ phase' = "exiting" /\ UNCHANGED <<file, loaded>>
            \/ UNCHANGED <<file, loaded, trying>>
  BY DEF Failed, Write, data

\* The steps at which an attach fails.
Failing ==
  /\ phase \in Connecting
  /\ \/ Failed(TRUE, 0) \/ Failed(FALSE, 0)
     \/ Failed(FALSE, 1) /\ May("attach", 0)

LEMMA FailingCases ==
  /\ AttachRejected \/ StepFails => Failing
  /\ Inventory => Failing \/ (/\ phase = "inventory" /\ phase' = "recordLake" /\ ~userFiles
                             /\ LakeAt(OldPath)
                             /\ UNCHANGED <<file, data, process, worked>>)
  BY DEF AttachRejected, StepFails, Inventory, Failing, Connecting, LakeAt

LEMMA FailingWorked ==
  ASSUME StorageTypeOK, Worked, Failing
  PROVE  Worked'
<1>1. /\ phase \in Connecting /\ phase' \in {"exiting", "start"}
      /\ UNCHANGED <<lake, userFiles, systemAt, applied, started, worked>>
      /\ \/ trying /\ ~trying' /\ file' = RevertedDoc(loaded) /\ loaded' = file'
         \/ trying /\ ~trying' /\ phase' = "exiting" /\ UNCHANGED <<file, loaded>>
         \/ UNCHANGED <<file, loaded, trying>>
  BY FailedFacts DEF Failing
<1>2. CASE trying /\ ~trying' /\ file' = RevertedDoc(loaded) /\ loaded' = file'
  <2>1. loaded = file /\ file.pending /\ file \in Docs
    BY <1>1, <1>2 DEF Worked, Knows, StorageTypeOK, Connecting
  <2>2. file'.settings = file.previous /\ ~file'.pending
    BY <1>2, <2>1, DocTypes
  <2> QED
    BY <1>1, <1>2, <2>1, <2>2
       DEF Worked, Knows, FallsBack, SettledWorked, Rechecked, Connecting, Effective
<1>3. CASE /\ UNCHANGED <<file, loaded>>
           /\ (trying /\ ~trying') \/ UNCHANGED trying
  BY <1>1, <1>3 DEF Worked, Knows, FallsBack, SettledWorked, Rechecked, Connecting, Effective
<1> QED
  BY <1>1, <1>2, <1>3

LEMMA WorkedInit == StorageInit => Worked
  BY DEF StorageInit, Worked, Knows, FallsBack, SettledWorked, Rechecked, NoFile, Effective

LEMMA WorkedStep ==
  StorageTypeOK /\ Worked /\ [StorageNext]_svars => Worked'
<1> SUFFICES ASSUME StorageTypeOK, Worked, [StorageNext]_svars PROVE Worked'
  OBVIOUS
<1> USE DEF Worked, Knows, FallsBack, SettledWorked, Rechecked, Effective
<1>1. CASE Connect
  BY <1>1 DEF Connect, data, process
<1>2. CASE Inventory
  BY <1>2, FailingCases, FailingWorked DEF data, process
<1>3. CASE Record("ducklake", "recordLake", "recordConsole")
  BY <1>3 DEF Record, data, process
<1>4. CASE Record("_console", "recordConsole", "rewrite")
  BY <1>4 DEF Record, data, process
<1>5. CASE Rewrite
  BY <1>5 DEF Rewrite, data, process
<1>6. CASE AttachLake
  <2>1. phase = "attach" /\ phase' = "ready" /\ started' /\ UNCHANGED <<applied, userFiles>>
        /\ worked' = worked \cup {Effective(applied)} /\ loaded = file /\ file \in Docs
    BY <1>6 DEF AttachLake, data, StorageTypeOK
  <2>2. CASE trying /\ ~trying' /\ file' = ConfirmedDoc(loaded) /\ loaded' = file'
    <3>1. file'.settings = applied /\ ~file'.pending
      BY <2>1, <2>2, DocTypes
    <3> QED
      BY <2>1, <2>2, <3>1
  <2>3. CASE UNCHANGED <<file, loaded>> /\ ~trying'
    BY <2>1, <2>3
  <2> QED
    BY <1>6, <2>1, <2>2, <2>3 DEF AttachLake, Confirm, Write, StorageTypeOK
<1>7. CASE AttachRejected \/ StepFails
  BY <1>7, FailingCases, FailingWorked
<1>8. CASE Boot
  BY <1>8 DEF Boot, data, StorageTypeOK, Docs
<1>9. CASE Exit \/ Crash
  BY <1>9 DEF Exit, Crash, Gone
<1>10. CASE Invalidated
  BY <1>10 DEF Invalidated, process
<1>11. ASSUME NEW s \in Settings, Save(s) PROVE Worked'
  <2>1. /\ file'.pending /\ file'.previous = applied /\ loaded' = file'
        /\ phase = "ready" /\ phase' \in {"ready", "exiting"}
        /\ UNCHANGED <<applied, trying, started, worked, userFiles>>
    BY <1>11, SavedType DEF Save, data, StorageTypeOK
  <2> QED
    BY <2>1
<1>12. CASE UserTables
  BY <1>12 DEF UserTables, process
<1>13. CASE UNCHANGED svars
  BY <1>13 DEF svars, data, process
<1> QED
  BY <1>1, <1>2, <1>3, <1>4, <1>5, <1>6, <1>7, <1>8, <1>9, <1>10, <1>11, <1>12, <1>13
     DEF StorageNext, ProcessStep

\* The types hold (StorageTypeOK) for all settings, limits and mishaps.
THEOREM StorageTypeCorrect == StorageSpec => []StorageTypeOK
  BY InitType, StepType, PTL DEF StorageSpec

LEMMA WInvHolds == StorageSpec => [](StorageTypeOK /\ Worked)
<1>1. StorageInit => StorageTypeOK /\ Worked
  BY InitType, WorkedInit
<1>2. (StorageTypeOK /\ Worked) /\ [StorageNext]_svars => (StorageTypeOK /\ Worked)'
  BY StepType, WorkedStep
<1> QED
  BY <1>1, <1>2, PTL DEF StorageSpec

\* Settings that are not pending have worked, whatever fails, dies or cannot
\* be written (SettledWorked; confirm and revert of src/storage-config.js).
THEOREM OnlyWorkingSettled == StorageSpec => []SettledWorked
<1>1. StorageTypeOK /\ Worked => SettledWorked
  BY DEF Worked
<1> QED
  BY <1>1, WInvHolds, PTL

\* While a user table has data files no catalog changes its data path, at any
\* point of the switch (UserFilesKept; runPendingStorageSwitch of src/db.js).
THEOREM UserFilesNeverLeft == StorageSpec => UserFilesKept
<1>1. Worked /\ [StorageNext]_svars => [userFiles => lake' = lake]_svars
  <2> SUFFICES ASSUME Worked, StorageNext, userFiles PROVE lake' = lake
    OBVIOUS
  <2>1. ~Record("ducklake", "recordLake", "recordConsole")
        /\ ~Record("_console", "recordConsole", "rewrite")
    BY DEF Worked, Rechecked, Record
  <2>2. CASE Failing
    BY <2>2, FailedFacts DEF Failing
  <2>3. CASE Connect \/ Rewrite \/ AttachLake \/ Boot \/ Exit \/ Crash \/ Invalidated \/ UserTables
    BY <2>3 DEF Connect, Rewrite, AttachLake, Boot, Exit, Crash, Gone, Invalidated, UserTables, data
  <2>4. ASSUME NEW s \in Settings, Save(s) PROVE lake' = lake
    BY <2>4 DEF Save, data
  <2> QED
    BY <2>1, <2>2, <2>3, <2>4, FailingCases DEF StorageNext, ProcessStep, data
<1>2. [](StorageTypeOK /\ Worked) /\ [][StorageNext]_svars => [][userFiles => lake' = lake]_svars
  BY <1>1, PTL
<1> QED
  BY <1>2, WInvHolds, PTL DEF StorageSpec, UserFilesKept

----------------------------------------------------------------------------
(* Settled settings match the lake, unless something fails after a move *)

IInv == StorageTypeOK /\ Worked /\ Where

\* Pending settings whose move has not begun, or that move nothing.
Unmoved ==
  file.pending /\ file.switchFrom # NoSettings => LakeAt(PathOf[file.switchFrom])

LEMMA UnmovedWhenMay ==
  ASSUME "moved" \notin Mishaps, NEW k, NEW n, May(k, n)
  PROVE  Unmoved
  BY DEF May, Moved, Unmoved, LakeAt

LEMMA WhereInit == StorageInit => Where
<1> SUFFICES ASSUME StorageInit PROVE Where
  OBVIOUS
<1>1. LakeAt(PathOf[Env]) /\ ~file.pending /\ Effective(file.settings) = Env
  BY DEF StorageInit, LakeAt, NoFile, Effective
<1> QED
  BY <1>1 DEF StorageInit, Where, Midway, PendingMoves, SettledMatchLake, LakeAt

LEMMA FailingUnmoved ==
  ASSUME "moved" \notin Mishaps, IInv,
         AttachRejected \/ StepFails \/ (Inventory /\ Failing)
  PROVE  Unmoved
<1>1. loaded = file
  BY DEF IInv, Worked, Knows, AttachRejected, StepFails, Inventory, Connecting
<1>2. CASE StepFails
  BY <1>2, UnmovedWhenMay DEF StepFails
<1>3. CASE phase = "inventory"
  BY <1>1, <1>3 DEF IInv, Where, Midway, OldPath, Unmoved
<1>4. CASE AttachRejected
  <2> SUFFICES ASSUME file.pending, file.switchFrom # NoSettings
               PROVE  LakeAt(PathOf[file.switchFrom])
    BY DEF Unmoved
  <2>1. /\ PathOf[file.switchFrom] # PathOf[file.settings] /\ file.settings \notin Broken
        /\ file.settings # NoSettings
        /\ LakeAt(PathOf[file.switchFrom]) \/ trying
    BY DEF IInv, Where, PendingMoves
  <2>2. CASE trying
    <3>1. Effective(applied) = file.settings /\ Switching
      BY <1>1, <2>1, <2>2 DEF IInv, Worked, Knows, Effective, Switching, OldPath, NewPath
    <3>2. LakeAt(NewPath) /\ Effective(applied) \notin Broken
      BY <1>4, <2>1, <3>1 DEF IInv, Where, Midway, AttachRejected
    <3> QED
      BY <1>4, <3>2 DEF AttachRejected, LakeAt
  <2> QED
    BY <2>1, <2>2
<1> QED
  BY <1>2, <1>3, <1>4 DEF Inventory

LEMMA FailingWhere ==
  ASSUME IInv, Unmoved, Failing
  PROVE  Where'
<1>1. /\ phase \in Connecting /\ phase' \in {"exiting", "start"}
      /\ UNCHANGED <<lake, userFiles, systemAt, applied, started, worked>>
      /\ \/ trying /\ ~trying' /\ file' = RevertedDoc(loaded) /\ loaded' = file'
         \/ trying /\ ~trying' /\ phase' = "exiting" /\ UNCHANGED <<file, loaded>>
         \/ UNCHANGED <<file, loaded, trying>>
  BY FailedFacts DEF Failing
<1>2. loaded = file /\ file \in Docs
  BY <1>1 DEF IInv, Worked, Knows, StorageTypeOK, Connecting
<1>3. CASE trying /\ ~trying' /\ file' = RevertedDoc(loaded) /\ loaded' = file'
  <2>1. file.pending /\ ~started
    BY <1>3 DEF IInv, Worked, Knows
  <2>2. file'.settings = file.previous /\ ~file'.pending
    BY <1>2, <1>3, DocTypes
  <2>3. LakeAt(PathOf[Effective(file.previous)])
    BY <2>1 DEF IInv, Where, PendingMoves, Unmoved
  <2>4. SettledMatchLake'
    BY <1>1, <2>2, <2>3 DEF SettledMatchLake, LakeAt, Effective
  <2> QED
    BY <1>1, <1>3, <2>1, <2>2, <2>4 DEF Where, Midway, PendingMoves, Switching, Connecting
<1>4. CASE /\ UNCHANGED <<file, loaded>>
           /\ (trying /\ ~trying' /\ phase' = "exiting") \/ UNCHANGED trying
  <2>1. PendingMoves'
    BY <1>1, <1>4 DEF IInv, Where, PendingMoves, Unmoved, LakeAt, Effective
  <2>2. SettledMatchLake' /\ (started => LakeAt(NewPath))'
    BY <1>1, <1>4 DEF IInv, Where, SettledMatchLake, LakeAt, Effective, NewPath
  <2>3. Midway'
    <3> SUFFICES ASSUME phase' = "start", Switching' PROVE LakeAt(OldPath)'
      BY <1>1 DEF Midway
    <3>1. trying /\ trying' /\ file.pending /\ file.switchFrom # NoSettings
      BY <1>2, <1>4 DEF Switching, IInv, Worked, Knows
    <3> QED
      BY <1>1, <1>2, <1>4, <3>1 DEF Unmoved, LakeAt, OldPath
  <2> QED
    BY <1>4, <2>1, <2>2, <2>3 DEF IInv, Where
<1> QED
  BY <1>1, <1>3, <1>4

LEMMA WhereStep ==
  ASSUME "moved" \notin Mishaps
  PROVE  IInv /\ [StorageNext]_svars => Where'
<1> SUFFICES ASSUME IInv, [StorageNext]_svars PROVE Where'
  OBVIOUS
<1> USE DEF Where, Midway, PendingMoves, SettledMatchLake, LakeAt, NewPath, OldPath, Switching, Effective
<1>1. CASE Connect
  BY <1>1 DEF IInv, Connect, data, process
<1>2. CASE Inventory
  <2>1. CASE Failing
    BY <1>2, <2>1, FailingUnmoved, FailingWhere
  <2>2. CASE /\ phase = "inventory" /\ phase' = "recordLake" /\ LakeAt(OldPath)
             /\ UNCHANGED <<file, data, process, worked>>
    BY <2>2 DEF IInv, data, process
  <2> QED
    BY <1>2, <2>1, <2>2, FailingCases
<1>3. CASE Record("ducklake", "recordLake", "recordConsole")
  BY <1>3 DEF IInv, Record, process, Worked, Knows, StorageTypeOK, Catalogs
<1>4. CASE Record("_console", "recordConsole", "rewrite")
  BY <1>4 DEF IInv, Record, process, Worked, Knows, StorageTypeOK, Catalogs
<1>5. CASE Rewrite
  BY <1>5 DEF IInv, Rewrite, process
<1>6. CASE AttachLake
  <2>1. /\ phase = "attach" /\ phase' = "ready" /\ LakeAt(NewPath) /\ LakeAt(NewPath)'
        /\ UNCHANGED <<applied, lake>> /\ loaded = file /\ file \in Docs
    BY <1>6 DEF AttachLake, data, IInv, StorageTypeOK, Worked, Knows
  <2>2. CASE trying /\ ~trying' /\ file' = ConfirmedDoc(loaded) /\ loaded' = file'
    <3>1. file'.settings = applied /\ ~file'.pending
      BY <2>1, <2>2, DocTypes DEF IInv, Worked, Knows
    <3> QED
      BY <2>1, <2>2, <3>1
  <2>3. CASE UNCHANGED <<file, loaded>> /\ ~trying' /\ (~trying \/ May("write", 0))
    <3>1. Unmoved
      <4>1. CASE ~trying
        BY <4>1 DEF IInv, Unmoved
      <4> QED
        BY <2>3, <4>1, UnmovedWhenMay
    <3> QED
      BY <2>1, <2>3, <3>1 DEF IInv, Unmoved
  <2> QED
    BY <1>6, <2>1, <2>2, <2>3 DEF AttachLake, Confirm, Write, IInv, StorageTypeOK
<1>7. CASE AttachRejected \/ StepFails
  BY <1>7, FailingCases, FailingUnmoved, FailingWhere
<1>8. CASE Boot
  BY <1>8 DEF Boot, data, IInv, Worked, Knows
<1>9. CASE Exit
  BY <1>9 DEF Exit, Gone, data, IInv
<1>10. CASE Crash
  <2>1. Unmoved
    BY <1>10, UnmovedWhenMay DEF Crash
  <2> QED
    BY <1>10, <2>1 DEF Crash, Gone, data, IInv, Unmoved
<1>11. CASE Invalidated
  BY <1>11 DEF Invalidated, data, process, IInv, Worked, Knows
<1>12. ASSUME NEW s \in Settings, Save(s) PROVE Where'
  <2>1. /\ file'.pending /\ file'.settings = s /\ file'.previous = applied
        /\ file'.switchFrom = IF PathOf[s] # PathOf[Effective(applied)]
                              THEN Effective(applied) ELSE NoSettings
        /\ phase = "ready" /\ phase' \in {"ready", "exiting"}
        /\ started /\ ~trying /\ LakeAt(NewPath)
        /\ UNCHANGED <<applied, trying, started, lake>>
    BY <1>12, SavedType DEF Save, data, IInv, StorageTypeOK, Worked, Knows
  <2>2. s # NoSettings /\ Effective(applied) \in Settings /\ Effective(applied) # NoSettings
    BY SettingsAssumption, EffectiveType DEF IInv, StorageTypeOK
  <2>3. PathOf[s] # PathOf[Effective(applied)] => s \notin Broken
    BY <1>12 DEF Save
  <2> QED
    BY <2>1, <2>2, <2>3
<1>13. CASE UserTables
  BY <1>13 DEF UserTables, process, IInv
<1>14. CASE UNCHANGED svars
  BY <1>14 DEF svars, data, process, IInv
<1> QED
  BY <1>1, <1>2, <1>3, <1>4, <1>5, <1>6, <1>7, <1>8, <1>9, <1>10, <1>11, <1>12, <1>13, <1>14
     DEF StorageNext, ProcessStep

\* The two-phase save keeps its promise as long as nothing fails between the
\* first write to a catalog and the confirmation: settings that are not pending
\* open the lake (SettledMatchLake).
THEOREM SettledOpenTheLake ==
  ASSUME "moved" \notin Mishaps
  PROVE  StorageSpec => []SettledMatchLake
<1>1. StorageInit => IInv
  BY InitType, WorkedInit, WhereInit DEF IInv
<1>2. IInv /\ [StorageNext]_svars => IInv'
  BY StepType, WorkedStep, WhereStep DEF IInv
<1>3. IInv => SettledMatchLake
  BY DEF IInv, Where
<1> QED
  BY <1>1, <1>2, <1>3, PTL DEF StorageSpec

----------------------------------------------------------------------------
(* The files of system tables, and starts as a whole *)

\* Between the first write to a catalog and the end of the rewrite the system
\* tables of a catalog may still be at the old path; at no other time.
FilesAt ==
  phase \notin {"recordConsole", "rewrite"} =>
    \A c \in Catalogs : systemAt[c] \in {NoFiles, lake[c]}

LEMMA MovedThere ==
  ASSUME IInv, phase \in {"recordConsole", "rewrite"}
  PROVE  ~Unmoved
<1>1. loaded = file /\ file.pending /\ file.switchFrom # NoSettings /\ OldPath # NewPath
  BY DEF IInv, Where, Midway, Switching, Worked, Knows
<1>2. lake["ducklake"] = NewPath
  BY DEF IInv, Where, Midway, LakeAt, Catalogs
<1> QED
  BY <1>1, <1>2 DEF Unmoved, LakeAt, OldPath, Catalogs

LEMMA FilesInit == StorageInit => FilesAt
  BY DEF StorageInit, FilesAt, Catalogs

LEMMA FilesStep ==
  ASSUME "moved" \notin Mishaps
  PROVE  IInv /\ FilesAt /\ [StorageNext]_svars => FilesAt'
<1> SUFFICES ASSUME IInv, FilesAt, [StorageNext]_svars PROVE FilesAt'
  OBVIOUS
<1>1. CASE phase \notin {"recordConsole", "rewrite"} /\ UNCHANGED <<lake, systemAt>>
  BY <1>1 DEF FilesAt
<1>2. CASE Connect \/ UserTables \/ Invalidated \/ Boot \/ Exit
  BY <1>1, <1>2 DEF Connect, UserTables, Invalidated, Boot, Exit, Gone, data
<1>3. CASE Inventory
  BY <1>1, <1>3, FailingCases, FailedFacts DEF Inventory, Failing, data
<1>4. CASE Record("ducklake", "recordLake", "recordConsole") \/ Record("_console", "recordConsole", "rewrite")
  BY <1>4 DEF Record, FilesAt
<1>5. CASE Rewrite
  <2>1. CASE phase' = "attach" /\ Behind = {}
    <3>1. LakeAt(NewPath)
      BY <1>5 DEF Rewrite, IInv, Where, Midway
    <3> QED
      BY <1>5, <2>1, <3>1 DEF Rewrite, Behind, LakeAt, FilesAt
  <2> QED
    BY <1>5, <2>1 DEF Rewrite, FilesAt
<1>6. CASE AttachLake
  BY <1>1, <1>6 DEF AttachLake, data
<1>7. CASE AttachRejected
  BY <1>1, <1>7, FailedFacts DEF AttachRejected
<1>8. CASE StepFails
  <2>1. phase \notin {"recordConsole", "rewrite"}
    BY <1>8, UnmovedWhenMay, MovedThere DEF StepFails
  <2> QED
    BY <1>1, <1>8, <2>1, FailedFacts DEF StepFails
<1>9. CASE Crash
  <2>1. phase \notin {"recordConsole", "rewrite"}
    BY <1>9, UnmovedWhenMay, MovedThere DEF Crash
  <2> QED
    BY <1>1, <1>9, <2>1 DEF Crash, Gone, data
<1>10. CASE \E s \in Settings : Save(s)
  BY <1>1, <1>10 DEF Save, data
<1>11. CASE UNCHANGED svars
  BY <1>11 DEF svars, data, FilesAt
<1> QED
  BY <1>2, <1>3, <1>4, <1>5, <1>6, <1>7, <1>8, <1>9, <1>10, <1>11 DEF StorageNext, ProcessStep

\* After any moves and reverts a ready gateway finds the files of its system
\* tables where its catalogs say they are, and the settings left for good
\* worked and open the lake (StorageSafe), as long as nothing fails between
\* the first write to a catalog and the confirmation.
THEOREM StorageAlwaysSafe ==
  ASSUME "moved" \notin Mishaps
  PROVE  StorageSpec => []StorageSafe
<1>1. StorageInit => IInv /\ FilesAt
  BY InitType, WorkedInit, WhereInit, FilesInit DEF IInv
<1>2. (IInv /\ FilesAt) /\ [StorageNext]_svars => (IInv /\ FilesAt)'
  BY StepType, WorkedStep, WhereStep, FilesStep DEF IInv
<1>3. IInv /\ FilesAt => StorageSafe
  BY DEF IInv, Where, Worked, FilesAt, StorageSafe, SystemFilesFound
<1> QED
  BY <1>1, <1>2, <1>3, PTL DEF StorageSpec

-----------------------------------------------------------------------------
(* Starts of gateways (Startup)                                            *)

JobTimer == {t \in [pending : 0..1, ticking : 0..1] : Schedules(t) <= 1}
Armed(t) == Schedules(t) = 1
RunStates == [state : {"starting", "ready", "failed", "dead"}, attempt : 1..SequenceTries,
              step : Nat, tries : 1..StepTries, next : Nat \ {0}, txn : {"none", "open", "overtaken"}]

Timers == [refresh : 0..1, prune : JobTimer, maintenance : JobTimer]

\* A run and the timers of its process.  At the end of the last step the prune
\* timer is set, then the other one.
Fits(r, t) ==
  /\ r \in RunStates /\ t \in Timers /\ r.step \in DOMAIN StartSteps
  /\ r.txn # "none" => r.state = "starting" /\ r.next <= Len(StartSteps[r.step])
  /\ r.state = "ready" => Armed(t.prune) /\ Armed(t.maintenance)
  /\ r.state = "starting" /\ r.step = ConsoleStep /\ r.next = Len(StartSteps[r.step]) + 2 =>
       Armed(t.prune)

\* The inductive invariant of TimersOnce.
TimersInv ==
  /\ run = [h \in StartHosts |-> run[h]] /\ timers = [h \in StartHosts |-> timers[h]]
  /\ \A h \in StartHosts : Fits(run[h], timers[h])

FaultsCounted == queryFaults \in Nat /\ deaths \in Nat /\ queryFaults + deaths <= MaxStartFaults

LEMMA LenOf == ASSUME NEW n \in DOMAIN StartSteps PROVE Len(StartSteps[n]) \in Nat
BY StartAssumption

\* What an attempt leaves that has lost a race or failed.
LEMMA AttemptLeaves ==
  ASSUME NEW r \in RunStates, NEW s, s = RetryStep(r) \/ s = GivesUp(r), r.step \in DOMAIN StartSteps
  PROVE  /\ s \in RunStates /\ s.txn = "none" /\ s.step \in DOMAIN StartSteps
         /\ s.state = "failed" \/ (s.next = 1 /\ s.state \in {"starting", r.state})
<1>1. Again(r) \in RunStates /\ Again(r).next = 1 /\ Again(r).txn = "none"
      /\ Again(r).state = r.state /\ Again(r).step = r.step
  <2>1. Again(r) \in RunStates
    BY 1 \in Nat \ {0} DEF Again, RunStates
  <2>2. Again(r).next = 1
    BY DEF Again, RunStates
  <2>3. Again(r).txn = "none"
    BY DEF Again, RunStates
  <2>4. Again(r).state = r.state
    BY DEF Again, RunStates
  <2>5. Again(r).step = r.step
    BY DEF Again, RunStates
  <2> QED
    BY <2>1, <2>2, <2>3, <2>4, <2>5
<1>2. ASSUME NEW q \in RunStates, q.tries + 1 \in 1..StepTries
      PROVE  LET x == [q EXCEPT !.tries = @ + 1]
             IN x \in RunStates /\ x.next = q.next /\ x.txn = q.txn /\ x.state = q.state /\ x.step = q.step
  BY <1>2 DEF RunStates
<1>3. CASE s = GivesUp(r)
  <2>1. CASE r.attempt < SequenceTries /\ s = AtStep(r.attempt + 1, 1)
    <3>1. r.attempt + 1 \in 1..SequenceTries /\ 1 \in 1..StepTries /\ 1 \in DOMAIN StartSteps
      BY <2>1, StartAssumption DEF RunStates
    <3> QED
      BY <2>1, <3>1 DEF AtStep, RunStates
  <2>2. CASE s = [r EXCEPT !.state = "failed", !.txn = "none"]
    <3>1. s \in RunStates
      BY <2>2 DEF RunStates
    <3>2. s.state = "failed" /\ s.txn = "none"
      BY <2>2 DEF RunStates
    <3>3. s.step = r.step
      BY <2>2 DEF RunStates
    <3> QED
      BY <3>1, <3>2, <3>3
  <2> QED
    BY <1>3, <2>1, <2>2 DEF GivesUp
<1>4. CASE r.tries < StepTries /\ s = [Again(r) EXCEPT !.tries = @ + 1]
  <2>1. Again(r).tries = r.tries
    BY DEF Again, RunStates
  <2>2. r.tries + 1 \in 1..StepTries
    BY <1>4, StartAssumption DEF RunStates
  <2> QED
    BY <1>1, <1>2, <1>4, <2>1, <2>2
<1> QED
  BY <1>3, <1>4 DEF RetryStep

LEMMA Rearmed ==
  ASSUME NEW t \in JobTimer
  PROVE  Rearm(t) \in JobTimer /\ Armed(Rearm(t))
BY DEF JobTimer, Rearm, OneLess, Armed, Schedules

LEMMA Ticked ==
  ASSUME NEW t \in JobTimer, t.pending > 0
  PROVE  /\ [pending |-> t.pending - 1, ticking |-> t.ticking + 1] \in JobTimer
         /\ Armed([pending |-> t.pending - 1, ticking |-> t.ticking + 1])
BY DEF JobTimer, Armed, Schedules

\* The others, when a statement commits.
LEMMA OvertakenIs ==
  ASSUME NEW r, NEW t, Fits(r, t), r.txn # "none", NEW s, s = [r EXCEPT !.txn = "overtaken"]
  PROVE  Fits(s, t)
<1>1. /\ s \in RunStates /\ s.state = r.state
      /\ s.step = r.step /\ s.next = r.next
  BY DEF Fits, RunStates
<1> QED
  BY <1>1 DEF Fits

\* A step that changes one host.
LEMMA HostMoves ==
  ASSUME TimersInv, NEW h \in StartHosts, NEW s, NEW t, Fits(s, t),
         run' = [run EXCEPT ![h] = s], timers' = [timers EXCEPT ![h] = t]
  PROVE  TimersInv'
<1>1. run'[h] = s /\ timers'[h] = t
  BY DEF TimersInv
<1>2. \A g \in StartHosts \ {h} : run'[g] = run[g] /\ timers'[g] = timers[g]
  BY DEF TimersInv
<1>3. run' = [g \in StartHosts |-> run'[g]] /\ timers' = [g \in StartHosts |-> timers'[g]]
  BY DEF TimersInv
<1> QED
  BY <1>1, <1>2, <1>3 DEF TimersInv

\* Moves of one host whose timers stay as they are.
LEMMA RunMoves ==
  ASSUME TimersInv, NEW h \in StartHosts, NEW s, Fits(s, timers[h]),
         run' = [run EXCEPT ![h] = s], timers' = timers
  PROVE  TimersInv'
<1>1. timers' = [timers EXCEPT ![h] = timers[h]]
  BY DEF TimersInv
<1> QED
  BY <1>1, HostMoves

\* A statement begins, or is passed over.
LEMMA BeginsFits ==
  ASSUME NEW r, NEW t, Fits(r, t), r.state = "starting", r.next <= Len(StartSteps[r.step]), NEW s,
         (s = [r EXCEPT !.next = @ + 1] /\ r.txn = "none") \/ s = [r EXCEPT !.txn = "open"]
  PROVE  Fits(s, t)
<1>1. Len(StartSteps[r.step]) \in Nat
  BY LenOf DEF Fits
<1>2. CASE s = [r EXCEPT !.next = @ + 1] /\ r.txn = "none"
  <2>1. /\ s \in RunStates /\ s.state = r.state /\ s.step = r.step /\ s.txn = "none"
        /\ s.next = r.next + 1 /\ r.next \in Nat
    BY <1>2 DEF Fits, RunStates
  <2> QED
    BY <1>1, <2>1 DEF Fits
<1>3. CASE s = [r EXCEPT !.txn = "open"]
  <2>1. s \in RunStates /\ s.state = r.state /\ s.step = r.step /\ s.next = r.next /\ r.next \in Nat
    BY <1>3 DEF Fits, RunStates
  <2> QED
    BY <1>1, <2>1 DEF Fits
<1> QED
  BY <1>2, <1>3

LEMMA CommitFits ==
  ASSUME NEW r, NEW t, Fits(r, t), r.txn = "open"
  PROVE  Fits(PastStatement(r), t)
<1> DEFINE s == PastStatement(r)
<1>1. Len(StartSteps[r.step]) \in Nat /\ r.next \in Nat
  BY LenOf DEF Fits, RunStates
<1>2. s \in RunStates
  <2>1. ASSUME NEW q \in RunStates, NEW a \in Nat \ {0} PROVE [q EXCEPT !.next = a, !.txn = "none"] \in RunStates
    BY DEF RunStates
  <2>2. r \in RunStates /\ r.next + 1 \in Nat \ {0}
    BY <1>1 DEF Fits
  <2>3. [r EXCEPT !.next = r.next + 1, !.txn = "none"] \in RunStates
    BY <2>1, <2>2
  <2> QED
    BY <2>3 DEF PastStatement
<1>3. s.next = r.next + 1 /\ s.txn = "none"
  BY DEF PastStatement, Fits, RunStates
<1>4. s.state = r.state /\ s.step = r.step
  BY DEF PastStatement, Fits, RunStates
<1> QED
  BY <1>1, <1>2, <1>3, <1>4 DEF Fits

LEMMA StepFits ==
  ASSUME NEW r, NEW t, Fits(r, t), r.step # ConsoleStep, r.state = "starting",
         r.next = Len(StartSteps[r.step]) + 1
  PROVE  Fits(AtStep(r.attempt, r.step + 1), t)
<1> DEFINE s == AtStep(r.attempt, r.step + 1)
<1>1. Len(StartSteps[r.step]) \in Nat /\ r.step \in 1 .. Len(StartSteps) /\ Len(StartSteps) \in Nat
  BY LenOf, StartAssumption DEF Fits
<1>2. r.attempt \in 1..SequenceTries /\ r.step + 1 \in Nat /\ 1 \in 1..StepTries
  BY <1>1, StartAssumption DEF Fits, RunStates
<1>4. s.next = 1 /\ s.txn = "none" /\ s.state = "starting" /\ s.step = r.step + 1 /\ s \in RunStates
  BY <1>2 DEF AtStep, RunStates
<1>5. s.step \in DOMAIN StartSteps /\ Len(StartSteps[s.step]) \in Nat
  <2>1. s.step \in DOMAIN StartSteps
    BY <1>1, <1>4, StartAssumption DEF ConsoleStep
  <2> QED
    BY <2>1, LenOf
<1> QED
  BY <1>4, <1>5 DEF Fits

LEMMA AttemptFits ==
  ASSUME TimersInv, NEW h \in StartHosts, NEW s, AfterAttempt(h, s), run[h].state = "starting",
         s = RetryStep(run[h]) \/ s = GivesUp(run[h])
  PROVE  TimersInv'
<1>1. Fits(run[h], timers[h])
  BY DEF TimersInv
<1>2. /\ s \in RunStates /\ s.txn = "none" /\ s.step \in DOMAIN StartSteps
      /\ s.state = "failed" \/ (s.next = 1 /\ s.state = "starting")
  BY <1>1, AttemptLeaves DEF Fits
<1>3. Len(StartSteps[s.step]) \in Nat
  BY <1>2, LenOf
<1>4. CASE s.state = "failed"
  <2>1. Fits(s, NoTimers)
    BY <1>2, <1>4 DEF Fits, NoTimers, NoTimer, Timers, JobTimer, Schedules
  <2> QED
    BY <1>4, <2>1, HostMoves DEF AfterAttempt
<1>5. CASE s.state # "failed"
  <2>1. Fits(s, timers[h])
    BY <1>1, <1>2, <1>3, <1>5 DEF Fits
  <2> QED
    BY <1>5, <2>1, RunMoves DEF AfterAttempt
<1> QED
  BY <1>4, <1>5

\* Every step of every gateway keeps TimersInv.
LEMMA TimersStay == TimersInv /\ [StartNext]_startVars => TimersInv'
<1> SUFFICES ASSUME TimersInv, [StartNext]_startVars PROVE TimersInv'
  OBVIOUS
<1>0. \A h \in StartHosts : Fits(run[h], timers[h])
  BY DEF TimersInv
<1>1. ASSUME NEW h \in StartHosts, Begins(h) PROVE TimersInv'
  <2>1. run[h].state = "starting" /\ run[h].next <= Len(StartSteps[run[h].step]) /\ run[h].txn = "none"
    BY <1>1 DEF Begins, HasStatement, Running, Statements
  <2>2. PICK s : /\ s = [run[h] EXCEPT !.next = @ + 1] \/ s = [run[h] EXCEPT !.txn = "open"]
                 /\ run' = [run EXCEPT ![h] = s]
    BY <1>1 DEF Begins
  <2>3. Fits(s, timers[h])
    BY <1>0, <2>1, <2>2, BeginsFits
  <2>4. timers' = timers
    BY <1>1 DEF Begins
  <2> QED
    BY <2>2, <2>3, <2>4, RunMoves
<1>2. ASSUME NEW h \in StartHosts, CommitsStatement(h) PROVE TimersInv'
  <2>1. Fits(run'[h], timers'[h])
    <3>1. run'[h] = PastStatement(run[h]) /\ timers' = timers
      BY <1>2 DEF CommitsStatement, OvertakenBy
    <3> QED
      BY <1>0, <1>2, <3>1, CommitFits DEF CommitsStatement
  <2>2. ASSUME NEW g \in StartHosts, g # h PROVE Fits(run'[g], timers'[g])
    <3>1. /\ timers' = timers
          /\ run'[g] = IF OvertakenBy(h, g) THEN [run[g] EXCEPT !.txn = "overtaken"] ELSE run[g]
      BY <1>2, <2>2 DEF CommitsStatement
    <3> QED
      BY <1>0, <3>1, OvertakenIs DEF OvertakenBy
  <2>3. run' = [g \in StartHosts |-> run'[g]] /\ timers' = [g \in StartHosts |-> timers'[g]]
    BY <1>2 DEF CommitsStatement, TimersInv
  <2> QED
    BY <2>1, <2>2, <2>3 DEF TimersInv
<1>3. ASSUME NEW h \in StartHosts, ConflictsAtCommit(h) PROVE TimersInv'
  <2>1. run[h].state = "starting" /\ AfterAttempt(h, RetryStep(run[h]))
    BY <1>0, <1>3 DEF ConflictsAtCommit, Fits
  <2> QED
    BY <2>1, AttemptFits
<1>4. ASSUME NEW h \in StartHosts, QueryOfStepFails(h) PROVE TimersInv'
  BY <1>4, AttemptFits DEF QueryOfStepFails, Running
<1>5. ASSUME NEW h \in StartHosts, StepEnds(h) PROVE TimersInv'
  <2>1. Fits(AtStep(run[h].attempt, run[h].step + 1), timers[h])
    BY <1>0, <1>5, StepFits DEF StepEnds, Running, Statements
  <2> QED
    BY <1>5, <2>1, RunMoves DEF StepEnds
<1>6. ASSUME NEW h \in StartHosts, ArmsPrune(h) PROVE TimersInv'
  <2> DEFINE r == run[h]
             t == timers[h]
             s == [r EXCEPT !.next = @ + 1]
             x == ConsoleTimers(t)
  <2>1. Fits(r, t) /\ r.state = "starting" /\ r.next = Len(StartSteps[r.step]) + 1
    BY <1>0, <1>6 DEF ArmsPrune, Running, Statements
  <2>2. Len(StartSteps[r.step]) \in Nat
    BY <2>1, LenOf DEF Fits
  <2>3. x \in Timers /\ Armed(x.prune)
    <3>1. t.prune \in JobTimer /\ t.refresh \in 0..1 /\ t \in Timers
      BY <2>1 DEF Fits, Timers
    <3>2. Rearm(t.prune) \in JobTimer /\ Armed(Rearm(t.prune)) /\ StartRefresh(t.refresh) \in 0..1
      BY <3>1, Rearmed DEF StartRefresh
    <3> HIDE DEF t
    <3> QED
      BY <3>1, <3>2 DEF Timers, ConsoleTimers
  <2>4. /\ s \in RunStates /\ s.state = r.state /\ s.step = r.step /\ s.txn = r.txn
        /\ s.next = r.next + 1 /\ r.next \in Nat
    <3>1. r \in RunStates
      BY <2>1 DEF Fits
    <3> HIDE DEF r
    <3> QED
      BY <3>1 DEF RunStates
  <2>5. Fits(s, x)
    <3> HIDE DEF r, s, x, t
    <3> QED
      BY <2>1, <2>2, <2>3, <2>4 DEF Fits
  <2>6. run' = [run EXCEPT ![h] = s] /\ timers' = [timers EXCEPT ![h] = x]
    BY <1>6 DEF ArmsPrune
  <2> HIDE DEF s, x
  <2> QED
    BY <2>5, <2>6, HostMoves
<1>7. ASSUME NEW h \in StartHosts, ArmsMaintenance(h) PROVE TimersInv'
  <2> DEFINE r == run[h]
             t == timers[h]
             s == [r EXCEPT !.state = "ready"]
             x == [t EXCEPT !.maintenance = Rearm(@)]
  <2>1. /\ Fits(r, t) /\ r.state = "starting" /\ r.next = Len(StartSteps[r.step]) + 2
        /\ r.step = ConsoleStep
    BY <1>0, <1>7 DEF ArmsMaintenance, Running, Statements
  <2>2. Len(StartSteps[r.step]) \in Nat /\ Armed(t.prune)
    BY <2>1, LenOf DEF Fits
  <2>3. x \in Timers /\ Armed(x.maintenance) /\ x.prune = t.prune
    <3>1. t.maintenance \in JobTimer /\ t \in Timers
      BY <2>1 DEF Fits, Timers
    <3>2. Rearm(t.maintenance) \in JobTimer /\ Armed(Rearm(t.maintenance))
      BY <3>1, Rearmed
    <3> HIDE DEF t
    <3> QED
      BY <3>1, <3>2 DEF Timers
  <2>4. /\ s \in RunStates /\ s.state = "ready" /\ s.step = r.step /\ s.txn = r.txn
        /\ s.next = r.next /\ r.next \in Nat
    <3>1. r \in RunStates
      BY <2>1 DEF Fits
    <3> HIDE DEF r
    <3> QED
      BY <3>1 DEF RunStates
  <2>5. Fits(s, x)
    <3> HIDE DEF r, s, x, t
    <3> QED
      BY <2>1, <2>2, <2>3, <2>4 DEF Fits
  <2>6. run' = [run EXCEPT ![h] = s] /\ timers' = [timers EXCEPT ![h] = x]
    BY <1>7 DEF ArmsMaintenance
  <2> HIDE DEF s, x
  <2> QED
    BY <2>5, <2>6, HostMoves
<1>8. ASSUME NEW h \in StartHosts, SupervisorStarts(h) PROVE TimersInv'
  <2>1. Fits(Starting, timers[h])
    BY <1>0, StartAssumption, LenOf DEF Fits, Starting, AtStep, RunStates
  <2> QED
    BY <1>8, <2>1, RunMoves DEF SupervisorStarts
<1>9. ASSUME NEW h \in StartHosts, StartCrash(h) PROVE TimersInv'
  <2> DEFINE r == run[h]
             s == [r EXCEPT !.state = "dead", !.txn = "none"]
  <2>1. r \in RunStates /\ r.step \in DOMAIN StartSteps
    BY <1>0 DEF Fits
  <2>2. s \in RunStates /\ s.state = "dead" /\ s.txn = "none"
    <3> HIDE DEF r
    <3> QED
      BY <2>1 DEF RunStates
  <2>3. s.step = r.step
    <3> HIDE DEF r
    <3> QED
      BY <2>1 DEF RunStates
  <2>4. Fits(s, NoTimers)
    <3> HIDE DEF s, r
    <3> QED
      BY <2>1, <2>2, <2>3 DEF Fits, NoTimers, NoTimer, Timers, JobTimer, Schedules
  <2>5. run' = [run EXCEPT ![h] = s] /\ timers' = [timers EXCEPT ![h] = NoTimers]
    BY <1>9 DEF StartCrash
  <2> HIDE DEF s
  <2> QED
    BY <2>4, <2>5, HostMoves
<1>10. ASSUME NEW h \in StartHosts, NEW j \in {"prune", "maintenance"}, FirstTick(h, j)
       PROVE  TimersInv'
  <2> DEFINE t == timers[h]
             u == [pending |-> t[j].pending - 1, ticking |-> t[j].ticking + 1]
             x == [t EXCEPT ![j] = u]
  <2>1. Fits(run[h], t) /\ t[j].pending > 0
    BY <1>0, <1>10 DEF FirstTick
  <2>2. t \in Timers /\ t[j] \in JobTimer
    BY <2>1 DEF Fits, Timers
  <2>3. u \in JobTimer /\ Armed(u)
    <3> HIDE DEF t
    <3> QED
      BY <2>1, <2>2, Ticked
  <2>4. x \in Timers /\ (x.prune = t.prune \/ Armed(x.prune))
        /\ (x.maintenance = t.maintenance \/ Armed(x.maintenance))
    <3> HIDE DEF t, u
    <3> QED
      BY <2>2, <2>3 DEF Timers
  <2>5. Fits(run[h], x)
    <3> HIDE DEF t, x
    <3> QED
      BY <2>1, <2>4 DEF Fits
  <2>6. timers' = [timers EXCEPT ![h] = x] /\ run' = [run EXCEPT ![h] = run[h]]
    BY <1>10 DEF FirstTick, TimersInv
  <2> HIDE DEF x
  <2> QED
    BY <2>5, <2>6, HostMoves
<1>11. CASE UNCHANGED startVars
  BY <1>11 DEF startVars, TimersInv
<1> QED
  BY <1>1, <1>2, <1>3, <1>4, <1>5, <1>6, <1>7, <1>8, <1>9, <1>10, <1>11 DEF StartNext, HostStep

LEMMA TimersStart == StartInit => TimersInv
<1> SUFFICES ASSUME StartInit PROVE TimersInv
  OBVIOUS
<1>1. run = [h \in StartHosts |-> run[h]] /\ timers = [h \in StartHosts |-> timers[h]]
  BY DEF StartInit
<1>2. ASSUME NEW h \in StartHosts PROVE run[h] = Starting /\ timers[h] = NoTimers
  BY DEF StartInit
<1>3. Fits(Starting, NoTimers)
  <2>1. NoTimers \in Timers
    BY DEF NoTimers, NoTimer, Timers, JobTimer, Schedules
  <2>2. 1 \in DOMAIN StartSteps /\ 1 \in 1..SequenceTries /\ 1 \in 1..StepTries
    BY StartAssumption
  <2> QED
    BY <2>1, <2>2, LenOf DEF Fits, Starting, AtStep, RunStates
<1> QED
  BY <1>1, <1>2, <1>3 DEF TimersInv

\* However often initConsole is run again, a process has each scheduler's timer
\* at most once, and a ready one has them all (TimersOnce; console/index.js,
\* startPruneScheduler and startMaintenanceScheduler).
THEOREM TimersAlwaysOnce == StartSpec => []TimersOnce
<1>1. TimersInv => TimersOnce
  <2> SUFFICES ASSUME TimersInv, NEW h \in StartHosts
               PROVE  /\ timers[h].refresh <= 1
                      /\ \A job \in {"prune", "maintenance"} :
                           /\ Schedules(timers[h][job]) <= 1
                           /\ run[h].state = "ready" => Schedules(timers[h][job]) = 1
    BY DEF TimersOnce
  <2>1. Fits(run[h], timers[h])
    BY DEF TimersInv
  <2>2. timers[h] \in [refresh : 0..1, prune : JobTimer, maintenance : JobTimer]
    BY <2>1 DEF Fits, Timers
  <2>3. /\ timers[h].refresh <= 1
        /\ Schedules(timers[h].prune) <= 1 /\ Schedules(timers[h].maintenance) <= 1
    BY <2>2 DEF JobTimer
  <2> QED
    BY <2>1, <2>3 DEF Fits, Armed
<1> QED
  BY <1>1, TimersStart, TimersStay, PTL DEF StartSpec

\* Every reachable state of the starts of gateways is well typed; no step is
\* tried more than StepTries times in a row, no sequence more than SequenceTries
\* times (StartTypeOK; src/index.js, runStartupSteps).
THEOREM StartTypeCorrect == StartInit /\ [][StartNext]_startVars => []StartTypeOK
<1>1. StartInit => FaultsCounted
  BY StartAssumption DEF StartInit, FaultsCounted
<1>2. FaultsCounted /\ [StartNext]_startVars => FaultsCounted'
  <2> SUFFICES ASSUME FaultsCounted, [StartNext]_startVars PROVE FaultsCounted'
    OBVIOUS
  <2>1. CASE UNCHANGED <<queryFaults, deaths>>
    BY <2>1 DEF FaultsCounted
  <2>2. ASSUME NEW h \in StartHosts, QueryOfStepFails(h) \/ StartCrash(h) PROVE FaultsCounted'
    BY <2>2, StartAssumption DEF FaultsCounted, QueryOfStepFails, StartCrash
  <2>3. ASSUME NEW h \in StartHosts, HostStep(h) PROVE UNCHANGED <<queryFaults, deaths>>
    BY <2>3 DEF HostStep, Begins, CommitsStatement, ConflictsAtCommit, StepEnds, ArmsPrune,
                ArmsMaintenance, SupervisorStarts
  <2>4. ASSUME NEW h \in StartHosts, NEW j \in {"prune", "maintenance"}, FirstTick(h, j)
        PROVE  UNCHANGED <<queryFaults, deaths>>
    BY <2>4 DEF FirstTick
  <2> QED
    BY <2>1, <2>2, <2>3, <2>4 DEF StartNext, startVars
<1>3. TimersInv /\ FaultsCounted => StartTypeOK
  BY DEF TimersInv, Fits, RunStates, FaultsCounted, StartTypeOK
<1> QED
  BY <1>1, <1>2, <1>3, TimersStart, TimersStay, PTL

\* Settings that are left for good worked, open the lake and find its files,
\* and starts keep to one timer each (StartsSafe), for any number of gateways,
\* settings and attempts, as long as nothing fails between the first write to
\* a catalog and the confirmation.
THEOREM StartsAlwaysSafe ==
  ASSUME "moved" \notin Mishaps
  PROVE  StartsSpec => []StartsSafe
<1>1. StorageSpec => []StorageSafe
  BY StorageAlwaysSafe
<1>2. []StorageSafe /\ []TimersOnce => []StartsSafe
  <2>1. StorageSafe /\ TimersOnce => StartsSafe
    BY DEF StartsSafe
  <2> QED
    BY <2>1, PTL
<1> QED
  BY <1>1, <1>2, TimersAlwaysOnce DEF StartsSpec
============================================================================
