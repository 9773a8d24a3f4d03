--------------------------- MODULE ServicesProofs ---------------------------
(***************************************************************************)
(* Proofs about the services of a gateway that share no state, for any     *)
(* number of requests, records, keys, faults and any length of time: the   *)
(* history of the lake, ZIP archives, saved graphs, access and its         *)
(* caches, logins and the throttle, the screens of the console, and what   *)
(* refers to a table that changes.  Each service has an inductive          *)
(* invariant of its own, stated before its proofs.                         *)
(***************************************************************************)
EXTENDS LakeHistory, ZipArchive, SavedGraphs, Access, ConsolePages, TableChanges,
        SequenceTheorems, FiniteSetTheorems, WellFoundedInduction, TLAPS

-----------------------------------------------------------------------------
(* History of the lake (LakeHistory)                                       *)

HistoryRecords == [at : 0 .. EndOfHistory, nr : Nat, files : SUBSET DataFiles]
Named == UNION {s.files : s \in history}

\* Snapshots are numbered, the newest last; nothing runs longer than the grace period.
HistoryTyped ==
  /\ HistoryTypeOK
  /\ history \subseteq HistoryRecords
  /\ \A s, t \in history : s.nr = t.nr => s = t
  /\ \E s \in history : \A t \in history : t.nr <= s.nr
  /\ \A f \in writing : moment - born[f] < Grace
  /\ \A r \in reading : r.since <= moment /\ moment - r.since < Grace

\* What a snapshot names or a transaction writes is not scheduled for deletion, and
\* what a query reads at most since the query began.
NotDoomed ==
  /\ \A f \in Named \cup writing : doomed[f] = -1
  /\ Named \cap writing = {}
  /\ \A r \in reading : \A f \in r.files : f \in Named \/ doomed[f] >= r.since

\* The inductive invariant of FilesThere.
HInv == HistoryTyped /\ NotDoomed /\ FilesThere

LEMMA NewestIs ==
  ASSUME HistoryTyped
  PROVE  Newest \in history /\ \A t \in history : t.nr <= Newest.nr
  BY DEF HistoryTyped, Newest

LEMMA InitHistory == HistoryInit => HInv
<1> SUFFICES ASSUME HistoryInit PROVE HInv
  OBVIOUS
<1> USE HistoryAssumption DEF HistoryInit
<1> DEFINE s0 == [at |-> 0, nr |-> 0, files |-> {}]
<1>1. s0 \in HistoryRecords /\ history = {s0} /\ s0.files = {} /\ s0.nr = 0
  BY DEF HistoryRecords
<1>2. HistoryTypeOK
  BY <1>1 DEF HistoryTypeOK, Empty
<1>3. HistoryTyped
  BY <1>1, <1>2 DEF HistoryTyped
<1>4. Named = {}
  BY <1>1 DEF Named
<1>5. NotDoomed /\ FilesThere
  BY <1>1, <1>4 DEF NotDoomed, FilesThere
<1> QED
  BY <1>3, <1>5 DEF HInv

\* A commit of a typed set of files adds the newest snapshot.
LEMMA CommitTyped ==
  ASSUME HistoryTyped, NEW fs \in SUBSET DataFiles, Commits(fs)
  PROVE  /\ history' \subseteq HistoryRecords
         /\ \A s, t \in history' : s.nr = t.nr => s = t
         /\ \E s \in history' : \A t \in history' : t.nr <= s.nr
         /\ Named' = Named \cup fs
         /\ \A s \in history' : s \in history \/ s.files = fs
<1> DEFINE s1 == [at |-> moment, nr |-> Newest.nr + 1, files |-> fs]
<1>1. Newest \in history /\ Newest.nr \in Nat /\ \A t \in history : t.nr <= Newest.nr /\ t.nr \in Nat
  BY NewestIs DEF HistoryTyped, HistoryRecords
<1>2. /\ s1 \in HistoryRecords /\ s1.files = fs /\ s1.nr = Newest.nr + 1
      /\ history' = history \cup {s1}
  BY <1>1 DEF HistoryTyped, HistoryTypeOK, HistoryRecords, Commits
<1> HIDE DEF s1
<1>3. \A t \in history : t.nr < s1.nr
  BY <1>1, <1>2
<1>4. history' \subseteq HistoryRecords /\ \A s, t \in history' : s.nr = t.nr => s = t
  BY <1>1, <1>2, <1>3 DEF HistoryTyped
<1>5. \A t \in history' : t.nr <= s1.nr
  BY <1>1, <1>2, <1>3
<1>6. Named' = Named \cup fs
  BY <1>2 DEF Named
<1> QED
  BY <1>2, <1>4, <1>5, <1>6

LEMMA StepHistory == ASSUME HInv, [HistoryNext]_historyVars PROVE HInv'
<1> USE HistoryAssumption
<1>0. HistoryTyped /\ HistoryTypeOK /\ NotDoomed /\ FilesThere
  BY DEF HInv, HistoryTyped
<1>a. /\ moment \in Nat /\ Grace \in Nat \ {0}
      /\ \A f \in DataFiles : born[f] \in Nat /\ doomed[f] \in Int
      /\ \A r \in reading : r.since \in Nat /\ r.files \subseteq DataFiles
      /\ DOMAIN born = DataFiles /\ DOMAIN doomed = DataFiles
      /\ Named \subseteq DataFiles /\ Named \subseteq files /\ writing \subseteq DataFiles
  BY <1>0 DEF HistoryTypeOK, FilesThere, Named
<1>1. ASSUME NEW f \in DataFiles, WriteFile(f) PROVE HInv'
  <2>1. /\ Unused(f) /\ files' = files \cup {f} /\ born' = [born EXCEPT ![f] = moment]
        /\ writing' = writing \cup {f}
        /\ UNCHANGED <<moment, field, days, history, doomed, reading>>
    BY <1>1 DEF WriteFile
  <2>2. HistoryTyped'
    BY <1>0, <1>a, <2>1 DEF HistoryTyped, HistoryTypeOK, HistoryRecords
  <2>3. Named' = Named /\ f \notin Named /\ doomed[f] = -1
    BY <2>1 DEF Named, Unused
  <2>4. NotDoomed' /\ FilesThere'
    BY <1>0, <1>a, <2>1, <2>3 DEF NotDoomed, FilesThere
  <2> QED
    BY <2>2, <2>4 DEF HInv
<1>2. ASSUME NEW f \in DataFiles, CommitFile(f) PROVE HInv'
  <2> DEFINE fs == Newest.files \cup {f}
  <2>1. /\ f \in writing /\ writing' = writing \ {f} /\ Commits(fs)
        /\ UNCHANGED <<moment, field, days, files, born, doomed, reading>>
    BY <1>2 DEF CommitFile
  <2>2. Newest.files \subseteq Named /\ fs \in SUBSET DataFiles
    BY <1>0, <1>a, NewestIs DEF Named
  <2> HIDE DEF fs
  <2>3. /\ history' \subseteq HistoryRecords
        /\ \A s, t \in history' : s.nr = t.nr => s = t
        /\ \E s \in history' : \A t \in history' : t.nr <= s.nr
        /\ Named' = Named \cup fs
        /\ \A s \in history' : s \in history \/ s.files = fs
    BY <1>0, <2>1, <2>2, CommitTyped
  <2>4. HistoryTyped'
    BY <1>0, <1>a, <2>1, <2>3 DEF HistoryTyped, HistoryTypeOK, HistoryRecords
  <2>5. Named' = Named \cup {f}
    BY <2>2, <2>3 DEF fs
  <2>6. NotDoomed' /\ FilesThere'
    BY <1>0, <1>a, <2>1, <2>2, <2>3, <2>5 DEF NotDoomed, FilesThere, fs
  <2> QED
    BY <2>4, <2>6 DEF HInv
<1>3. ASSUME NEW f \in DataFiles, NEW old \in SUBSET DataFiles, Rewrite(old, f) PROVE HInv'
  <2> DEFINE fs == (Newest.files \ old) \cup {f}
  <2>1. /\ Unused(f) /\ files' = files \cup {f} /\ born' = [born EXCEPT ![f] = moment]
        /\ Commits(fs)
        /\ UNCHANGED <<moment, field, days, doomed, writing, reading>>
    BY <1>3 DEF Rewrite
  <2>2. Newest.files \subseteq Named /\ fs \in SUBSET DataFiles
    BY <1>0, <1>a, NewestIs DEF Named
  <2> HIDE DEF fs
  <2>3. /\ history' \subseteq HistoryRecords
        /\ \A s, t \in history' : s.nr = t.nr => s = t
        /\ \E s \in history' : \A t \in history' : t.nr <= s.nr
        /\ Named' = Named \cup fs
        /\ \A s \in history' : s \in history \/ s.files = fs
    BY <1>0, <2>1, <2>2, CommitTyped
  <2>4. f \notin files /\ doomed[f] = -1
    BY <2>1 DEF Unused
  <2>5. \A g \in writing : born'[g] = born[g]
    BY <1>0, <1>a, <2>1, <2>4 DEF FilesThere
  <2>6. HistoryTyped'
    BY <1>0, <1>a, <2>1, <2>3, <2>5 DEF HistoryTyped, HistoryTypeOK, HistoryRecords
  <2>7. Named' = Named \cup {f}
    BY <2>2, <2>3 DEF fs
  <2>8. NotDoomed' /\ FilesThere'
    BY <1>0, <1>a, <2>1, <2>2, <2>3, <2>4, <2>7 DEF NotDoomed, FilesThere, fs
  <2> QED
    BY <2>6, <2>8 DEF HInv
<1>4. ASSUME BeginQuery PROVE HInv'
  <2>1. /\ reading' = {[since |-> moment, files |-> Newest.files]}
        /\ UNCHANGED <<moment, field, days, history, files, born, doomed, writing>>
    BY <1>4 DEF BeginQuery
  <2>2. Newest.files \subseteq Named /\ Named' = Named
    BY <1>0, <2>1, NewestIs DEF Named
  <2>3. HistoryTyped'
    BY <1>0, <1>a, <2>1, <2>2 DEF HistoryTyped, HistoryTypeOK
  <2>4. NotDoomed' /\ FilesThere'
    BY <1>0, <1>a, <2>1, <2>2 DEF NotDoomed, FilesThere
  <2> QED
    BY <2>3, <2>4 DEF HInv
<1>5. ASSUME NEW r \in reading, EndQuery(r) PROVE HInv'
  <2>1. /\ reading' = reading \ {r}
        /\ UNCHANGED <<moment, field, days, history, files, born, doomed, writing>>
    BY <1>5 DEF EndQuery
  <2>2. Named' = Named
    BY <2>1 DEF Named
  <2>3. HistoryTyped'
    BY <1>0, <2>1 DEF HistoryTyped, HistoryTypeOK
  <2>4. NotDoomed' /\ FilesThere'
    BY <1>0, <2>1, <2>2 DEF NotDoomed, FilesThere
  <2> QED
    BY <2>3, <2>4 DEF HInv
<1>6. ASSUME Expire PROVE HInv'
  <2> DEFINE old == {s \in history \ {Newest} : s.at <= moment - days}
             kept == UNION {s.files : s \in history \ old}
             freed == (UNION {s.files : s \in old}) \ kept
  <2>1. /\ history' = history \ old
        /\ doomed' = [f \in DataFiles |-> IF f \in freed THEN moment ELSE doomed[f]]
        /\ UNCHANGED <<moment, field, days, files, born, writing, reading>>
    BY <1>6 DEF Expire
  <2>a. Newest \notin old
    OBVIOUS
  <2>2. Newest \in history' /\ \A t \in history' : t.nr <= Newest.nr
    <3>1. Newest \in history /\ \A t \in history : t.nr <= Newest.nr
      BY <1>0, NewestIs
    <3> HIDE DEF old
    <3> QED
      BY <2>1, <2>a, <3>1
  <2>3. Named' = kept /\ freed \cap kept = {} /\ freed \subseteq Named /\ kept \subseteq Named
        /\ Named \subseteq freed \cup kept
    BY <2>1 DEF Named
  <2> HIDE DEF old, kept, freed
  <2>4. HistoryTyped'
    <3>1. doomed' \in [DataFiles -> -1 .. EndOfHistory]
      BY <1>0, <1>a, <2>1 DEF HistoryTypeOK
    <3>2. HistoryTypeOK'
      BY <1>0, <2>1, <3>1 DEF HistoryTypeOK
    <3>3. history' \subseteq history
      BY <2>1
    <3> QED
      BY <1>0, <2>1, <2>2, <3>2, <3>3 DEF HistoryTyped
  <2>5. NotDoomed' /\ FilesThere'
    <3>1. \A f \in DataFiles : doomed'[f] = IF f \in freed THEN moment ELSE doomed[f]
      BY <2>1
    <3>2. \A r \in reading : r.since <= moment
      BY <1>0 DEF HistoryTyped
    <3> QED
      BY <1>0, <1>a, <2>1, <2>3, <3>1, <3>2 DEF NotDoomed, FilesThere
  <2> QED
    BY <2>4, <2>5 DEF HInv
<1>7. ASSUME Cleanup PROVE HInv'
  <2> DEFINE named == UNION {s.files : s \in history}
             old == {f \in files : Older(doomed[f])}
             orphans == {f \in files \ named : doomed[f] = -1 /\ Older(born[f])}
  <2>1. /\ files' = files \ (old \cup orphans)
        /\ UNCHANGED <<moment, field, days, history, born, doomed, writing, reading>>
    BY <1>7 DEF Cleanup
  <2>2. Named' = Named /\ named = Named
    BY <2>1 DEF Named
  <2>3. HistoryTyped'
    BY <1>0, <2>1 DEF HistoryTyped, HistoryTypeOK
  <2>4. \A f \in Named \cup writing : f \notin old \cup orphans
    BY <1>0, <1>a, <2>2 DEF Older, NotDoomed, HistoryTyped
  <2>5. \A r \in reading : \A f \in r.files : f \notin old \cup orphans
    BY <1>0, <1>a, <2>2, <2>4 DEF Older, NotDoomed, HistoryTyped
  <2> HIDE DEF old, orphans, named
  <2>6. FilesThere'
    BY <1>0, <2>1, <2>4, <2>5 DEF FilesThere, Named
  <2>7. NotDoomed'
    BY <1>0, <2>1, <2>2 DEF NotDoomed
  <2> QED
    BY <2>3, <2>6, <2>7 DEF HInv
<1>8. ASSUME HistoryTick PROVE HInv'
  <2>1. /\ moment < EndOfHistory /\ moment' = moment + 1
        /\ \A f \in writing : moment - born[f] < Grace - 1
        /\ \A r \in reading : moment - r.since < Grace - 1
        /\ UNCHANGED <<field, days, history, files, born, doomed, writing, reading>>
    BY <1>8 DEF HistoryTick
  <2>2. Named' = Named
    BY <2>1 DEF Named
  <2>3. HistoryTyped'
    BY <1>0, <1>a, <2>1 DEF HistoryTyped, HistoryTypeOK
  <2>4. NotDoomed' /\ FilesThere'
    BY <1>0, <2>1, <2>2 DEF NotDoomed, FilesThere
  <2> QED
    BY <2>3, <2>4 DEF HInv
<1>9. ASSUME \/ \E text \in {Empty, 0, 1} : SaveRetention(text)
             \/ ResetRetention \/ UNCHANGED historyVars
      PROVE HInv'
  <2>1. /\ UNCHANGED <<moment, history, files, born, doomed, writing, reading>>
        /\ field' \in {Empty, 0, 1} /\ days' \in {Unset, 0, 1}
    BY <1>0, <1>9 DEF SaveRetention, ResetRetention, historyVars, normaliseSettingValue,
       HistoryTypeOK, Empty
  <2>2. Named' = Named
    BY <2>1 DEF Named
  <2>3. HistoryTyped'
    BY <1>0, <2>1 DEF HistoryTyped, HistoryTypeOK
  <2>4. NotDoomed' /\ FilesThere'
    BY <1>0, <2>1, <2>2 DEF NotDoomed, FilesThere
  <2> QED
    BY <2>3, <2>4 DEF HInv
<1> QED
  BY <1>1, <1>2, <1>3, <1>4, <1>5, <1>6, <1>7, <1>8, <1>9 DEF HistoryNext

\* Whatever is rewritten, expired and cleaned up, the files of every snapshot, of
\* every query under way and of every transaction not yet committed stay: each was
\* named, or scheduled for deletion, after the query began (db.js, runMaintenance).
THEOREM FilesStay == HistorySpec => [](HistoryTypeOK /\ FilesThere)
<1>1. HInv => HistoryTypeOK /\ FilesThere
  BY DEF HInv, HistoryTyped
<1>2. HInv /\ [HistoryNext]_historyVars => HInv'
  BY StepHistory
<1> QED
  BY InitHistory, <1>1, <1>2, PTL DEF HistorySpec

-----------------------------------------------------------------------------
(* Archives of exports (ZipArchive)                                        *)

EntryRecords == [offset : Nat, csize : Nat, usize : Nat]
SentRecords == [at : Nat, units : Nat, bytes : Nat]

\* An entry as the writer knows it tells where its data was sent, and how much.
Tells(e, s) == e.offset = s.at /\ e.csize = s.units /\ e.usize = s.bytes

ZipTyped ==
  /\ offset \in Nat /\ pending \in Nat
  /\ entries \in Seq(EntryRecords) /\ sent \in Seq(SentRecords)
  /\ compress \in BOOLEAN
  /\ open # << >> => Len(open) = 1 /\ open \in Seq(EntryRecords)

\* The entries closed and open are those sent, in order, and the archive ends where
\* the last of them does: after its header, its data and its descriptor.
Follows ==
  /\ open = << >> => Len(sent) = Len(entries)
  /\ open # << >> =>
       /\ Len(sent) = Len(entries) + 1
       /\ Tells(open[1], sent[Len(sent)])
       /\ offset = sent[Len(sent)].at + 1 + sent[Len(sent)].units
  /\ \A i \in 1 .. Len(entries) : Tells(entries[i], sent[i])
  /\ open = << >> /\ entries # << >> /\ end = << >> =>
       offset = sent[Len(sent)].at + sent[Len(sent)].units + 2
  /\ end # << >> => open = << >> /\ entries # << >>

\* The directory that was sent is that of the entries.
Directory ==
  end # << >> =>
    /\ central = [i \in DOMAIN entries |-> Record(entries[i])]
    /\ \E start \in Nat :
         /\ start = sent[Len(sent)].at + sent[Len(sent)].units + 2
         /\ LET zip64 == Len(entries) >= Max16 \/ Len(entries) >= Max32 \/ start >= Max32
            IN end = [count |-> Clip(Len(entries), Max16), start |-> Clip(start, Max32),
                      zip64 |-> IF zip64 THEN <<Len(entries), start>> ELSE << >>]

\* The inductive invariant of ArchiveReadable.
ZInv == ZipTyped /\ Follows /\ Directory

\* What appending a sequence of one element does.
LEMMA OneMore ==
  ASSUME NEW S, NEW s \in Seq(S), NEW t \in Seq(S), Len(t) = 1
  PROVE  /\ Len(s \o t) = Len(s) + 1 /\ (s \o t)[Len(s) + 1] = t[1]
         /\ s \o t \in Seq(S)
         /\ \A i \in 1 .. Len(s) : (s \o t)[i] = s[i]
<1>0. /\ s \o t \in Seq(S) /\ Len(s \o t) = Len(s) + Len(t)
      /\ \A i \in 1 .. Len(s) + Len(t) : (s \o t)[i] = IF i <= Len(s) THEN s[i] ELSE t[i - Len(s)]
  BY ONLY s \in Seq(S), t \in Seq(S), ConcatProperties, Zenon
<1>1. /\ s \o t \in Seq(S) /\ Len(s \o t) = Len(s) + 1
      /\ \A i \in 1 .. Len(s) + 1 : (s \o t)[i] = IF i <= Len(s) THEN s[i] ELSE t[i - Len(s)]
  BY ONLY Len(t) = 1, <1>0, Zenon
<1>2. Len(s) \in Nat
  OBVIOUS
<1> DEFINE n == Len(s)
<1>3. (s \o t)[n + 1] = t[1]
  <2> n + 1 \in 1 .. n + 1 /\ ~(n + 1 <= n) /\ n + 1 - n = 1
    BY <1>2
  <2> QED
    BY <1>1
<1>4. \A i \in 1 .. n : (s \o t)[i] = s[i]
  BY <1>1, <1>2
<1> QED
  BY <1>1, <1>3, <1>4

\* What a reader makes of a record of the directory is the entry it was made from,
\* whichever of its fields reach the limit.
LEMMA ReadBack ==
  ASSUME NEW e \in EntryRecords
  PROVE  /\ ReadEntry(Record(e)).offset = e.offset
         /\ ReadEntry(Record(e)).csize = e.csize
         /\ ReadEntry(Record(e)).usize = e.usize
<1> USE ZipAssumption
<1> DEFINE r == Record(e)
           U == e.usize >= Max32
           C == e.csize >= Max32
           O == e.offset >= Max32
<1>0. e.usize \in Nat /\ e.csize \in Nat /\ e.offset \in Nat
  BY DEF EntryRecords
<1>1. /\ r.usize = (IF U THEN Max32 ELSE e.usize)
      /\ r.csize = (IF C THEN Max32 ELSE e.csize)
      /\ r.offset = (IF O THEN Max32 ELSE e.offset)
      /\ r.extra = Extra(e)
  BY DEF Record, Clip
<1>2. /\ r["usize"] = r.usize /\ r["csize"] = r.csize /\ r["offset"] = r.offset
  OBVIOUS
<1>3. /\ Clipped(r)["usize"] = U /\ Clipped(r)["csize"] = C /\ Clipped(r)["offset"] = O
  BY <1>0, <1>1, <1>2 DEF Clipped
<1>4. /\ Taken(r, {}) = 1
      /\ Taken(r, {"usize"}) = (IF U THEN 2 ELSE 1)
      /\ Taken(r, {"usize", "csize"}) = (IF U /\ C THEN 3 ELSE IF U \/ C THEN 2 ELSE 1)
  <2>1. {f \in {} : Clipped(r)[f]} = {}
    OBVIOUS
  <2>2. {f \in {"usize"} : Clipped(r)[f]} = IF U THEN {"usize"} ELSE {}
    BY <1>3
  <2>3. {f \in {"usize", "csize"} : Clipped(r)[f]} =
          IF U THEN IF C THEN {"usize", "csize"} ELSE {"usize"} ELSE IF C THEN {"csize"} ELSE {}
    BY <1>3
  <2>4. {"usize", "csize"} # {} /\ {"usize", "csize"} # {"usize"} /\ {"usize", "csize"} # {"csize"}
    OBVIOUS
  <2> QED
    BY <2>1, <2>2, <2>3, <2>4 DEF Taken
<1>5. /\ U => r.extra[1] = e.usize /\ Len(r.extra) >= 1
      /\ C => IF U THEN r.extra[2] = e.csize /\ Len(r.extra) >= 2
              ELSE r.extra[1] = e.csize /\ Len(r.extra) >= 1
      /\ O => IF U /\ C THEN r.extra[3] = e.offset /\ Len(r.extra) >= 3
              ELSE IF U \/ C THEN r.extra[2] = e.offset /\ Len(r.extra) >= 2
              ELSE r.extra[1] = e.offset /\ Len(r.extra) >= 1
  BY <1>0, <1>1 DEF Extra
<1> HIDE DEF r, U, C, O
<1>6. /\ Value(r, "usize", {}) = e.usize
      /\ Value(r, "csize", {"usize"}) = e.csize
      /\ Value(r, "offset", {"usize", "csize"}) = e.offset
  BY <1>1, <1>2, <1>3, <1>4, <1>5 DEF Value
<1> QED
  BY <1>6 DEF ReadEntry, r

LEMMA InitZip == ZipInit => ZInv
<1> SUFFICES ASSUME ZipInit PROVE ZInv
  OBVIOUS
<1>1. << >> \in Seq(EntryRecords) /\ << >> \in Seq(SentRecords) /\ Len(<< >>) = 0
  OBVIOUS
<1>2. ZipTyped
  BY <1>1 DEF ZipInit, ZipTyped
<1>3. Follows
  BY <1>1 DEF ZipInit, Follows
<1>4. Directory
  BY DEF ZipInit, Directory
<1> QED
  BY <1>2, <1>3, <1>4 DEF ZInv

\* An entry, and what is known of it, as more of it is sent.
Larger(e, du, db) == [offset |-> e.offset, csize |-> e.csize + du, usize |-> e.usize + db]
Longer(s, du, db) == [at |-> s.at, units |-> s.units + du, bytes |-> s.bytes + db]

LEMMA EntryGrows ==
  ASSUME NEW e \in EntryRecords, NEW du \in Nat, NEW db \in Nat
  PROVE  /\ Larger(e, du, db) \in EntryRecords
         /\ Larger(e, du, db).offset = e.offset
         /\ Larger(e, du, db).csize = e.csize + du
         /\ Larger(e, du, db).usize = e.usize + db
  BY DEF EntryRecords, Larger

LEMMA SentGrows ==
  ASSUME NEW s \in SentRecords, NEW du \in Nat, NEW db \in Nat
  PROVE  /\ Longer(s, du, db) \in SentRecords
         /\ Longer(s, du, db).at = s.at
         /\ Longer(s, du, db).units = s.units + du
         /\ Longer(s, du, db).bytes = s.bytes + db
  BY DEF SentRecords, Longer

LEMMA EntryUpdates ==
  ASSUME NEW e \in EntryRecords
  PROVE  /\ [e EXCEPT !.usize = e.usize + 1] = Larger(e, 0, 1)
         /\ [e EXCEPT !.usize = e.usize + 1, !.csize = e.csize + 1] = Larger(e, 1, 1)
         /\ [e EXCEPT !.csize = e.csize + 1] = Larger(e, 1, 0)
<1>1. PICK o \in Nat, c \in Nat, u \in Nat : e = [offset |-> o, csize |-> c, usize |-> u]
  BY DEF EntryRecords
<1>2. [e EXCEPT !.usize = e.usize + 1] = [offset |-> o, csize |-> c, usize |-> u + 1]
  BY <1>1
<1>3. [e EXCEPT !.usize = e.usize + 1, !.csize = e.csize + 1]
        = [offset |-> o, csize |-> c + 1, usize |-> u + 1]
  <2> DEFINE r == [offset |-> o, csize |-> c, usize |-> u]
  <2>1. [r EXCEPT !.usize = u + 1, !.csize = c + 1] = [offset |-> o, csize |-> c + 1, usize |-> u + 1]
    <3>1. [r EXCEPT !.usize = u + 1] = [offset |-> o, csize |-> c, usize |-> u + 1]
      OBVIOUS
    <3>2. [[offset |-> o, csize |-> c, usize |-> u + 1] EXCEPT !.csize = c + 1] = [offset |-> o, csize |-> c + 1, usize |-> u + 1]
      OBVIOUS
    <3>3. [r EXCEPT !.usize = u + 1, !.csize = c + 1]
            = [[r EXCEPT !.usize = u + 1] EXCEPT !.csize = c + 1]
      <4> HIDE DEF r
      <4> QED
        OBVIOUS
    <3> QED
      BY <3>1, <3>2, <3>3
  <2>2. e.usize = u /\ e.csize = c
    BY <1>1
  <2> QED
    BY <1>1, <2>1, <2>2
<1>4. [e EXCEPT !.csize = e.csize + 1] = [offset |-> o, csize |-> c + 1, usize |-> u]
  BY <1>1
<1>5. /\ Larger(e, 0, 1) = [offset |-> o, csize |-> c, usize |-> u + 1]
      /\ Larger(e, 1, 1) = [offset |-> o, csize |-> c + 1, usize |-> u + 1]
      /\ Larger(e, 1, 0) = [offset |-> o, csize |-> c + 1, usize |-> u]
  BY <1>1 DEF Larger
<1> QED
  BY <1>2, <1>3, <1>4, <1>5

LEMMA SentUpdates ==
  ASSUME NEW s \in SentRecords
  PROVE  /\ [s EXCEPT !.bytes = s.bytes + 1] = Longer(s, 0, 1)
         /\ [s EXCEPT !.bytes = s.bytes + 1, !.units = s.units + 1] = Longer(s, 1, 1)
         /\ [s EXCEPT !.units = s.units + 1] = Longer(s, 1, 0)
<1>1. PICK a \in Nat, n \in Nat, b \in Nat : s = [at |-> a, units |-> n, bytes |-> b]
  BY DEF SentRecords
<1>2. [s EXCEPT !.bytes = s.bytes + 1] = [at |-> a, units |-> n, bytes |-> b + 1]
  BY <1>1
<1>3. [s EXCEPT !.bytes = s.bytes + 1, !.units = s.units + 1]
        = [at |-> a, units |-> n + 1, bytes |-> b + 1]
  <2> DEFINE r == [at |-> a, units |-> n, bytes |-> b]
  <2>1. [r EXCEPT !.bytes = b + 1, !.units = n + 1] = [at |-> a, units |-> n + 1, bytes |-> b + 1]
    <3>1. [r EXCEPT !.bytes = b + 1] = [at |-> a, units |-> n, bytes |-> b + 1]
      OBVIOUS
    <3>2. [[at |-> a, units |-> n, bytes |-> b + 1] EXCEPT !.units = n + 1] = [at |-> a, units |-> n + 1, bytes |-> b + 1]
      OBVIOUS
    <3>3. [r EXCEPT !.bytes = b + 1, !.units = n + 1]
            = [[r EXCEPT !.bytes = b + 1] EXCEPT !.units = n + 1]
      <4> HIDE DEF r
      <4> QED
        OBVIOUS
    <3> QED
      BY <3>1, <3>2, <3>3
  <2>2. s.bytes = b /\ s.units = n
    BY <1>1
  <2> QED
    BY <1>1, <2>1, <2>2
<1>4. [s EXCEPT !.units = s.units + 1] = [at |-> a, units |-> n + 1, bytes |-> b]
  BY <1>1
<1>5. /\ Longer(s, 0, 1) = [at |-> a, units |-> n, bytes |-> b + 1]
      /\ Longer(s, 1, 1) = [at |-> a, units |-> n + 1, bytes |-> b + 1]
      /\ Longer(s, 1, 0) = [at |-> a, units |-> n + 1, bytes |-> b]
  BY <1>1 DEF Longer
<1> QED
  BY <1>2, <1>3, <1>4, <1>5

LEMMA ZipGrows ==
  ASSUME ZipTyped, Follows, Directory, open # << >>, NEW du \in Nat, NEW db \in Nat,
         NEW e1, e1 = Larger(open[1], du, db), open' = [open EXCEPT ![1] = e1],
         NEW s1, s1 = Longer(sent[Len(sent)], du, db), sent' = [sent EXCEPT ![Len(sent)] = s1],
         offset' = offset + du, pending' \in Nat,
         UNCHANGED <<entries, compress, central, end>>
  PROVE  ZInv'
<1> DEFINE n == Len(sent)
<1>1. /\ n \in 1 .. Len(sent) /\ n = Len(entries) + 1 /\ Len(entries) \in Nat
      /\ Len(open) = 1 /\ open \in Seq(EntryRecords) /\ sent \in Seq(SentRecords)
  BY DEF ZipTyped, Follows
<1>2. open[1] \in EntryRecords /\ sent[n] \in SentRecords
  BY <1>1
<1>3. /\ e1 \in EntryRecords /\ e1.offset = open[1].offset
      /\ e1.csize = open[1].csize + du /\ e1.usize = open[1].usize + db
  BY <1>2, EntryGrows, ZenonT(60)
<1>4. /\ s1 \in SentRecords /\ s1.at = sent[n].at
      /\ s1.units = sent[n].units + du /\ s1.bytes = sent[n].bytes + db
  BY <1>2, SentGrows, ZenonT(60)
<1>5. Tells(e1, s1)
  BY <1>3, <1>4 DEF Tells, Follows
<1>6. /\ open' \in Seq(EntryRecords) /\ Len(open') = 1 /\ open'[1] = e1
  <2>1. 1 \in 1 .. Len(open)
    BY <1>1
  <2> QED
    BY <1>1, <1>3, <2>1, ExceptSeq
<1>7. /\ sent' \in Seq(SentRecords) /\ Len(sent') = Len(sent)
      /\ \A j \in 1 .. Len(sent) : sent'[j] = IF j = n THEN s1 ELSE sent[j]
  BY <1>1, <1>4, ExceptSeq
<1>a. /\ open' # << >> /\ n \in Nat /\ sent'[n] = s1
      /\ \A i \in 1 .. Len(entries) : sent'[i] = sent[i]
  BY <1>1, <1>6, <1>7
<1>8. ZipTyped'
  BY <1>6, <1>7 DEF ZipTyped
<1>9. Follows'
  <2>1. offset = sent[n].at + 1 + sent[n].units /\ offset \in Nat /\ end = << >>
        /\ \A i \in 1 .. Len(entries) : Tells(entries[i], sent[i])
    BY DEF Follows, ZipTyped
  <2>2. sent[n].at \in Nat /\ sent[n].units \in Nat
    BY <1>2 DEF SentRecords
  <2>3. \A i \in 1 .. Len(entries) : Tells(entries'[i], sent'[i])
    BY <1>a, <2>1
  <2>4. Tells(open'[1], sent'[n]) /\ offset' = sent'[n].at + 1 + sent'[n].units
    <3>1. Tells(open'[1], sent'[n])
      BY <1>5, <1>6, <1>a
    <3>2. sent'[n].at = sent[n].at /\ sent'[n].units = sent[n].units + du
      BY <1>4, <1>a
    <3>3. offset = sent[n].at + 1 + sent[n].units /\ offset' = offset + du
      BY <2>1
    <3>4. offset' = sent'[n].at + 1 + sent'[n].units
      <4> HIDE DEF n
      <4> QED
        BY ONLY <2>2, <3>2, <3>3, du \in Nat
    <3> QED
      BY <3>1, <3>4
  <2>5. Len(sent') = n /\ end' = << >> /\ entries' = entries
    BY <1>7, <2>1
  <2> HIDE DEF n
  <2> QED
    BY <1>1, <1>a, <2>3, <2>4, <2>5 DEF Follows, Tells
<1>10. Directory'
  BY DEF Directory, Follows
<1> QED
  BY <1>8, <1>9, <1>10 DEF ZInv

LEMMA StepZip == ASSUME ZInv, [ZipNext]_zvars PROVE ZInv'
<1> USE ZipAssumption DEF Emit
<1>0. ZipTyped /\ Follows /\ Directory
  BY DEF ZInv
<1>a. /\ Len(sent) \in Nat /\ Len(entries) \in Nat
      /\ \A i \in 1 .. Len(sent) : sent[i] \in SentRecords
      /\ \A i \in 1 .. Len(entries) : entries[i] \in EntryRecords
      /\ open # << >> => open[1] \in EntryRecords
  BY <1>0 DEF ZipTyped
<1>1. CASE Entry
  <2> DEFINE s1 == [at |-> offset, units |-> 0, bytes |-> 0]
             e1 == [offset |-> offset, csize |-> 0, usize |-> 0]
  <2>1. /\ open = << >> /\ end = << >> /\ open' = <<e1>>
        /\ compress' \in BOOLEAN /\ offset' = offset + 1 /\ sent' = Append(sent, s1)
        /\ UNCHANGED <<entries, pending, central, end>>
    BY <1>1 DEF Entry
  <2>2. s1 \in SentRecords /\ e1 \in EntryRecords /\ Tells(e1, s1) /\ s1.at = offset /\ s1.units = 0
    BY <1>0 DEF ZipTyped, SentRecords, EntryRecords, Tells
  <2> HIDE DEF s1, e1
  <2>3. /\ Len(sent') = Len(sent) + 1 /\ sent'[Len(sent')] = s1 /\ sent' \in Seq(SentRecords)
        /\ \A i \in 1 .. Len(sent) : sent'[i] = sent[i]
    BY <1>0, <2>1, <2>2 DEF ZipTyped
  <2>4. open' # << >> /\ Len(open') = 1 /\ open' \in Seq(EntryRecords) /\ open'[1] = e1
    BY <2>1, <2>2
  <2>5. ZipTyped'
    BY <1>0, <2>1, <2>3, <2>4 DEF ZipTyped
  <2>6. Follows'
    BY <1>0, <1>a, <2>1, <2>2, <2>3, <2>4 DEF ZipTyped, Follows, Tells
  <2>7. Directory'
    BY <2>1 DEF Directory
  <2> QED
    BY <2>5, <2>6, <2>7 DEF ZInv
<1>2. CASE Write \/ Drain
  <2>0. open # << >> /\ open[1] \in EntryRecords /\ sent[Len(sent)] \in SentRecords
        /\ offset \in Nat /\ pending \in Nat
    BY <1>0, <1>2, <1>a DEF Write, Drain, Follows, ZipTyped
  <2> DEFINE n == Len(sent)
             Grown(du, db) ==
               /\ open' = [open EXCEPT ![1] = Larger(open[1], du, db)]
               /\ sent' = [sent EXCEPT ![n] = Longer(sent[n], du, db)]
               /\ offset' = offset + du /\ pending' \in Nat
               /\ UNCHANGED <<entries, compress, central, end>>
  <2>1. ASSUME NEW du \in Nat, NEW db \in Nat, Grown(du, db) PROVE ZInv'
    BY <1>0, <2>0, <2>1, ZipGrows
  <2>2. CASE Write /\ compress
    <3>1. /\ pending' = pending + 1
          /\ open' = [open EXCEPT ![1] = [open[1] EXCEPT !.usize = open[1].usize + 1]]
          /\ sent' = [sent EXCEPT ![n] = [sent[n] EXCEPT !.bytes = sent[n].bytes + 1]]
          /\ UNCHANGED <<entries, compress, central, end, offset>>
      BY <2>2 DEF Write, Sent
    <3>2. /\ [open[1] EXCEPT !.usize = open[1].usize + 1] = Larger(open[1], 0, 1)
          /\ [sent[n] EXCEPT !.bytes = sent[n].bytes + 1] = Longer(sent[n], 0, 1)
      BY <2>0, EntryUpdates, SentUpdates
    <3>3. offset' = offset + 0 /\ pending' \in Nat
      BY <2>0, <3>1
    <3>4. Grown(0, 1)
      BY <3>1, <3>2, <3>3
    <3> QED
      BY <2>1, <3>4
  <2>3. CASE Write /\ ~compress
    <3>1. /\ open' = [open EXCEPT ![1] = [open[1] EXCEPT !.usize = open[1].usize + 1,
                                                          !.csize = open[1].csize + 1]]
          /\ sent' = [sent EXCEPT ![n] = [sent[n] EXCEPT !.bytes = sent[n].bytes + 1,
                                                          !.units = sent[n].units + 1]]
          /\ offset' = offset + 1
          /\ UNCHANGED <<entries, compress, central, end, pending>>
      BY <2>0, <2>3, ZenonT(60) DEF Write, EntryRecords, SentRecords
    <3>2. Grown(1, 1)
      BY <2>0, <3>1, EntryUpdates, SentUpdates
    <3> QED
      BY <2>1, <3>2
  <2>4. CASE Drain
    <3>1. /\ open' = [open EXCEPT ![1] = [open[1] EXCEPT !.csize = open[1].csize + 1]]
          /\ sent' = [sent EXCEPT ![n] = [sent[n] EXCEPT !.units = sent[n].units + 1]]
          /\ offset' = offset + 1
          /\ UNCHANGED <<entries, compress, central, end>>
      BY <2>4 DEF Drain, Sent
    <3>2. pending' \in Nat
      BY <2>0, <2>4, SMTT(30) DEF Drain
    <3>3. Grown(1, 0)
      BY <2>0, <3>1, <3>2, EntryUpdates, SentUpdates
    <3> QED
      BY <2>1, <3>3
  <2> QED
    BY <1>2, <2>2, <2>3, <2>4
<1>3. CASE Close
  <2> DEFINE e1 == open[1]
  <2>1. /\ open # << >> /\ entries' = entries \o open /\ open' = << >> /\ offset' = offset + 1
        /\ UNCHANGED <<pending, compress, central, end, sent>>
    BY <1>3 DEF Close
  <2>2. /\ Len(entries') = Len(entries) + 1 /\ entries'[Len(entries) + 1] = open[1]
        /\ entries' \in Seq(EntryRecords)
        /\ \A i \in 1 .. Len(entries) : entries'[i] = entries[i]
    <3>1. entries \in Seq(EntryRecords) /\ open \in Seq(EntryRecords) /\ Len(open) = 1
      BY <1>0, <2>1 DEF ZipTyped
    <3>2. entries' = entries \o open
      BY <2>1
    <3> HIDE DEF e1
    <3> QED
      BY ONLY <3>1, <3>2, OneMore
  <2>3. entries' # << >>
    BY <1>a, <2>2
  <2>4. ZipTyped'
    BY <1>0, <2>1, <2>2 DEF ZipTyped
  <2>5. Follows'
    <3>1. /\ Len(sent) = Len(entries) + 1 /\ Tells(open[1], sent[Len(sent)])
          /\ offset = sent[Len(sent)].at + 1 + sent[Len(sent)].units /\ end = << >>
      BY <1>0, <2>1 DEF Follows
    <3>2. sent[Len(sent)].at \in Nat /\ sent[Len(sent)].units \in Nat
      BY <1>a, <3>1 DEF SentRecords
    <3> DEFINE n == Len(entries)
    <3>3. n \in Nat /\ \A i \in 1 .. n : Tells(entries[i], sent[i])
      BY <1>0, <1>a DEF Follows
    <3>4. \A i \in 1 .. Len(entries') : Tells(entries'[i], sent'[i])
      <4>1. Len(entries') = n + 1 /\ entries'[n + 1] = open[1] /\ sent' = sent /\ Len(sent) = n + 1
            /\ \A i \in 1 .. n : entries'[i] = entries[i]
        BY <2>1, <2>2, <3>1
      <4> HIDE DEF n
      <4>2. \A i \in 1 .. n + 1 : i \in 1 .. n \/ i = n + 1
        BY <3>3
      <4> QED
        BY <3>1, <3>3, <4>1, <4>2
    <3>5. open' = << >> /\ end' = << >> /\ sent' = sent /\ Len(sent') = Len(entries')
      BY <2>1, <2>2, <3>1
    <3>6. offset' = sent'[Len(sent')].at + sent'[Len(sent')].units + 2
      BY <2>1, <3>1, <3>2, SMTT(60)
    <3> QED
      BY <2>3, <3>4, <3>5, <3>6 DEF Follows
  <2>6. Directory'
    BY <1>0, <2>1 DEF Directory, Follows
  <2> QED
    BY <2>4, <2>5, <2>6 DEF ZInv
<1>4. CASE FinishArchive
  <2> DEFINE zip64 == Len(entries) >= Max16 \/ Len(entries) >= Max32 \/ offset >= Max32
             last == [count |-> Clip(Len(entries), Max16), start |-> Clip(offset, Max32),
                      zip64 |-> IF zip64 THEN <<Len(entries), offset>> ELSE << >>]
  <2>1. /\ open = << >> /\ end = << >> /\ entries # << >> /\ end' = last
        /\ central' = [i \in DOMAIN entries |-> Record(entries[i])]
        /\ UNCHANGED <<entries, open, pending, compress, sent>>
        /\ offset' \in Nat
    BY <1>0, <1>4, <1>a DEF FinishArchive, ZipTyped
  <2>2. offset \in Nat /\ offset = sent[Len(sent)].at + sent[Len(sent)].units + 2
    BY <1>0, <2>1 DEF Follows, ZipTyped
  <2>3. last # << >>
    <3>1. "count" \in DOMAIN last /\ DOMAIN << >> = {}
      OBVIOUS
    <3> QED
      BY <3>1
  <2>4. ZipTyped'
    BY <1>0, <2>1 DEF ZipTyped
  <2>5. Follows'
    BY <1>0, <2>1, <2>3 DEF Follows
  <2>6. Directory'
    BY <2>1, <2>2 DEF Directory
  <2> QED
    BY <2>4, <2>5, <2>6 DEF ZInv
<1>5. CASE UNCHANGED zvars
  BY <1>5 DEF zvars, ZInv, ZipTyped, Follows, Directory
<1> QED
  BY <1>1, <1>2, <1>3, <1>4, <1>5 DEF ZipNext

LEMMA ArchiveIsReadable == ASSUME ZInv PROVE ArchiveReadable
<1> SUFFICES ASSUME end # << >> PROVE
      /\ ReadCount = Len(sent)
      /\ ReadStart = sent[Len(sent)].at + sent[Len(sent)].units + 2
      /\ \A i \in DOMAIN sent :
           LET e == ReadEntry(central[i])
           IN e.offset = sent[i].at /\ e.csize = sent[i].units /\ e.usize = sent[i].bytes
  BY DEF ArchiveReadable
<1> USE ZipAssumption
<1>0. /\ ZipTyped /\ Follows /\ Directory /\ open = << >> /\ Len(sent) = Len(entries)
      /\ Len(entries) \in Nat /\ DOMAIN sent = DOMAIN entries /\ DOMAIN entries = 1 .. Len(entries)
  BY DEF ZInv, Follows, ZipTyped
<1>1. PICK start \in Nat :
         /\ start = sent[Len(sent)].at + sent[Len(sent)].units + 2
         /\ LET zip64 == Len(entries) >= Max16 \/ Len(entries) >= Max32 \/ start >= Max32
            IN end = [count |-> Clip(Len(entries), Max16), start |-> Clip(start, Max32),
                      zip64 |-> IF zip64 THEN <<Len(entries), start>> ELSE << >>]
  BY <1>0 DEF Directory
<1>2. ReadCount = Len(entries) /\ ReadStart = start
  <2>1. CASE Len(entries) >= Max16 \/ Len(entries) >= Max32 \/ start >= Max32
    <3>1. end.zip64 = <<Len(entries), start>>
      BY <1>1, <2>1
    <3>2. end.zip64 # << >> /\ end.zip64[1] = Len(entries) /\ end.zip64[2] = start
      BY <3>1, SMTT(60)
    <3> QED
      BY <3>2 DEF ReadCount, ReadStart
  <2>2. CASE ~(Len(entries) >= Max16 \/ Len(entries) >= Max32 \/ start >= Max32)
    BY <1>0, <1>1, <2>2 DEF ReadCount, ReadStart, Clip
  <2> QED
    BY <2>1, <2>2
<1>3. ASSUME NEW i \in DOMAIN sent
      PROVE  LET e == ReadEntry(central[i])
             IN e.offset = sent[i].at /\ e.csize = sent[i].units /\ e.usize = sent[i].bytes
  <2>1. central[i] = Record(entries[i]) /\ Tells(entries[i], sent[i]) /\ entries[i] \in EntryRecords
    BY <1>0 DEF Directory, Follows, ZipTyped
  <2> QED
    BY <2>1, ReadBack DEF Tells
<1> QED
  BY <1>0, <1>1, <1>2, <1>3

\* A reader of a finished archive finds every entry where it was sent and with the
\* sizes it has, whatever the limits of the old format are (zip.js, finish): a
\* value at a limit is in the ZIP64 field, at the place where a reader looks.
THEOREM ArchivesReadable == ZipSpec => []ArchiveReadable
<1>1. ZInv /\ [ZipNext]_zvars => ZInv'
  BY StepZip
<1>2. ZInv => ArchiveReadable
  BY ArchiveIsReadable
<1> QED
  BY InitZip, <1>1, <1>2, PTL DEF ZipSpec

-----------------------------------------------------------------------------
(* Saved graphs (SavedGraphs)                                              *)

GraphCalls == [op : {"none", "post", "delete", "query"},
               pc : {"idle", "clear", "insert", "drop", "create", "load", "run", "done"},
               def : Defs \cup {BadDef, NoDef}, seen : SUBSET (Defs \cup {NoDef}),
               status : {0, 200, 400, 404}, ran : Defs \cup {NoDef}]

\* What a request knows of the registry: one under way has seen all it holds, a
\* query about to run found a definition there, and its answer says what it saw.
Knows(x) ==
  /\ x \in GraphCalls
  /\ x.pc \in {"clear", "drop", "insert", "create"} => x.op \in {"post", "delete"}
  /\ x.pc \in {"insert", "create"} \/ (x.pc \in {"clear", "drop"} /\ x.op = "post") =>
       x.def \in Defs
  /\ x.pc \in {"load", "run"} => x.op = "query"
  /\ x.pc = "run" => x.def \in Defs /\ x.seen \cap Defs # {}
  /\ x.op = "query" /\ x.pc = "done" =>
       /\ x.status = 404 => NoDef \in x.seen
       /\ x.status = 200 => x.seen \cap Defs # {}

Saw(x, rs) == x.pc \notin {"idle", "done"} => Registered(rs) \subseteq x.seen

\* The inductive invariant of RegistryDecides.
GInv ==
  /\ GraphTypeOK
  /\ \A c \in Callers : Knows(calling[c]) /\ Saw(calling[c], graphRows)

LEMMA RegisteredType ==
  ASSUME NEW rs \in Seq(Defs)
  PROVE  /\ Registered(rs) \subseteq Defs \cup {NoDef}
         /\ \A d \in Registered(rs) : d # NoDef => d \in Defs
<1>1. DOMAIN rs = 1 .. Len(rs) /\ \A i \in 1 .. Len(rs) : rs[i] \in Defs
  OBVIOUS
<1> QED
  BY <1>1 DEF Registered

\* What a request's record holds after a step of it.
LEMMA CallMoves ==
  ASSUME NEW x \in GraphCalls,
         NEW pc \in {"idle", "clear", "insert", "drop", "create", "load", "run", "done"}
  PROVE  /\ Moved(x, pc) \in GraphCalls /\ Moved(x, pc).pc = pc
         /\ Moved(x, pc).op = x.op /\ Moved(x, pc).def = x.def
         /\ Moved(x, pc).seen = x.seen /\ Moved(x, pc).status = x.status
  BY DEF GraphCalls, Moved

LEMMA CallAnswered ==
  ASSUME NEW x \in GraphCalls, NEW status \in {0, 200, 400, 404}
  PROVE  LET y == Replied(x, status)
         IN /\ y \in GraphCalls /\ y.pc = "done" /\ y.status = status
            /\ y.op = x.op /\ y.def = x.def /\ y.seen = x.seen
<1> DEFINE p == [x EXCEPT !.pc = "done"]
           q == [p EXCEPT !.status = status]
<1>1. Replied(x, status) = q
  BY DEF Replied
<1>2. /\ p \in GraphCalls /\ p.pc = "done" /\ p.op = x.op /\ p.def = x.def /\ p.seen = x.seen
  BY DEF GraphCalls
<1> HIDE DEF p
<1>3. /\ q \in GraphCalls /\ q.pc = "done" /\ q.status = status
      /\ q.op = x.op /\ q.def = x.def /\ q.seen = x.seen
  BY <1>2 DEF GraphCalls
<1> HIDE DEF q
<1> QED
  BY <1>1, <1>3

LEMMA CallFound ==
  ASSUME NEW x \in GraphCalls, NEW def \in Defs
  PROVE  LET y == Located(x, def)
         IN /\ y \in GraphCalls /\ y.pc = "run" /\ y.def = def
            /\ y.op = x.op /\ y.seen = x.seen
<1> DEFINE p == [x EXCEPT !.pc = "run"]
           q == [p EXCEPT !.def = def]
<1>1. Located(x, def) = q
  BY DEF Located
<1>2. /\ p \in GraphCalls /\ p.pc = "run" /\ p.op = x.op /\ p.seen = x.seen
  BY DEF GraphCalls
<1> HIDE DEF p
<1>3. q \in GraphCalls /\ q.pc = "run" /\ q.def = def /\ q.op = x.op /\ q.seen = x.seen
  BY <1>2 DEF GraphCalls
<1> HIDE DEF q
<1> QED
  BY <1>1, <1>3

LEMMA CallRan ==
  ASSUME NEW x \in GraphCalls, NEW def \in Defs \cup {NoDef}
  PROVE  LET y == Ran(x, def)
         IN /\ y \in GraphCalls /\ y.pc = "done" /\ y.status = 200
            /\ y.op = x.op /\ y.seen = x.seen
<1> DEFINE p == Replied(x, 200)
<1>1. /\ p \in GraphCalls /\ p.pc = "done" /\ p.status = 200
      /\ p.op = x.op /\ p.seen = x.seen
  BY CallAnswered
<1> HIDE DEF p
<1>2. Ran(x, def) = [p EXCEPT !.ran = def]
  BY DEF Ran, p
<1> QED
  BY <1>1, <1>2 DEF GraphCalls

\* A request that sees more knows no less.
LEMMA SeesMore ==
  ASSUME NEW x, Knows(x), NEW more, more \subseteq Defs \cup {NoDef}
  PROVE  LET y == [x EXCEPT !.seen = @ \cup more]
         IN Knows(y) /\ more \subseteq y.seen /\ y.pc = x.pc
<1> DEFINE y == [x EXCEPT !.seen = @ \cup more]
<1>1. x \in GraphCalls
  BY DEF Knows
<1>2. y \in GraphCalls
  BY <1>1 DEF GraphCalls
<1>3. /\ y.op = x.op /\ y.pc = x.pc /\ y.def = x.def /\ y.status = x.status
      /\ y.seen = x.seen \cup more
  BY <1>1 DEF GraphCalls
<1> HIDE DEF y
<1> QED
  BY <1>2, <1>3 DEF Knows, y

\* A step of one request, which may change the registry and shows it to the others.
LEMMA Witnessed ==
  ASSUME GInv, NEW c \in Callers, NEW rs \in Seq(Defs), NEW x, Knows(x), NEW after,
         after = [calling EXCEPT ![c] = x]
  PROVE  /\ Witnessing(rs, after) \in [Callers -> GraphCalls]
         /\ \A d \in Callers : /\ Knows(Witnessing(rs, after)[d])
                               /\ Saw(Witnessing(rs, after)[d], rs)
<1>1. calling \in [Callers -> GraphCalls] /\ \A d \in Callers : Knows(calling[d])
  BY DEF GInv, GraphTypeOK, GraphCalls
<1>2. ASSUME NEW d \in Callers
      PROVE  Knows(after[d]) /\ Knows(Witnessing(rs, after)[d]) /\ Saw(Witnessing(rs, after)[d], rs)
  <2>1. Knows(after[d])
    BY <1>1
  <2> DEFINE y == [after[d] EXCEPT !.seen = @ \cup Registered(rs)]
  <2>2. Knows(y) /\ Registered(rs) \subseteq y.seen /\ y.pc = after[d].pc
    BY <2>1, RegisteredType, SeesMore
  <2>3. Witnessing(rs, after)[d] = IF after[d].pc \in {"idle", "done"} THEN after[d] ELSE y
    BY DEF Witnessing
  <2> HIDE DEF y
  <2> QED
    BY <2>1, <2>2, <2>3 DEF Saw
<1>3. \A d \in Callers : Witnessing(rs, after)[d] \in GraphCalls
  BY <1>2 DEF Knows
<1>4. Witnessing(rs, after) = [d \in Callers |-> Witnessing(rs, after)[d]]
  BY DEF Witnessing
<1>5. Witnessing(rs, after) \in [Callers -> GraphCalls]
  BY <1>3, <1>4
<1> QED
  BY <1>2, <1>5

\* A step of one request that leaves the registry alone.
LEMMA Unwitnessed ==
  ASSUME GInv, NEW c \in Callers, NEW x, Knows(x), Saw(x, graphRows),
         calling' = [calling EXCEPT ![c] = x], UNCHANGED graphRows,
         held' \in [Instances -> Defs \cup {NoDef}], graphCalls' \in 0 .. MaxGraphCalls
  PROVE  GInv'
<1>1. calling \in [Callers -> GraphCalls] /\ x \in GraphCalls
  BY DEF GInv, GraphTypeOK, GraphCalls, Knows
<1>2. calling' \in [Callers -> GraphCalls]
  BY <1>1
<1>3. GraphTypeOK'
  BY <1>2 DEF GInv, GraphTypeOK, GraphCalls
<1>4. \A d \in Callers : Knows(calling'[d]) /\ Saw(calling'[d], graphRows')
  BY <1>1 DEF GInv
<1> QED
  BY <1>3, <1>4 DEF GInv

LEMMA InitGraphs == GraphInit => GInv
<1> SUFFICES ASSUME GraphInit PROVE GInv
  OBVIOUS
<1>1. NoCall \in GraphCalls /\ Knows(NoCall) /\ NoCall.pc = "idle"
  BY DEF NoCall, Call, GraphCalls, Knows
<1>2. \A c \in Callers : calling[c] = NoCall
  BY DEF GraphInit
<1>3. calling \in [Callers -> GraphCalls]
  BY <1>1 DEF GraphInit
<1>4. GraphTypeOK
  BY <1>3, GraphAssumption DEF GraphInit, GraphTypeOK, GraphCalls
<1> QED
  BY <1>1, <1>2, <1>4 DEF GInv, Saw

LEMMA StepGraphs == ASSUME GInv, [GraphNext]_graphVars PROVE GInv'
<1> USE GraphAssumption
<1>0. /\ GraphTypeOK /\ graphRows \in Seq(Defs) /\ held \in [Instances -> Defs \cup {NoDef}]
      /\ graphCalls \in 0 .. MaxGraphCalls /\ calling \in [Callers -> GraphCalls]
  BY DEF GInv, GraphTypeOK, GraphCalls
<1>1. ASSUME NEW c \in Callers,
             \/ BeginPost(c) \/ RefuseBody(c) \/ BeginDelete(c) \/ BeginGraphQuery(c)
             \/ ClearRows(c) \/ InsertRow(c) \/ DropHeld(c) \/ CreateHeld(c)
             \/ CreateRefused(c) \/ LoadRow(c) \/ RunQuery(c)
      PROVE  GInv'
  <2> DEFINE x == calling[c]
  <2>0. x \in GraphCalls /\ Knows(x) /\ Saw(x, graphRows)
    BY <1>0 DEF GInv
  <2>1. CASE BeginPost(c) \/ BeginDelete(c) \/ BeginGraphQuery(c)
    <3>1. PICK op \in {"post", "delete", "query"}, pc \in {"clear", "load"}, def \in Defs \cup {NoDef} :
            /\ BeginCall(c, op, pc, def)
            /\ pc = "clear" => op \in {"post", "delete"}
            /\ pc = "load" => op = "query"
            /\ op = "post" => def \in Defs
      BY <2>1 DEF BeginPost, BeginDelete, BeginGraphQuery
    <3> DEFINE y == Call(op, pc, def, Registered(graphRows), 0)
    <3>2. y \in GraphCalls /\ y.op = op /\ y.pc = pc /\ y.def = def /\ y.seen = Registered(graphRows)
      BY <1>0, RegisteredType DEF Call, GraphCalls
    <3>3. /\ calling' = [calling EXCEPT ![c] = y] /\ graphCalls' = graphCalls + 1
          /\ graphCalls < MaxGraphCalls /\ UNCHANGED <<graphRows, held>>
      BY <3>1 DEF BeginCall
    <3> HIDE DEF y
    <3>4. Knows(y) /\ Saw(y, graphRows)
      BY <3>1, <3>2 DEF Knows, Saw
    <3>5. graphCalls' \in 0 .. MaxGraphCalls
      BY <1>0, <3>3
    <3> QED
      BY <1>0, <3>3, <3>4, <3>5, Unwitnessed
  <2>2. CASE RefuseBody(c)
    <3> DEFINE y == Call("post", "done", BadDef, {}, 400)
    <3>1. y \in GraphCalls /\ y.op = "post" /\ y.pc = "done"
      BY DEF Call, GraphCalls
    <3>2. /\ calling' = [calling EXCEPT ![c] = y] /\ graphCalls' = graphCalls + 1
          /\ graphCalls < MaxGraphCalls /\ UNCHANGED <<graphRows, held>>
      BY <2>2 DEF RefuseBody
    <3> HIDE DEF y
    <3>3. Knows(y) /\ Saw(y, graphRows) /\ graphCalls' \in 0 .. MaxGraphCalls
      BY <1>0, <3>1, <3>2 DEF Knows, Saw
    <3> QED
      BY <1>0, <3>2, <3>3, Unwitnessed
  <2>3. CASE ClearRows(c) \/ InsertRow(c)
    <3>1. PICK pc \in {"insert", "drop"}, rs \in Seq(Defs) :
            /\ x.pc \in {"clear", "insert"} /\ (pc = "insert" => x.op = "post")
            /\ calling' = Witnessing(rs, [calling EXCEPT ![c] = Moved(@, pc)])
            /\ graphRows' = rs /\ UNCHANGED <<held, graphCalls>>
      <4>1. CASE ClearRows(c)
        <5>1. << >> \in Seq(Defs)
          OBVIOUS
        <5>2. CASE x.op = "post"
          BY <4>1, <5>1, <5>2 DEF ClearRows
        <5>3. CASE x.op # "post"
          BY <4>1, <5>1, <5>3 DEF ClearRows
        <5> QED
          BY <5>2, <5>3
      <4>2. CASE InsertRow(c)
        <5>1. x.def \in Defs /\ Append(graphRows, x.def) \in Seq(Defs)
          BY <1>0, <2>0, <4>2 DEF InsertRow, Knows
        <5> QED
          BY <4>2, <5>1 DEF InsertRow
      <4> QED
        BY <2>3, <4>1, <4>2
    <3> DEFINE y == Moved(x, pc)
    <3>2. /\ y \in GraphCalls /\ y.op = x.op /\ y.pc = pc /\ y.def = x.def /\ y.seen = x.seen
          /\ [calling EXCEPT ![c] = Moved(@, pc)] = [calling EXCEPT ![c] = y]
      BY <1>0, <2>0, CallMoves
    <3> HIDE DEF y
    <3>3. Knows(y)
      BY <2>0, <3>1, <3>2 DEF Knows
    <3>4. /\ calling' \in [Callers -> GraphCalls]
          /\ \A d \in Callers : Knows(calling'[d]) /\ Saw(calling'[d], graphRows')
      BY <3>1, <3>2, <3>3, Witnessed, ZenonT(60)
    <3> QED
      BY <1>0, <3>1, <3>4 DEF GInv, GraphTypeOK, GraphCalls
  <2>4. CASE DropHeld(c) \/ CreateHeld(c) \/ CreateRefused(c)
    <3>1. PICK pc \in {"create", "done"}, status \in {0, 200} :
            /\ x.pc \in {"drop", "create"} /\ (pc = "create" => x.op = "post" /\ x.pc = "drop")
            /\ IF pc = "create" THEN CallGoes(c, pc) ELSE Replies(c, status)
            /\ UNCHANGED <<graphRows, graphCalls>>
            /\ held' \in [Instances -> Defs \cup {NoDef}]
      <4>1. CASE DropHeld(c)
        BY <1>0, <4>1 DEF DropHeld, Instances
      <4>2. CASE CreateHeld(c)
        <5>1. x.def \in Defs
          BY <2>0, <4>2 DEF CreateHeld, Knows
        <5> QED
          BY <1>0, <4>2, <5>1 DEF CreateHeld, Instances
      <4>3. CASE CreateRefused(c)
        BY <1>0, <4>3 DEF CreateRefused
      <4> QED
        BY <2>4, <4>1, <4>2, <4>3
    <3>2. /\ UNCHANGED graphRows /\ graphCalls' \in 0 .. MaxGraphCalls
          /\ held' \in [Instances -> Defs \cup {NoDef}]
      BY <1>0, <3>1
    <3>3. CASE pc = "create"
      <4> DEFINE y == Moved(x, pc)
      <4>1. calling' = [calling EXCEPT ![c] = y]
        BY <3>1, <3>3 DEF CallGoes
      <4>2. y \in GraphCalls /\ y.op = x.op /\ y.pc = pc /\ y.def = x.def /\ y.seen = x.seen
        BY <2>0, CallMoves
      <4> HIDE DEF y
      <4>3. Knows(y) /\ Saw(y, graphRows)
        BY <2>0, <3>1, <3>3, <4>2 DEF Knows, Saw
      <4> QED
        BY <3>2, <4>1, <4>3, Unwitnessed
    <3>4. CASE pc = "done"
      <4> DEFINE y == Replied(x, status)
      <4>1. calling' = [calling EXCEPT ![c] = y]
        BY <3>1, <3>4 DEF Replies
      <4>2. y \in GraphCalls /\ y.op = x.op /\ y.pc = "done" /\ y.def = x.def /\ y.seen = x.seen
        BY <2>0, CallAnswered
      <4> HIDE DEF y
      <4>3. Knows(y) /\ Saw(y, graphRows)
        BY <2>0, <3>1, <4>2 DEF Knows, Saw
      <4> QED
        BY <3>2, <4>1, <4>3, Unwitnessed
    <3> QED
      BY <3>3, <3>4
  <2>5. CASE LoadRow(c)
    <3>1. PICK d \in Registered(graphRows) :
            /\ x.pc = "load" /\ UNCHANGED <<graphRows, held, graphCalls>>
            /\ IF d = NoDef THEN Replies(c, 404)
               ELSE calling' = [calling EXCEPT ![c] = Located(@, d)]
      BY <2>5 DEF LoadRow
    <3>2. d \in x.seen /\ d \in Defs \cup {NoDef}
      BY <1>0, <2>0, <3>1, RegisteredType DEF Saw
    <3>3. CASE d = NoDef
      <4> DEFINE y == Replied(x, 404)
      <4>1. /\ y \in GraphCalls /\ y.op = x.op /\ y.pc = "done" /\ y.seen = x.seen /\ y.status = 404
            /\ calling' = [calling EXCEPT ![c] = y]
        BY <2>0, <3>1, <3>3, CallAnswered DEF Replies
      <4> HIDE DEF y
      <4>2. Knows(y) /\ Saw(y, graphRows)
        BY <2>0, <3>2, <3>3, <4>1 DEF Knows, Saw
      <4> QED
        BY <1>0, <3>1, <4>1, <4>2, Unwitnessed, ZenonT(60)
    <3>4. CASE d # NoDef
      <4> DEFINE y == Located(x, d)
      <4>1. /\ y \in GraphCalls /\ y.op = x.op /\ y.pc = "run" /\ y.seen = x.seen /\ y.def = d
            /\ calling' = [calling EXCEPT ![c] = y]
        BY <2>0, <3>1, <3>2, <3>4, CallFound
      <4> HIDE DEF y
      <4>2. Knows(y) /\ Saw(y, graphRows)
        BY <2>0, <3>1, <3>2, <3>4, <4>1 DEF Knows, Saw
      <4> QED
        BY <1>0, <3>1, <4>1, <4>2, Unwitnessed
    <3> QED
      BY <3>3, <3>4
  <2>6. CASE RunQuery(c)
    <3>1. /\ x.pc = "run" /\ UNCHANGED <<graphRows, graphCalls>>
          /\ held' = [held EXCEPT !["user"] = Materialized(@, x.def)]
          /\ calling' = [calling EXCEPT ![c] = Ran(@, held'["user"])]
      BY <2>6 DEF RunQuery
    <3>2. held' \in [Instances -> Defs \cup {NoDef}] /\ held'["user"] \in Defs \cup {NoDef}
      BY <1>0, <2>0, <3>1 DEF Materialized, Instances, Knows
    <3> DEFINE h == held'["user"]
               y == Ran(x, h)
    <3>3. h \in Defs \cup {NoDef} /\ calling' = [calling EXCEPT ![c] = y]
      BY <1>0, <3>1, <3>2
    <3> HIDE DEF h
    <3>4. y \in GraphCalls /\ y.op = x.op /\ y.pc = "done" /\ y.seen = x.seen /\ y.status = 200
      BY <2>0, <3>3, CallRan
    <3> HIDE DEF y
    <3>5. Knows(y) /\ Saw(y, graphRows)
      BY <2>0, <3>1, <3>4 DEF Knows, Saw
    <3> QED
      BY <1>0, <3>1, <3>2, <3>3, <3>5, Unwitnessed
  <2> QED
    BY <1>1, <2>1, <2>2, <2>3, <2>4, <2>5, <2>6
<1>2. ASSUME NEW i \in Instances, InstanceRestarts(i) PROVE GInv'
  <2>1. UNCHANGED <<graphRows, calling, graphCalls>> /\ held' \in [Instances -> Defs \cup {NoDef}]
    BY <1>0, <1>2 DEF InstanceRestarts
  <2> QED
    BY <2>1 DEF GInv, GraphTypeOK
<1>3. CASE UNCHANGED graphVars
  BY <1>3 DEF graphVars, GInv, GraphTypeOK
<1> QED
  BY <1>1, <1>2, <1>3 DEF GraphNext

\* The registry decides whether a saved graph can be queried, whatever instances
\* still hold and however edits, deletions and queries overlap: the row that the
\* query reads before it runs is the one that counts (ensureGraphMaterialized).
THEOREM RegistryAlwaysDecides ==
  GraphInit /\ [][GraphNext]_graphVars => [](GraphTypeOK /\ RegistryDecides)
<1>1. GInv /\ [GraphNext]_graphVars => GInv'
  BY StepGraphs
<1>2. GInv => GraphTypeOK /\ RegistryDecides
  BY DEF GInv, Knows, RegistryDecides, QueryDone
<1> QED
  BY InitGraphs, <1>1, <1>2, PTL

-----------------------------------------------------------------------------
(* Users, roles and ACLs (Access)                                          *)

\* What was read at or after a time is there still, or has changed since.
Current(k, rows, since) == rows \in Readable(k) \/ since <= changed[k]

\* A lookup of a request: the time is read before the rows are.
LookupSound(x) ==
  /\ x.step \in {"look", "asked", "answered"}
  /\ x.at \notin Looking => x.step = "look"
  /\ x.step # "look" => x.stamp \in Int /\ x.stamp <= hour
  /\ x.step = "answered" => Current(KindOf(x.at), x.got, x.stamp)

EntrySound(k, e) ==
  /\ e.stamp \in Int /\ e.stamp <= hour
  /\ Current(k, e.rows, e.stamp)

\* The inductive invariant of StalenessBounded.
CacheInv ==
  /\ hour \in Nat
  /\ accessRows = [k \in Kinds |-> accessRows[k]]
  /\ changed \in [Kinds -> Int] /\ \A k \in Kinds : -TTL - 1 <= changed[k]
  /\ cached = [h \in AccessHosts |-> [k \in Cached |-> cached[h][k]]]
  /\ \A h \in AccessHosts, k \in Cached : EntrySound(k, cached[h][k])
  /\ check = [c \in Checks |-> check[c]]
  /\ \A c \in Checks : LookupSound(check[c])

LEMMA KindsLookedUp ==
  ASSUME NEW at \in Looking
  PROVE  KindOf(at) \in Cached /\ KindOf(at) \in Kinds
BY DEF Looking, KindOf, Cached, Kinds

LEMMA LookupFields ==
  ASSUME NEW at, NEW step, NEW got, NEW roles, NEW stamp
  PROVE  LET y == Lookup(at, step, got, roles, stamp)
         IN y.at = at /\ y.step = step /\ y.got = got /\ y.stamp = stamp
BY DEF Lookup

LEMMA InitCaches == AccessInit => CacheInv
<1> SUFFICES ASSUME AccessInit PROVE CacheInv
  OBVIOUS
<1> USE AccessAssumption
<1>1. \A c \in Checks : LookupSound(check[c])
  BY LookupFields DEF AccessInit, NotAsking, Asking, LookupSound, Looking
<1>2. \A h \in AccessHosts, k \in Cached : EntrySound(k, cached[h][k])
  BY DEF AccessInit, NoEntry, EntrySound, Current, Cached, Kinds
<1>3. changed \in [Kinds -> Int] /\ (\A k \in Kinds : -TTL - 1 <= changed[k]) /\ hour \in Nat
  BY DEF AccessInit
<1>4. accessRows = [k \in Kinds |-> accessRows[k]] /\ check = [c \in Checks |-> check[c]]
  BY DEF AccessInit
<1>5. cached = [h \in AccessHosts |-> [k \in Cached |-> cached[h][k]]]
  BY DEF AccessInit
<1> QED
  BY <1>1, <1>2, <1>3, <1>4, <1>5 DEF CacheInv

\* A step of one request that leaves the tables and the clock alone.
LEMMA CheckStepped ==
  ASSUME CacheInv, NEW c \in Checks, NEW x, LookupSound(x), check' = [check EXCEPT ![c] = x],
         UNCHANGED <<accessRows, changed, hour>>,
         cached' = [h \in AccessHosts |-> [k \in Cached |-> cached'[h][k]]],
         \A h \in AccessHosts, k \in Cached : EntrySound(k, cached'[h][k])
  PROVE  CacheInv'
<1>1. \A d \in Checks : LookupSound(check'[d])
  BY DEF CacheInv
<1>2. check' = [d \in Checks |-> check'[d]]
  BY DEF CacheInv
<1>3. \A d \in Checks : LookupSound(check[d])'
  BY <1>1, ZenonT(60) DEF LookupSound, Current, Readable
<1>4. \A h \in AccessHosts, k \in Cached : EntrySound(k, cached[h][k])'
  BY DEF EntrySound, Current, Readable
<1> QED
  BY <1>2, <1>3, <1>4 DEF CacheInv

LEMMA StepCaches == ASSUME CacheInv, [AccessNext]_avars PROVE CacheInv'
<1> USE AccessAssumption
<1>0. /\ hour \in Nat /\ accessRows = [k \in Kinds |-> accessRows[k]] /\ changed \in [Kinds -> Int]
      /\ \A k \in Kinds : -TTL - 1 <= changed[k]
      /\ cached = [h \in AccessHosts |-> [k \in Cached |-> cached[h][k]]]
      /\ \A h \in AccessHosts, k \in Cached : EntrySound(k, cached[h][k])
      /\ check = [c \in Checks |-> check[c]]
      /\ \A c \in Checks : LookupSound(check[c])
  BY DEF CacheInv
<1>1. ASSUME NEW c \in Checks, AskAccess(c) \/ CheckStep(c) PROVE CacheInv'
  <2> DEFINE x == check[c]
  <2>1. LookupSound(x)
    BY <1>0
  <2>2. ASSUME NEW at, NEW roles PROVE LookupSound(Asking(at, roles))
    BY LookupFields DEF Asking, LookupSound
  <2>3. CASE AskAccess(c)
    BY <1>0, <2>2, <2>3, CheckStepped DEF AskAccess
  <2>4. CASE LookUp(c)
    <3>1. LookupSound(Asked(x, hour))
      BY <1>0, <2>4, LookupFields DEF LookUp, Asked, LookupSound
    <3>2. PICK y : LookupSound(y) /\ check' = [check EXCEPT ![c] = y]
      BY <2>2, <2>4, <3>1 DEF LookUp, Uses
    <3> QED
      BY <1>0, <2>4, <3>2, CheckStepped, SMTT(60) DEF LookUp
  <2>5. CASE DatabaseAnswers(c)
    <3>1. PICK v \in Readable(KindOf(x.at)) : check' = [check EXCEPT ![c] = Answer(x, v)]
      BY <2>5 DEF DatabaseAnswers
    <3>2. LookupSound(Answer(x, v))
      BY <2>1, <2>5, <3>1, LookupFields DEF DatabaseAnswers, Answer, LookupSound, Current
    <3> QED
      BY <1>0, <2>5, <3>1, <3>2, CheckStepped DEF DatabaseAnswers
  <2>6. CASE Fill(c)
    <3> DEFINE k == KindOf(x.at)
               e == [rows |-> x.got, stamp |-> x.stamp]
    <3>1. k \in Cached /\ EntrySound(k, e)
      BY <2>1, <2>6, KindsLookedUp DEF Fill, LookupSound, EntrySound
    <3>2. \/ cached' = cached
          \/ cached' = [cached EXCEPT ![AccessHost[c]] = [@ EXCEPT ![k] = e]]
      BY <2>6 DEF Fill, Stamp
    <3>3. PICK y : LookupSound(y) /\ check' = [check EXCEPT ![c] = y]
      BY <2>2, <2>6 DEF Fill, Uses
    <3>4. UNCHANGED <<accessRows, changed, hour>>
      BY <2>6 DEF Fill
    <3> HIDE DEF k, e
    <3>5. /\ cached' = [h \in AccessHosts |-> [i \in Cached |-> cached'[h][i]]]
          /\ \A h \in AccessHosts, i \in Cached : EntrySound(i, cached'[h][i])
      <4>1. CASE cached' = cached
        BY <1>0, <4>1
      <4>2. CASE cached' = [cached EXCEPT ![AccessHost[c]] = [@ EXCEPT ![k] = e]]
        BY <1>0, <3>1, <4>2, ZenonT(60)
      <4> QED
        BY <3>2, <4>1, <4>2
    <3> QED
      BY <3>3, <3>4, <3>5, CheckStepped
  <2>7. CASE LookupFails(c)
    <3>1. PICK at : check' = [check EXCEPT ![c] = Asking(at, x.roles)]
      BY <2>7 DEF LookupFails
    <3> QED
      BY <1>0, <2>2, <2>7, <3>1, CheckStepped DEF LookupFails
  <2> QED
    BY <1>1, <2>3, <2>4, <2>5, <2>6, <2>7 DEF CheckStep
<1>2. ASSUME NEW a \in Changers, RunStatement(a) PROVE CacheInv'
  <2> DEFINE s == Head(work[a].todo)
  <2>0. UNCHANGED <<check, hour>>
    BY <1>2 DEF RunStatement
  <2>1. CASE RunWrite(a, s)
    <3> DEFINE now == StatementWritten(a, s)
    <3>1. /\ accessRows' = [accessRows EXCEPT ![s.k] = now]
          /\ changed' = [changed EXCEPT ![s.k] = IF now # accessRows[s.k] THEN hour ELSE @]
          /\ UNCHANGED cached
      BY <2>1 DEF RunWrite
    <3> HIDE DEF now, s
    <3>2. /\ accessRows' = [k \in Kinds |-> accessRows'[k]] /\ changed' \in [Kinds -> Int]
          /\ \A k \in Kinds : -TTL - 1 <= changed'[k]
      <4>1. accessRows' = [k \in Kinds |-> accessRows'[k]]
        BY <1>0, <3>1
      <4>2. hour \in Int /\ -TTL - 1 <= hour
        BY <1>0
      <4>3. changed' \in [Kinds -> Int]
        BY <1>0, <3>1, <4>2
      <4>4. ASSUME NEW k \in Kinds PROVE -TTL - 1 <= changed'[k]
        <5>1. changed'[k] = changed[k] \/ changed'[k] = hour
          BY <1>0, <3>1
        <5> QED
          BY <1>0, <4>2, <5>1
      <4> QED
        BY <4>1, <4>3, <4>4
    <3>3. ASSUME NEW k \in Kinds, NEW rows, NEW since \in Int, since <= hour, Current(k, rows, since)
          PROVE  Current(k, rows, since)'
      <4>1. CASE accessRows'[k] = accessRows[k]
        <5>1. changed'[k] = changed[k] \/ changed'[k] = hour
          BY <1>0, <3>1
        <5> QED
          BY <1>0, <3>3, <4>1, <5>1 DEF Current, Readable
      <4>2. CASE accessRows'[k] # accessRows[k]
        <5>1. changed'[k] = hour
          BY <1>0, <3>1, <4>2
        <5> QED
          BY <3>3, <5>1 DEF Current
      <4> QED
        BY <4>1, <4>2
    <3>4. \A h \in AccessHosts, k \in Cached : EntrySound(k, cached[h][k])'
      BY <1>0, <2>0, <3>1, <3>3 DEF EntrySound, Cached, Kinds
    <3>5. \A c \in Checks : LookupSound(check[c])'
      BY <1>0, <2>0, <3>3, KindsLookedUp DEF LookupSound
    <3> QED
      BY <1>0, <2>0, <3>1, <3>2, <3>4, <3>5 DEF CacheInv
  <2>2. CASE RunClear(a, s)
    <3>1. cached' = [cached EXCEPT ![AccessHost[a]] =
                  [k \in Cached |-> IF k \in Cleared(s) THEN NoEntry ELSE @[k]]]
      BY <2>2 DEF RunClear
    <3>2. UNCHANGED <<accessRows, changed>>
      BY <2>2 DEF RunClear
    <3> HIDE DEF s
    <3>3. \A k \in Cached : EntrySound(k, NoEntry)
      BY <1>0 DEF NoEntry, EntrySound, Current, Cached, Kinds
    <3>4. \A h \in AccessHosts, k \in Cached : EntrySound(k, cached'[h][k])
      BY <1>0, <3>1, <3>3
    <3>5. cached' = [h \in AccessHosts |-> [k \in Cached |-> cached'[h][k]]]
      BY <1>0, <3>1
    <3>6. \A h \in AccessHosts, k \in Cached : EntrySound(k, cached[h][k])'
      BY <2>0, <3>2, <3>4 DEF EntrySound, Current, Readable
    <3>7. \A c \in Checks : LookupSound(check[c])'
      BY <1>0, <2>0, <3>2 DEF LookupSound, Current, Readable
    <3> QED
      BY <1>0, <2>0, <3>2, <3>5, <3>6, <3>7 DEF CacheInv
  <2>3. CASE RunCount(a, s) \/ RunGuard(a, s) \/ RunDropFails(a, s)
    <3>1. UNCHANGED <<accessRows, changed, cached>>
      BY <2>3 DEF RunCount, RunGuard, RunDropFails
    <3> QED
      BY <2>0, <3>1 DEF CacheInv, EntrySound, LookupSound, Current, Readable
  <2> QED
    BY <1>2, <2>1, <2>2, <2>3 DEF RunStatement
<1>3. ASSUME HourPasses PROVE CacheInv'
  <2>1. hour' = hour + 1 /\ UNCHANGED <<accessRows, changed, cached, check>>
    BY <1>3 DEF HourPasses
  <2>2. \A h \in AccessHosts, k \in Cached : EntrySound(k, cached[h][k])'
    <3>1. ASSUME NEW h \in AccessHosts, NEW k \in Cached PROVE EntrySound(k, cached[h][k])'
      <4>1. EntrySound(k, cached[h][k]) /\ hour \in Int /\ hour' = hour + 1
        BY <1>0, <2>1
      <4>2. Current(k, cached[h][k].rows, cached[h][k].stamp)'
        BY <2>1, <4>1 DEF EntrySound, Current, Readable
      <4>3. cached'[h][k] = cached[h][k]
        BY <2>1
      <4> QED
        BY <4>1, <4>2, <4>3 DEF EntrySound
    <3> QED
      BY <3>1
  <2>3. \A c \in Checks : LookupSound(check[c])'
    <3>1. ASSUME NEW c \in Checks PROVE LookupSound(check[c])'
      <4>1. LookupSound(check[c]) /\ check'[c] = check[c] /\ hour \in Int /\ hour' = hour + 1
        BY <1>0, <2>1
      <4> QED
        BY <2>1, <4>1 DEF LookupSound, Current, Readable
    <3> QED
      BY <3>1
  <2> QED
    BY <1>0, <2>1, <2>2, <2>3 DEF CacheInv
<1>4. ASSUME UNCHANGED <<accessRows, changed, cached, check, hour>> PROVE CacheInv'
  BY <1>4 DEF CacheInv, EntrySound, LookupSound, Current, Readable
<1> QED
  BY <1>1, <1>2, <1>3, <1>4 DEF AccessNext, Change, StatementFails, avars

LEMMA CachesBounded == CacheInv => StalenessBounded
<1> SUFFICES ASSUME CacheInv, NEW h \in AccessHosts, NEW k \in Cached,
                    cached[h][k].stamp + TTL > hour
             PROVE  cached[h][k].rows \in Readable(k) \/ changed[k] + TTL > hour
  BY DEF StalenessBounded
<1>1. EntrySound(k, cached[h][k]) /\ changed[k] \in Int /\ hour \in Nat
  BY DEF CacheInv, Cached, Kinds
<1> QED
  BY <1>1, AccessAssumption DEF EntrySound, Current

Written == {"insert", "insertNew", "upsert", "update", "delete"}
Stmts == [do : Written \cup {"count", "absent", "present", "read", "clear"}, k : Kinds,
          v : Values \cup {"any"}]

\* Changes of the users, their roles and their permissions.
UserJobs == Seq({s \in Stmts : s.do # "present" /\ (s.do \in Written => s.k \notin {"acl", "column"})})
JobsApart == \A a \in Changers : job[a] = migrateToAcl \/ job[a] \in UserJobs

AddsOwner(s) == s = InsertNew("acl", "owner")
DropsColumn(s) == s = Delete("column")

\* Of the statements that are left, only the migration's write the ACL and the column.
\* It adds the owner after it has counted the ACL, and drops the column after that.
OwnerFirst(t, found, owned) ==
  /\ t \in Seq(Stmts)
  /\ \A i \in 1 .. Len(t) :
       /\ t[i].do \in Written => /\ t[i].k = "acl" => AddsOwner(t[i])
                                 /\ t[i].k = "column" => DropsColumn(t[i])
       /\ t[i].do = "present" \/ AddsOwner(t[i]) \/ DropsColumn(t[i]) => i + 2 <= Len(t)
       /\ AddsOwner(t[i]) => IF i = 1 THEN found => owned = {"owner"}
                             ELSE t[i - 1] = CountRoles("acl")
       /\ DropsColumn(t[i]) => owned = {"owner"} \/ \E j \in 1 .. (i - 1) : AddsOwner(t[j])

\* The inductive invariant of OwnersKept.
OwnersInv ==
  /\ accessRows = [k \in Kinds |-> accessRows[k]]
  /\ accessRows["acl"] \subseteq {"owner"}
  /\ accessRows["column"] = {} => accessRows["acl"] = {"owner"}
  /\ work = [a \in Changers |-> work[a]]
  /\ \A a \in Changers : /\ OwnerFirst(job[a], FALSE, {})
                         /\ OwnerFirst(work[a].todo, work[a].found, accessRows["acl"])

LEMMA RestFields ==
  ASSUME NEW rest, NEW found
  PROVE  Rest(rest, found).todo = rest /\ Rest(rest, found).found = found
BY DEF Rest

LEMMA MigrationOwnerFirst == OwnerFirst(migrateToAcl, FALSE, {})
<1> DEFINE m == migrateToAcl
<1>1. /\ m \in Seq(Stmts) /\ Len(m) = 9
      /\ m[1] = CountRoles("meta") /\ m[2] = Absent /\ m[3] = Present("column")
      /\ m[4] = Read("column") /\ m[5] = CountRoles("acl") /\ m[6] = InsertNew("acl", "owner")
      /\ m[7] = Delete("column") /\ m[8] = CountRoles("meta") /\ m[9] = InsertNew("meta", "done")
  <2>1. /\ CountRoles("meta") \in Stmts /\ Absent \in Stmts /\ Present("column") \in Stmts
        /\ Read("column") \in Stmts /\ CountRoles("acl") \in Stmts
        /\ InsertNew("acl", "owner") \in Stmts /\ Delete("column") \in Stmts
        /\ InsertNew("meta", "done") \in Stmts
    BY DEF Stmts, Written, Kinds, Cached, Stmt, CountRoles, Absent, Present, Read, InsertNew, Delete,
           Values
  <2> QED
    BY <2>1 DEF migrateToAcl
<1> HIDE DEF m
<1>2. \A i \in 1 .. 9 : i = 1 \/ i = 2 \/ i = 3 \/ i = 4 \/ i = 5 \/ i = 6 \/ i = 7 \/ i = 8 \/ i = 9
  OBVIOUS
<1>3. \A i \in 1 .. 9 :
        /\ m[i].do \in Written => /\ m[i].k = "acl" => i = 6
                                  /\ m[i].k = "column" => i = 7
        /\ m[i].do = "present" => i = 3
        /\ AddsOwner(m[i]) => i = 6
        /\ DropsColumn(m[i]) => i = 7
  BY <1>1, <1>2 DEF Written, AddsOwner, DropsColumn, Stmt, CountRoles, Absent, Present, Read,
         InsertNew, Delete
<1>4. AddsOwner(m[6]) /\ DropsColumn(m[7]) /\ m[5] = CountRoles("acl")
  BY <1>1 DEF AddsOwner, DropsColumn
<1>5. ASSUME NEW i \in 1 .. Len(m)
      PROVE  /\ m[i].do \in Written => /\ m[i].k = "acl" => AddsOwner(m[i])
                                       /\ m[i].k = "column" => DropsColumn(m[i])
             /\ m[i].do = "present" \/ AddsOwner(m[i]) \/ DropsColumn(m[i]) => i + 2 <= Len(m)
             /\ AddsOwner(m[i]) => i # 1 /\ m[i - 1] = CountRoles("acl")
             /\ DropsColumn(m[i]) => \E j \in 1 .. (i - 1) : AddsOwner(m[j])
  BY <1>1, <1>3, <1>4
<1>6. m \in Seq(Stmts)
  BY <1>1
<1> QED
  BY <1>5, <1>6 DEF OwnerFirst, m

LEMMA UserJobsOwnerFirst == ASSUME NEW t \in UserJobs PROVE OwnerFirst(t, FALSE, {})
<1>1. /\ t \in Seq(Stmts)
      /\ \A i \in 1 .. Len(t) : /\ t[i].do # "present"
                                /\ t[i].do \in Written => t[i].k \notin {"acl", "column"}
  BY DEF UserJobs
<1>2. \A s : (AddsOwner(s) => s.do \in Written /\ s.k = "acl")
              /\ (DropsColumn(s) => s.do \in Written /\ s.k = "column")
  BY DEF AddsOwner, DropsColumn, InsertNew, Delete, Stmt, Written
<1> QED
  BY <1>1, <1>2 DEF OwnerFirst

\* A request may go on after a step, whatever the ACL has become.
LEMMA OwnerFirstStays ==
  ASSUME NEW t, NEW found, NEW owned, OwnerFirst(t, found, owned), NEW owned2,
         owned = {"owner"} => owned2 = {"owner"}
  PROVE  OwnerFirst(t, found, owned2)
BY DEF OwnerFirst

\* ... with the rest of its statements,
LEMMA OwnerFirstGoes ==
  ASSUME NEW t, NEW found, NEW owned, OwnerFirst(t, found, owned), t # << >>, NEW found2, NEW owned2,
         owned = {"owner"} => owned2 = {"owner"},
         AddsOwner(Head(t)) => owned2 = {"owner"},
         Head(t) = CountRoles("acl") => (found2 => owned2 = {"owner"})
  PROVE  OwnerFirst(Tail(t), found2, owned2)
<1>1. /\ t \in Seq(Stmts) /\ Len(t) \in Nat \ {0} /\ Head(t) = t[1]
      /\ Tail(t) \in Seq(Stmts) /\ Len(Tail(t)) = Len(t) - 1
      /\ \A i \in 1 .. Len(Tail(t)) : Tail(t)[i] = t[i + 1]
  BY DEF OwnerFirst
<1> DEFINE r == Tail(t)
<1> HIDE DEF r
<1>2. /\ Len(r) = Len(t) - 1 /\ \A i \in 1 .. Len(r) : r[i] = t[i + 1] /\ i + 1 \in 1 .. Len(t)
  BY <1>1 DEF r
<1>3. ASSUME NEW i \in 1 .. Len(r)
      PROVE  /\ r[i].do \in Written => /\ r[i].k = "acl" => AddsOwner(r[i])
                                       /\ r[i].k = "column" => DropsColumn(r[i])
             /\ r[i].do = "present" \/ AddsOwner(r[i]) \/ DropsColumn(r[i]) => i + 2 <= Len(r)
             /\ AddsOwner(r[i]) => IF i = 1 THEN found2 => owned2 = {"owner"}
                                   ELSE r[i - 1] = CountRoles("acl")
             /\ DropsColumn(r[i]) => owned2 = {"owner"} \/ \E j \in 1 .. (i - 1) : AddsOwner(r[j])
  <2>1. /\ r[i].do \in Written => /\ r[i].k = "acl" => AddsOwner(r[i])
                                  /\ r[i].k = "column" => DropsColumn(r[i])
        /\ r[i].do = "present" \/ AddsOwner(r[i]) \/ DropsColumn(r[i]) => i + 2 <= Len(r)
    BY <1>1, <1>2 DEF OwnerFirst
  <2>2. ASSUME AddsOwner(r[i]) PROVE IF i = 1 THEN found2 => owned2 = {"owner"}
                                     ELSE r[i - 1] = CountRoles("acl")
    <3>1. t[i] = CountRoles("acl")
      BY <1>1, <1>2, <2>2 DEF OwnerFirst
    <3>2. i = 1 \/ (i - 1 \in 1 .. Len(r) /\ r[i - 1] = t[i])
      BY <1>1, <1>2
    <3> QED
      BY <1>1, <3>1, <3>2
  <2>3. ASSUME DropsColumn(r[i]) PROVE owned2 = {"owner"} \/ \E j \in 1 .. (i - 1) : AddsOwner(r[j])
    <3>1. owned = {"owner"} \/ \E j \in 1 .. i : AddsOwner(t[j])
      BY <1>1, <1>2, <2>3 DEF OwnerFirst
    <3>2. ASSUME NEW j \in 1 .. i, AddsOwner(t[j]), j # 1
          PROVE  j - 1 \in 1 .. (i - 1) /\ AddsOwner(r[j - 1])
      BY <1>1, <1>2, <3>2
    <3> QED
      BY <1>1, <3>1, <3>2
  <2> QED
    BY <2>1, <2>2, <2>3
<1> QED
  BY <1>1, <1>3 DEF OwnerFirst, r

\* ... or with its last two.
LEMMA OwnerFirstEnds ==
  ASSUME NEW t, NEW found, NEW owned, OwnerFirst(t, found, owned), t # << >>, Head(t).do = "present"
  PROVE  OwnerFirst(SubSeq(t, Len(t) - 1, Len(t)), found, owned)
<1> DEFINE n == Len(t)
           r == SubSeq(t, n - 1, n)
<1>1. t \in Seq(Stmts) /\ n \in Nat /\ 3 <= n
  BY DEF OwnerFirst
<1>2. r \in Seq(Stmts) /\ Len(r) = 2 /\ r[1] = t[n - 1] /\ r[2] = t[n]
  BY <1>1, SubSeqProperties
<1> HIDE DEF r, n
<1>3. \A i \in 1 .. 2 : \E l \in {n - 1, n} : l \in 1 .. n /\ r[i] = t[l]
  BY <1>1, <1>2
<1>4. \A l \in {n - 1, n} : /\ t[l].do \in Written => t[l].k \notin {"acl", "column"}
                            /\ t[l].do # "present" /\ ~AddsOwner(t[l]) /\ ~DropsColumn(t[l])
  BY <1>1 DEF OwnerFirst, n
<1> QED
  BY <1>2, <1>3, <1>4 DEF OwnerFirst, r, n

LEMMA InitOwners == JobsApart /\ Migrating /\ AccessInit => OwnersInv
<1> SUFFICES ASSUME JobsApart, Migrating, AccessInit PROVE OwnersInv
  OBVIOUS
<1>1. \A a \in Changers : OwnerFirst(job[a], FALSE, {})
  BY MigrationOwnerFirst, UserJobsOwnerFirst DEF JobsApart
<1>2. OwnerFirst(<<>>, FALSE, accessRows["acl"])
  BY DEF OwnerFirst
<1>3. /\ accessRows = [k \in Kinds |-> accessRows[k]]
      /\ accessRows["acl"] \subseteq {"owner"} /\ accessRows["column"] = {"owner"}
      /\ work = [a \in Changers |-> Rest(<<>>, FALSE)]
  BY DEF AccessInit
<1>4. \A a \in Changers : OwnerFirst(work[a].todo, work[a].found, accessRows["acl"])
  BY <1>2, <1>3, RestFields
<1> QED
  BY <1>1, <1>3, <1>4 DEF OwnersInv

\* A step of one request.
LEMMA OwnersStepped ==
  ASSUME OwnersInv, NEW a \in Changers, NEW rest, NEW found,
         work' = [work EXCEPT ![a] = Rest(rest, found)], UNCHANGED job,
         accessRows' = [k \in Kinds |-> accessRows'[k]], accessRows'["acl"] \subseteq {"owner"},
         accessRows["acl"] = {"owner"} => accessRows'["acl"] = {"owner"},
         accessRows'["column"] = {} => accessRows'["acl"] = {"owner"},
         OwnerFirst(rest, found, accessRows'["acl"])
  PROVE  OwnersInv'
<1>1. ASSUME NEW b \in Changers
      PROVE  OwnerFirst(work'[b].todo, work'[b].found, accessRows'["acl"])
  <2>1. CASE a = b
    BY <2>1, RestFields DEF OwnersInv
  <2>2. CASE a # b
    <3>1. work'[b] = work[b] /\ OwnerFirst(work[b].todo, work[b].found, accessRows["acl"])
      BY <2>2 DEF OwnersInv
    <3> QED
      BY <3>1, OwnerFirstStays
  <2> QED
    BY <2>1, <2>2
<1>2. work' = [b \in Changers |-> work'[b]]
  BY DEF OwnersInv
<1>3. \A b \in Changers : OwnerFirst(job'[b], FALSE, {})
  BY DEF OwnersInv
<1> QED
  BY <1>1, <1>2, <1>3 DEF OwnersInv

LEMMA StepOwners == ASSUME OwnersInv, [AccessNext]_avars PROVE OwnersInv'
<1>0. /\ accessRows = [k \in Kinds |-> accessRows[k]] /\ accessRows["acl"] \subseteq {"owner"}
      /\ accessRows["column"] = {} => accessRows["acl"] = {"owner"}
      /\ work = [a \in Changers |-> work[a]]
      /\ "acl" \in Kinds /\ "column" \in Kinds
  BY DEF OwnersInv, Kinds, Cached
<1>1. ASSUME NEW a \in Changers, Change(a) PROVE OwnersInv'
  <2>1. work' = [work EXCEPT ![a] = Rest(job[a], FALSE)] /\ UNCHANGED <<accessRows, job>>
    BY <1>1 DEF Change
  <2>2. OwnerFirst(job[a], FALSE, accessRows["acl"])
    <3> DEFINE j == job[a]
               owned == accessRows["acl"]
    <3>1. OwnerFirst(j, FALSE, {})
      BY DEF OwnersInv
    <3>2. {} = {"owner"} => owned = {"owner"}
      OBVIOUS
    <3> HIDE DEF j, owned
    <3>3. OwnerFirst(j, FALSE, owned)
      BY <3>1, <3>2, OwnerFirstStays
    <3> QED
      BY <3>3 DEF j, owned
  <2> QED
    BY <1>0, <2>1, <2>2, OwnersStepped
<1>2. ASSUME NEW a \in Changers, RunStatement(a) \/ StatementFails(a) PROVE OwnersInv'
  <2> DEFINE t == work[a].todo
             f == work[a].found
             s == Head(t)
  <2>0. /\ t # <<>> /\ OwnerFirst(t, f, accessRows["acl"]) /\ UNCHANGED job
        /\ t \in Seq(Stmts) /\ s \in Stmts /\ s = t[1] /\ Len(t) \in Nat \ {0}
    <3>1. t # <<>> /\ OwnerFirst(t, f, accessRows["acl"]) /\ UNCHANGED job
      BY <1>2 DEF RunStatement, StatementFails, OwnersInv
    <3> HIDE DEF t, f
    <3> QED
      BY <3>1 DEF OwnerFirst
  <2>1. OwnerFirst(<<>>, f, accessRows["acl"])
    BY DEF OwnerFirst
  <2>2. CASE UNCHANGED accessRows /\ work' = LeftWith(a, <<>>)
    BY <1>0, <2>0, <2>1, <2>2, OwnersStepped DEF LeftWith
  <2>3. CASE RunWrite(a, s)
    <3> DEFINE now == StatementWritten(a, s)
               owned == accessRows'["acl"]
    <3>1. /\ accessRows' = [accessRows EXCEPT ![s.k] = now] /\ s.do \in Written
          /\ work' = [work EXCEPT ![a] = Rest(Tail(t), f)]
      BY <2>3 DEF RunWrite, ChangeGoes, LeftWith, Written
    <3>2. /\ s.k = "acl" => AddsOwner(s)
          /\ s.k = "column" => DropsColumn(s)
          /\ AddsOwner(s) => (f => accessRows["acl"] = {"owner"})
          /\ DropsColumn(s) => accessRows["acl"] = {"owner"}
      <4>1. 1 \in 1 .. Len(t)
        BY <2>0
      <4> HIDE DEF t, f, s
      <4> QED
        BY <2>0, <3>1, <4>1 DEF OwnerFirst
    <3>3. CASE s.k = "acl"
      <4>1. s = InsertNew("acl", "owner") /\ s.do = "insertNew" /\ s.v = "owner"
        BY <3>2, <3>3 DEF AddsOwner, InsertNew, Stmt
      <4>2. now = IF f THEN accessRows["acl"] ELSE accessRows["acl"] \cup {"owner"}
        BY <3>3, <4>1 DEF StatementWritten
      <4>3. now = {"owner"} /\ owned = {"owner"}
        BY <1>0, <3>1, <3>2, <3>3, <4>1, <4>2 DEF AddsOwner
      <4> HIDE DEF now, t, f, s
      <4>4. OwnerFirst(Tail(t), f, owned)
        BY <2>0, <4>3, OwnerFirstGoes
      <4>5. accessRows' = [k \in Kinds |-> accessRows'[k]]
        BY <1>0, <3>1
      <4> QED
        BY <2>0, <3>1, <4>3, <4>4, <4>5, OwnersStepped
    <3>4. CASE s.k # "acl"
      <4> HIDE DEF now, t, f, s
      <4>1. owned = accessRows["acl"]
        BY <1>0, <3>1, <3>4
      <4>2. accessRows' = [k \in Kinds |-> accessRows'[k]]
        BY <1>0, <3>1
      <4>3. ~AddsOwner(s) /\ s # CountRoles("acl")
        BY <3>1, <3>4 DEF AddsOwner, InsertNew, Stmt, CountRoles, Written
      <4>4. OwnerFirst(Tail(t), f, owned)
        BY <2>0, <4>1, <4>3, OwnerFirstGoes
      <4>5. accessRows'["column"] = {} => owned = {"owner"}
        BY <1>0, <3>1, <3>2, <4>1
      <4> QED
        BY <1>0, <2>0, <3>1, <4>1, <4>2, <4>4, <4>5, OwnersStepped
    <3> QED
      BY <3>3, <3>4
  <2>4. CASE RunCount(a, s)
    <3>1. PICK found : work' = [work EXCEPT ![a] = Rest(Tail(t), found)]
                       /\ (s = CountRoles("acl") => found = (accessRows["acl"] # {}))
      BY <2>4 DEF RunCount, CountRoles, Stmt
    <3>2. UNCHANGED accessRows /\ s.do = "count"
      BY <2>4 DEF RunCount
    <3>3. ~AddsOwner(s)
      BY <3>2 DEF AddsOwner, InsertNew, Stmt
    <3> DEFINE owned == accessRows["acl"]
    <3>5. owned \subseteq {"owner"} /\ (s = CountRoles("acl") => found = (owned # {}))
      BY <1>0, <3>1
    <3>6. t # <<>> /\ OwnerFirst(t, f, owned)
      BY <2>0
    <3> HIDE DEF t, f, owned
    <3>7. Head(t) = CountRoles("acl") => (found => owned = {"owner"})
      BY <3>5
    <3>8. OwnerFirst(Tail(t), found, owned)
      BY <3>3, <3>6, <3>7, OwnerFirstGoes
    <3>4. OwnerFirst(Tail(t), found, accessRows["acl"])
      BY <3>8 DEF owned
    <3> QED
      BY <1>0, <2>0, <3>1, <3>2, <3>4, OwnersStepped
  <2>5. CASE RunGuard(a, s) /\ s.do = "present"
    <3>1. UNCHANGED accessRows
      BY <2>5, SMTT(60) DEF RunGuard
    <3>2. \/ work' = [work EXCEPT ![a] = Rest(SubSeq(t, Len(t) - 1, Len(t)), f)]
          \/ work' = [work EXCEPT ![a] = Rest(Tail(t), f)]
      BY <2>5 DEF RunGuard, ChangeGoes, LeftWith
    <3>3. ~AddsOwner(s) /\ s # CountRoles("acl") /\ s.do = "present"
      BY <2>5 DEF AddsOwner, InsertNew, Stmt, CountRoles
    <3> HIDE DEF t, f, s
    <3>4. /\ OwnerFirst(Tail(t), f, accessRows["acl"])
          /\ OwnerFirst(SubSeq(t, Len(t) - 1, Len(t)), f, accessRows["acl"])
      BY <2>0, <3>3, OwnerFirstGoes, OwnerFirstEnds DEF s
    <3> QED
      BY <1>0, <2>0, <3>1, <3>2, <3>4, OwnersStepped
  <2>6. CASE /\ UNCHANGED accessRows /\ work' = ChangeGoes(a)
             /\ s.do \in {"absent", "read", "clear"} \/ s = Delete("column")
    <3>1. ~AddsOwner(s) /\ s # CountRoles("acl")
      BY <2>6 DEF AddsOwner, InsertNew, Delete, Stmt, CountRoles
    <3>2. work' = [work EXCEPT ![a] = Rest(Tail(t), f)]
      BY <2>6 DEF ChangeGoes, LeftWith
    <3> HIDE DEF t, f, s
    <3>3. OwnerFirst(Tail(t), f, accessRows["acl"])
      BY <2>0, <3>1, OwnerFirstGoes, SMTT(60) DEF s
    <3> QED
      BY <1>0, <2>0, <2>6, <3>2, <3>3, OwnersStepped
  <2>7. CASE RunGuard(a, s) /\ s.do # "present"
    BY <2>2, <2>6, <2>7 DEF RunGuard
  <2> QED
    BY <1>2, <2>2, <2>3, <2>4, <2>5, <2>6, <2>7
       DEF RunStatement, StatementFails, RunDropFails, RunClear
<1>3. ASSUME UNCHANGED <<accessRows, work, job>> PROVE OwnersInv'
  BY <1>3 DEF OwnersInv
<1>4. ASSUME NEW c \in Checks, AskAccess(c) \/ CheckStep(c) PROVE UNCHANGED <<accessRows, work, job>>
  BY <1>4 DEF AskAccess, CheckStep, LookUp, DatabaseAnswers, Fill, LookupFails
<1> QED
  BY <1>1, <1>2, <1>3, <1>4 DEF AccessNext, HourPasses, avars

LEMMA JobsStay == [AccessNext]_avars => UNCHANGED job
BY DEF AccessNext, avars, AskAccess, CheckStep, LookUp, DatabaseAnswers, Fill, LookupFails, Change,
       RunStatement, StatementFails, HourPasses

\* The statements of a request write values, and an early return that leaves the
\* last two has them.
WritesValues(t) ==
  /\ t \in Seq({s \in Stmts : s.do \in Written \ {"delete"} => s.v \in Values})
  /\ \A i \in 1 .. Len(t) : t[i].do = "present" => i + 2 <= Len(t)

LEMMA WritesOn ==
  ASSUME NEW t, WritesValues(t), t # << >>
  PROVE  /\ WritesValues(Tail(t)) /\ WritesValues(<< >>)
         /\ Head(t) \in Stmts /\ (Head(t).do \in Written \ {"delete"} => Head(t).v \in Values)
         /\ Head(t).do = "present" => WritesValues(SubSeq(t, Len(t) - 1, Len(t)))
<1> DEFINE S == {s \in Stmts : s.do \in Written \ {"delete"} => s.v \in Values}
<1>1. /\ t \in Seq(S) /\ Len(t) \in Nat \ {0} /\ Head(t) = t[1] /\ t[1] \in S
      /\ Tail(t) \in Seq(S) /\ Len(Tail(t)) = Len(t) - 1
      /\ \A i \in 1 .. Len(Tail(t)) : Tail(t)[i] = t[i + 1] /\ i + 1 \in 1 .. Len(t)
  <2> HIDE DEF S
  <2>1. t \in Seq(S)
    BY DEF WritesValues, S
  <2> QED
    BY <2>1
<1>2. WritesValues(Tail(t))
  <2> DEFINE r == Tail(t)
  <2>1. ASSUME NEW i \in 1 .. Len(r), r[i].do = "present" PROVE i + 2 <= Len(r)
    <3>1. i + 1 \in 1 .. Len(t) /\ t[i + 1].do = "present" /\ Len(r) = Len(t) - 1
      BY <1>1, <2>1
    <3> HIDE DEF r, S
    <3> QED
      BY <1>1, <3>1 DEF WritesValues
  <2> QED
    BY <1>1, <2>1 DEF WritesValues
<1>3. ASSUME Head(t).do = "present" PROVE WritesValues(SubSeq(t, Len(t) - 1, Len(t)))
  <2> DEFINE n == Len(t)
             r == SubSeq(t, n - 1, n)
  <2>1. n \in Nat /\ 3 <= n
    BY <1>1, <1>3 DEF WritesValues
  <2> HIDE DEF S, n
  <2>2. t \in Seq(S) /\ n = Len(t)
    BY <1>1 DEF n
  <2>3. r \in Seq(S) /\ Len(r) = 2 /\ r[1] = t[n - 1] /\ r[2] = t[n]
    BY <2>1, <2>2, SubSeqProperties
  <2>4. t[n - 1].do # "present" /\ t[n].do # "present"
    BY <2>1, <2>2 DEF WritesValues
  <2> HIDE DEF r
  <2>5. \A i \in 1 .. Len(r) : r[i].do # "present"
    BY <2>3, <2>4
  <2>6. WritesValues(r)
    BY <2>3, <2>5 DEF WritesValues, S
  <2> QED
    BY <2>6 DEF r, n
<1>4. WritesValues(<< >>)
  BY DEF WritesValues
<1> QED
  BY <1>1, <1>2, <1>3, <1>4

\* The type invariant of Access but for the times of entries, which CacheInv has.
AccessTyped ==
  /\ accessRows \in [Kinds -> SUBSET Values]
  /\ \A c \in Checks : check[c].at \in Looking \cup {"idle", "allowed", "refused"}
  /\ check = [c \in Checks |-> check[c]] /\ work = [a \in Changers |-> work[a]]
  /\ hour \in 0..EndOfAccess
  /\ \A a \in Changers : WritesValues(job[a]) /\ WritesValues(work[a].todo)

LEMMA AccessTypedStep == ASSUME CacheInv, AccessTyped, [AccessNext]_avars PROVE AccessTyped'
<1> DEFINE Places == Looking \cup {"idle", "allowed", "refused"}
<1>0. /\ accessRows \in [Kinds -> SUBSET Values]
      /\ \A c \in Checks : check[c].at \in Places
      /\ check = [c \in Checks |-> check[c]] /\ work = [a \in Changers |-> work[a]]
      /\ hour \in 0..EndOfAccess
      /\ \A a \in Changers : WritesValues(job[a]) /\ WritesValues(work[a].todo)
  BY DEF AccessTyped
<1>1. ASSUME NEW c \in Checks, AskAccess(c) \/ CheckStep(c) PROVE AccessTyped'
  <2>1. UNCHANGED <<accessRows, work, job, hour>>
    BY <1>1 DEF AskAccess, CheckStep, LookUp, DatabaseAnswers, Fill, LookupFails
  <2>2. ASSUME NEW v PROVE check[c].at \in Looking => After(c, v) \in Places
    BY DEF After, Looking
  <2>3. ASSUME NEW at \in Places, NEW step, NEW got, NEW roles, NEW stamp,
               check' = [check EXCEPT ![c] = Lookup(at, step, got, roles, stamp)]
        PROVE  AccessTyped'
    <3>1. check' = [d \in Checks |-> check'[d]] /\ \A d \in Checks : check'[d].at \in Places
      BY <1>0, <2>3, LookupFields
    <3> QED
      BY <1>0, <2>1, <3>1 DEF AccessTyped
  <2>4. ASSUME NEW v, check[c].at \in Looking, Uses(c, v) PROVE AccessTyped'
    <3>1. PICK roles : check' = [check EXCEPT ![c] = Asking(After(c, v), roles)]
      BY <2>4 DEF Uses
    <3> HIDE DEF Places
    <3> QED
      BY <2>2, <2>3, <2>4, <3>1 DEF Asking
  <2>5. check[c].at \in Places
    BY <1>0
  <2>6. CASE AskAccess(c)
    BY <2>3, <2>6 DEF AskAccess, Asking, Looking
  <2>7. CASE LookUp(c)
    BY <2>3, <2>4, <2>5, <2>7 DEF LookUp, Asked
  <2>8. CASE DatabaseAnswers(c)
    <3>1. PICK v : check' = [check EXCEPT ![c] = Answer(check[c], v)]
      BY <2>8 DEF DatabaseAnswers
    <3> HIDE DEF Places
    <3> QED
      BY <2>3, <2>5, <3>1 DEF Answer
  <2>9. CASE Fill(c)
    <3>1. check[c].step = "answered" /\ Uses(c, check[c].got)
      BY <2>9 DEF Fill
    <3>2. check[c].at \in Looking
      BY <3>1 DEF CacheInv, LookupSound
    <3> QED
      BY <2>4, <3>1, <3>2
  <2>10. CASE LookupFails(c)
    <3>1. PICK at \in Places : check' = [check EXCEPT ![c] = Asking(at, check[c].roles)]
      BY <2>10 DEF LookupFails, Looking
    <3> HIDE DEF Places
    <3> QED
      BY <2>3, <3>1 DEF Asking
  <2> QED
    BY <1>1, <2>6, <2>7, <2>8, <2>9, <2>10 DEF CheckStep
<1>2. ASSUME NEW a \in Changers, NEW rest, NEW found, WritesValues(rest),
             work' = [work EXCEPT ![a] = Rest(rest, found)],
             accessRows' \in [Kinds -> SUBSET Values], UNCHANGED <<check, job, hour>>
      PROVE  AccessTyped'
  <2>1. work' = [b \in Changers |-> work'[b]] /\ \A b \in Changers : WritesValues(work'[b].todo)
    BY <1>0, <1>2, RestFields
  <2> QED
    BY <1>0, <1>2, <2>1 DEF AccessTyped
<1>3. ASSUME NEW a \in Changers, Change(a) PROVE AccessTyped'
  BY <1>0, <1>2, <1>3 DEF Change
<1>4. ASSUME NEW a \in Changers, RunStatement(a) \/ StatementFails(a) PROVE AccessTyped'
  <2> DEFINE t == work[a].todo
             f == work[a].found
             s == Head(t)
  <2>1. /\ WritesValues(Tail(t)) /\ WritesValues(<< >>)
        /\ s \in Stmts /\ (s.do \in Written \ {"delete"} => s.v \in Values)
        /\ s.do = "present" => WritesValues(SubSeq(t, Len(t) - 1, Len(t)))
        /\ UNCHANGED <<check, job, hour>>
    <3>1. t # << >> /\ WritesValues(t) /\ UNCHANGED <<check, job, hour>>
      BY <1>0, <1>4 DEF RunStatement, StatementFails
    <3> HIDE DEF t
    <3> QED
      BY <3>1, WritesOn
  <2>2. CASE RunWrite(a, s)
    <3> DEFINE now == StatementWritten(a, s)
    <3>1. /\ accessRows' = [accessRows EXCEPT ![s.k] = now] /\ s.do \in Written
          /\ work' = [work EXCEPT ![a] = Rest(Tail(t), f)]
      BY <2>2 DEF RunWrite, ChangeGoes, LeftWith, Written
    <3>2. s.k \in Kinds /\ accessRows[s.k] \subseteq Values
      <4> HIDE DEF s
      <4> QED
        BY <1>0, <2>1 DEF Stmts
    <3>3. now \subseteq Values
      <4>1. s.do # "delete" => s.v \in Values
        BY <2>1, <3>1
      <4> HIDE DEF s, t
      <4>2. now \subseteq accessRows[s.k] \cup {s.v} /\ (s.do = "delete" => now = {})
        BY <3>1 DEF StatementWritten, Written
      <4> QED
        BY <3>2, <4>1, <4>2
    <3> HIDE DEF now, s, t, f
    <3>4. accessRows' \in [Kinds -> SUBSET Values]
      BY <1>0, <3>1, <3>2, <3>3
    <3> QED
      BY <1>2, <2>1, <3>1, <3>4
  <2>3. ASSUME UNCHANGED accessRows PROVE AccessTyped'
    <3>1. PICK rest, found : WritesValues(rest) /\ work' = [work EXCEPT ![a] = Rest(rest, found)]
      <4>1. CASE work' = LeftWith(a, << >>)
        BY <2>1, <4>1 DEF LeftWith
      <4>2. CASE work' = ChangeGoes(a)
        BY <2>1, <4>2 DEF LeftWith, ChangeGoes
      <4>3. CASE RunCount(a, s)
        BY <2>1, <4>3 DEF RunCount
      <4>4. CASE s.do = "present" /\ work' = LeftWith(a, SubSeq(t, Len(t) - 1, Len(t)))
        BY <2>1, <4>4 DEF LeftWith
      <4>5. RunGuard(a, s) => \/ work' = LeftWith(a, << >>) \/ work' = ChangeGoes(a)
                              \/ s.do = "present" /\ work' = LeftWith(a, SubSeq(t, Len(t) - 1, Len(t)))
        BY DEF RunGuard
      <4> QED
        BY <1>4, <2>2, <4>1, <4>2, <4>3, <4>4, <4>5
           DEF RunStatement, StatementFails, RunDropFails, RunClear, RunWrite
    <3> QED
      BY <1>0, <1>2, <2>1, <2>3, <3>1
  <2>4. RunWrite(a, s) \/ UNCHANGED accessRows
    BY <1>4 DEF RunStatement, StatementFails, RunDropFails, RunClear, RunCount, RunGuard
  <2> QED
    BY <2>2, <2>3, <2>4
<1>5. CASE HourPasses
  BY <1>0, <1>5, AccessAssumption DEF HourPasses, AccessTyped
<1>6. CASE UNCHANGED avars
  BY <1>6 DEF avars, AccessTyped
<1> QED
  BY <1>1, <1>3, <1>4, <1>5, <1>6 DEF AccessNext

\* The operations write values: each of rbac.js and acl.js, for any values.
LEMMA OperationsWriteValues ==
  ASSUME NEW rs \in Seq(Values), NEW r \in Values, NEW p \in Values
  PROVE  /\ WritesValues(createUser(rs)) /\ WritesValues(updateUser(p))
         /\ WritesValues(setUserRoles(rs)) /\ WritesValues(setTablePermission(p))
         /\ WritesValues(legacyBootstrap) /\ WritesValues(syncRemoved)
         /\ WritesValues(bootstrapUser(r, p)) /\ WritesValues(bootstrapSuperuser)
         /\ WritesValues(ensureTableAcl(p)) /\ WritesValues(updateTableAcl(p))
         /\ WritesValues(migrateToAcl)
<1> DEFINE S == {s \in Stmts : s.do \in Written \ {"delete"} => s.v \in Values}
           Plain == {s \in S : s.do # "present"}
<1>1. ASSUME NEW t \in Seq(Plain) PROVE WritesValues(t)
  <2>1. t \in Seq(S)
    OBVIOUS
  <2>2. \A i \in 1 .. Len(t) : t[i].do # "present"
    OBVIOUS
  <2> QED
    BY <2>1, <2>2 DEF WritesValues
<1>2. ASSUME NEW k \in Kinds, NEW v \in Values
      PROVE  /\ CountRoles(k) \in Plain /\ CountOf(k, v) \in Plain /\ Absent \in Plain
             /\ InsertInto(k, v) \in Plain /\ Upsert(k, v) \in Plain /\ InsertNew(k, v) \in Plain
             /\ UpdateTo(k, v) \in Plain /\ Delete(k) \in Plain /\ Read(k) \in Plain
  BY DEF CountRoles, CountOf, Absent, InsertInto, Upsert, InsertNew, UpdateTo, Delete, Read, Stmt,
         Stmts, Written, Kinds, Cached
<1>3. ClearUser \in Plain /\ ClearAcl \in Plain /\ ClearAll \in Plain
  BY DEF ClearUser, ClearAcl, ClearAll, Stmt, Stmts, Written, Kinds, Cached
<1>4. /\ {"user", "role", "perm", "acl", "column", "meta"} \subseteq Kinds
      /\ {"active", "inactive", "superuser", "owner", "done"} \subseteq Values
  BY DEF Kinds, Cached, Values
<1>5. InsertEach(rs) \in Seq(Plain)
  <2>1. \A i \in 1 .. Len(rs) : InsertInto("role", rs[i]) \in Plain
    BY <1>2, <1>4
  <2> HIDE DEF Plain
  <2>2. DOMAIN rs = 1 .. Len(rs) /\ Len(rs) \in Nat
    OBVIOUS
  <2>3. InsertEach(rs) \in [1 .. Len(rs) -> Plain]
    BY <2>1, <2>2 DEF InsertEach
  <2> QED
    BY <2>2, <2>3, SeqDef
<1>6. migrateToAcl \in Seq(S) /\ \A i \in 1 .. Len(migrateToAcl) :
        migrateToAcl[i].do = "present" => i + 2 <= Len(migrateToAcl)
  <2>1. Present("column") \in S
    BY <1>4 DEF Present, Stmt, Stmts, Written
  <2>2. Plain \subseteq S /\ \A s \in Plain : s.do # "present"
    OBVIOUS
  <2> HIDE DEF Plain, S
  <2>3. migrateToAcl \in Seq(S) /\ Len(migrateToAcl) = 9
    BY <1>2, <1>4, <2>1, <2>2 DEF migrateToAcl
  <2>4. \A i \in 8 .. 9 : migrateToAcl[i].do # "present"
    BY <1>2, <1>4, <2>2 DEF migrateToAcl
  <2> QED
    BY <2>3, <2>4
<1> HIDE DEF Plain
<1>7. /\ createUser(rs) \in Seq(Plain) /\ setUserRoles(rs) \in Seq(Plain)
  <2>1. /\ <<CountRoles("user"), Absent, InsertInto("user", "active")>> \in Seq(Plain)
        /\ <<Delete("role")>> \in Seq(Plain) /\ <<ClearUser>> \in Seq(Plain)
    BY <1>2, <1>3, <1>4
  <2> QED
    BY <1>5, <2>1 DEF createUser, setUserRoles
<1>8. /\ updateUser(p) \in Seq(Plain) /\ setTablePermission(p) \in Seq(Plain)
      /\ ensureTableAcl(p) \in Seq(Plain) /\ updateTableAcl(p) \in Seq(Plain)
      /\ syncRemoved \in Seq(Plain)
  BY <1>2, <1>3, <1>4 DEF updateUser, setTablePermission, ensureTableAcl, updateTableAcl, syncRemoved
<1>9. legacyBootstrap \in Seq(Plain) /\ bootstrapSuperuser \in Seq(Plain)
  BY <1>2, <1>3, <1>4 DEF legacyBootstrap, bootstrapSuperuser
<1>10. bootstrapUser(r, p) \in Seq(Plain)
  BY <1>2, <1>3, <1>4 DEF bootstrapUser
<1> QED
  BY <1>1, <1>6, <1>7, <1>8, <1>9, <1>10 DEF WritesValues

\* AccessTypeOK: requests that write values leave values in the tables, and an
\* early return finds the statements it goes on to (migrateToAcl).
THEOREM AccessTypeCorrect ==
  (\A a \in Changers : WritesValues(job[a])) /\ AccessSpec => []AccessTypeOK
<1>1. (\A a \in Changers : WritesValues(job[a])) /\ AccessInit => CacheInv /\ AccessTyped
  <2> SUFFICES ASSUME \A a \in Changers : WritesValues(job[a]), AccessInit PROVE AccessTyped
    BY InitCaches
  <2>1. WritesValues(<< >>)
    BY DEF WritesValues
  <2>2. accessRows \in [Kinds -> SUBSET Values]
    BY DEF AccessInit, Values
  <2>3. check = [c \in Checks |-> check[c]] /\ \A c \in Checks : check[c].at = "idle"
    BY LookupFields DEF AccessInit, NotAsking, Asking
  <2>4. work = [a \in Changers |-> work[a]] /\ \A a \in Changers : WritesValues(work[a].todo)
    <3>1. work = [a \in Changers |-> Rest(<< >>, FALSE)] /\ Rest(<< >>, FALSE).todo = << >>
      BY RestFields DEF AccessInit
    <3> QED
      BY <2>1, <3>1
  <2>5. hour \in 0..EndOfAccess
    BY AccessAssumption DEF AccessInit
  <2> QED
    BY <2>2, <2>3, <2>4, <2>5 DEF AccessTyped
<1>2. CacheInv /\ AccessTyped /\ [AccessNext]_avars => CacheInv' /\ AccessTyped'
  BY StepCaches, AccessTypedStep
<1>3. CacheInv /\ AccessTyped => AccessTypeOK
  BY DEF CacheInv, EntrySound, AccessTyped, AccessTypeOK
<1> QED
  BY <1>1, <1>2, <1>3, PTL DEF AccessSpec

\* Permissions are no staler than the TTL, and a migration to ACLs that drops a
\* column has kept its owners, where the requests beside migrations change only
\* users, roles and permissions.
THEOREM AccessAlwaysSafe == (Migrating => JobsApart) /\ AccessSpec => []AccessSafe
<1> DEFINE Inv == CacheInv /\ (Migrating => OwnersInv)
<1>1. (Migrating => JobsApart) /\ AccessInit => Inv
  BY InitCaches, InitOwners
<1>2. Inv /\ [AccessNext]_avars => Inv'
  <2> SUFFICES ASSUME Inv, [AccessNext]_avars PROVE Inv'
    OBVIOUS
  <2>1. CacheInv'
    BY StepCaches
  <2>2. Migrating' => Migrating
    BY JobsStay DEF Migrating
  <2>3. Migrating => OwnersInv'
    BY StepOwners
  <2> QED
    BY <2>1, <2>2, <2>3
<1>3. Inv => AccessSafe
  BY CachesBounded DEF AccessSafe, OwnersKept, OwnersInv
<1> HIDE DEF Inv
<1> QED
  BY <1>1, <1>2, <1>3, PTL DEF AccessSpec

-----------------------------------------------------------------------------
(* Logins of the console and their sessions (ConsoleLogins)                *)

LoginRows == [user : Logins, role : {"viewer", "admin"}, password : 1 .. MaxPasswords]

\* A request that may take an admin's role or row away with its next step.
Taking(h) == h.step = "write" /\ h.op \in {"demote", "delete"}

HandlerSound(h) ==
  /\ h.on \in Logins /\ h.known \in 0 .. MaxPasswords
  /\ h.step = "verify" => h.known \in 1 .. MaxPasswords
  /\ h.op = "login" => h.step = "verify"
  /\ h.step = "count" => h.op \in {"demote", "delete"}

\* An admin whom no request under way will take.
Spared(l) == l.role = "admin" /\ \A r \in Handlers : Taking(handler[r]) => handler[r].on # l.user

\* As long as no check was overtaken, usernames are unique, some admin is spared, and
\* nobody works on logins when there are none.
NotOvertaken ==
  /\ \A l, m \in logins : l.user = m.user => l = m
  /\ logins # {} => \E l \in logins : Spared(l)
  /\ logins = {} => \A r \in Handlers : handler[r].op \notin AdminOps

\* The inductive invariant of AdminRemains and SessionsKnow.
LoginsInv ==
  /\ logins \subseteq LoginRows /\ passwords \in 0 .. MaxPasswords
  /\ \A s \in sessions : /\ s.user \in Logins /\ s.print \in 1 .. MaxPasswords
                         /\ s.print = s.shown
  /\ handler = [r \in Handlers |-> handler[r]]
  /\ \A r \in Handlers : HandlerSound(handler[r])
  /\ ~raced => NotOvertaken

LEMMA HandlingFields ==
  ASSUME NEW op, NEW step, NEW on, NEW known
  PROVE  LET h == Handling(op, step, on, known)
         IN h.op = op /\ h.step = step /\ h.on = on /\ h.known = known
BY DEF Handling

LEMMA RowFields ==
  ASSUME NEW u \in Logins, NEW role \in {"viewer", "admin"}, NEW p \in 1 .. MaxPasswords
  PROVE  /\ Row(u, role, p) \in LoginRows /\ Row(u, role, p).user = u
         /\ Row(u, role, p).role = role /\ Row(u, role, p).password = p
BY DEF Row, LoginRows

LEMMA SessionFields ==
  ASSUME NEW u, NEW p
  PROVE  LET s == Session(u, p, p) IN s.user = u /\ s.print = p /\ s.shown = p
BY DEF Session

LEMMA NoHandlerIs ==
  /\ HandlerSound(NoHandler) /\ NoHandler.op = "none" /\ ~Taking(NoHandler)
<1>1. (CHOOSE u \in Logins : TRUE) \in Logins
  BY LoginsAssumption
<1>2. /\ NoHandler.op = "none" /\ NoHandler.step = "none" /\ NoHandler.known = 0
      /\ NoHandler.on \in Logins
  BY <1>1, HandlingFields DEF NoHandler
<1> QED
  BY <1>2, LoginsAssumption DEF HandlerSound, Taking

LEMMA InitLogins == LoginsInit => LoginsInv
<1> SUFFICES ASSUME LoginsInit PROVE LoginsInv
  OBVIOUS
<1>1. \A r \in Handlers : handler[r] = NoHandler
  BY DEF LoginsInit
<1>2. NotOvertaken
  BY <1>1, NoHandlerIs DEF LoginsInit, NotOvertaken, AdminOps
<1> QED
  BY <1>1, <1>2, NoHandlerIs, LoginsAssumption DEF LoginsInit, LoginsInv

\* A step of a request that leaves the logins alone: it takes no admin, or one that is
\* not the last while nobody else takes one.
LEMMA HandlerStepped ==
  ASSUME LoginsInv, NEW r \in Handlers, NEW h, HandlerSound(h),
         handler' = [handler EXCEPT ![r] = h], UNCHANGED <<logins, passwords>>,
         \A s \in sessions' : /\ s.user \in Logins /\ s.print \in 1 .. MaxPasswords
                              /\ s.print = s.shown,
         ~raced' => ~raced /\ (Taking(h) => \E l \in logins : Spared(l) /\ l.user # h.on),
         logins = {} => h.op \notin AdminOps
  PROVE  LoginsInv'
<1>1. /\ handler' = [q \in Handlers |-> handler'[q]] /\ \A q \in Handlers : HandlerSound(handler'[q])
  BY DEF LoginsInv
<1>2. \A q \in Handlers : handler'[q] = IF q = r THEN h ELSE handler[q]
  BY DEF LoginsInv
<1>3. ASSUME ~raced' PROVE NotOvertaken'
  <2>1. NotOvertaken
    BY <1>3 DEF LoginsInv
  <2>2. ASSUME logins' # {} PROVE \E l \in logins' : Spared(l)'
    <3>1. PICK l \in logins : Spared(l) /\ (Taking(h) => l.user # h.on)
      BY <1>3, <2>1, <2>2 DEF NotOvertaken
    <3> QED
      BY <1>2, <3>1 DEF Spared
  <2> QED
    BY <1>2, <2>1, <2>2 DEF NotOvertaken, AdminOps
<1>4. \A q \in Handlers : HandlerSound(handler[q])'
  BY <1>1 DEF HandlerSound
<1> QED
  BY <1>1, <1>3, <1>4 DEF LoginsInv

\* A step that ends a request and changes the logins: usernames stay unique and an
\* admin stays spared.
LEMMA LoginsStepped ==
  ASSUME LoginsInv, NEW r \in Handlers, handler' = [handler EXCEPT ![r] = NoHandler],
         logins' \subseteq LoginRows, passwords' \in 0 .. MaxPasswords,
         \A s \in sessions' : /\ s.user \in Logins /\ s.print \in 1 .. MaxPasswords
                              /\ s.print = s.shown,
         ~raced' => /\ ~raced
                    /\ \A l, m \in logins' : l.user = m.user => l = m
                    /\ logins' = {} => logins = {}
                    /\ logins' # {} =>
                         \E l \in logins' : /\ l.role = "admin"
                                            /\ \A q \in Handlers \ {r} :
                                                 Taking(handler[q]) => handler[q].on # l.user
  PROVE  LoginsInv'
<1>1. /\ handler' = [q \in Handlers |-> handler'[q]] /\ \A q \in Handlers : HandlerSound(handler'[q])
  BY NoHandlerIs DEF LoginsInv
<1>2. \A q \in Handlers : handler'[q] = IF q = r THEN NoHandler ELSE handler[q]
  BY DEF LoginsInv
<1>3. ASSUME ~raced' PROVE NotOvertaken'
  <2>1. NotOvertaken
    BY <1>3 DEF LoginsInv
  <2>2. ASSUME logins' # {} PROVE \E l \in logins' : Spared(l)'
    <3>1. PICK l \in logins' : l.role = "admin" /\ \A q \in Handlers \ {r} :
                                 Taking(handler[q]) => handler[q].on # l.user
      BY <1>3, <2>2
    <3>2. \A q \in Handlers : Taking(handler'[q]) => handler'[q].on # l.user
      BY <1>2, <3>1, NoHandlerIs
    <3> QED
      BY <3>1, <3>2 DEF Spared, Taking
  <2>3. ASSUME logins' = {}, NEW q \in Handlers PROVE handler'[q].op \notin AdminOps
    BY <1>2, <1>3, <2>1, <2>3, NoHandlerIs DEF NotOvertaken, AdminOps
  <2> QED
    BY <1>3, <2>2, <2>3 DEF NotOvertaken, AdminOps
<1>4. \A q \in Handlers : HandlerSound(handler[q])'
  BY <1>1 DEF HandlerSound
<1> QED
  BY <1>1, <1>3, <1>4 DEF LoginsInv

\* ... in particular one that rewrites the rows of a username.
LEMMA RowsRewritten ==
  ASSUME LoginsInv, NEW r \in Handlers, NEW u \in Logins, NEW rows \in SUBSET LoginRows,
         \A k \in rows : k.user = u,
         (\A k, m \in RowsOf(u) : k = m) => (\A k, m \in rows : k = m),
         RowsOf(u) = {} => rows = {},
         \/ \A l \in RowsOf(u) : l.role = "admin" => \E k \in rows : k.role = "admin"
         \/ Taking(handler[r]) /\ handler[r].on = u,
         logins' = Rewritten(u, rows), passwords' \in 0 .. MaxPasswords, ~raced' => ~raced,
         handler' = [handler EXCEPT ![r] = NoHandler],
         \A s \in sessions' : /\ s.user \in Logins /\ s.print \in 1 .. MaxPasswords
                              /\ s.print = s.shown
  PROVE  LoginsInv'
<1>1. logins' \subseteq LoginRows
  BY DEF LoginsInv, Rewritten
<1>2. ASSUME ~raced'
      PROVE  /\ ~raced
             /\ \A l, m \in logins' : l.user = m.user => l = m
             /\ logins' = {} => logins = {}
             /\ logins' # {} =>
                  \E l \in logins' : /\ l.role = "admin"
                                     /\ \A q \in Handlers \ {r} :
                                          Taking(handler[q]) => handler[q].on # l.user
  <2>1. ~raced /\ NotOvertaken
    BY <1>2 DEF LoginsInv
  <2>2. \A l, m \in logins' : l.user = m.user => l = m
    BY <2>1 DEF Rewritten, RowsOf, NotOvertaken
  <2>3. CASE logins = {}
    BY <2>1, <2>2, <2>3 DEF Rewritten, RowsOf
  <2>4. CASE logins # {}
    <3>1. PICK l \in logins : Spared(l)
      BY <2>1, <2>4 DEF NotOvertaken
    <3>2. CASE l.user # u
      BY <2>1, <2>2, <3>1, <3>2 DEF Rewritten, RowsOf, Spared
    <3>3. CASE l.user = u
      <4>1. l \in RowsOf(u) /\ l.role = "admin" /\ ~(Taking(handler[r]) /\ handler[r].on = u)
        BY <3>1, <3>3 DEF RowsOf, Spared
      <4>2. PICK k \in rows : k.role = "admin" /\ k.user = u
        BY <4>1
      <4> QED
        BY <2>1, <2>2, <3>1, <3>3, <4>2 DEF Rewritten, Spared
    <3> QED
      BY <3>2, <3>3
  <2> QED
    BY <2>3, <2>4
<1> QED
  BY <1>1, <1>2, LoginsStepped

LEMMA StepLogins == ASSUME LoginsInv, [LoginsNext]_lvars PROVE LoginsInv'
<1> USE LoginsAssumption
<1>0. /\ logins \subseteq LoginRows /\ passwords \in 0 .. MaxPasswords
      /\ \A s \in sessions : /\ s.user \in Logins /\ s.print \in 1 .. MaxPasswords
                             /\ s.print = s.shown
      /\ handler = [r \in Handlers |-> handler[r]]
      /\ \A r \in Handlers : HandlerSound(handler[r])
      /\ ~raced => NotOvertaken
  BY DEF LoginsInv
<1>a. \A l \in logins : l.user \in Logins /\ l.role \in {"viewer", "admin"}
                        /\ l.password \in 1 .. MaxPasswords
  BY <1>0 DEF LoginRows
<1>1. ASSUME NEW r \in Handlers, NEW u \in Logins, SetupStarts(r, u) PROVE LoginsInv'
  <2> DEFINE h == Handling("setup", "hash", u, 0)
  <2>1. h.op = "setup" /\ ~Taking(h) /\ HandlerSound(h)
    BY HandlingFields DEF Taking, HandlerSound
  <2> HIDE DEF h
  <2>2. handler' = [handler EXCEPT ![r] = h] /\ UNCHANGED <<logins, sessions, passwords, raced>>
    BY <1>1 DEF SetupStarts, Begins, h
  <2> QED
    BY <1>0, <2>1, <2>2, HandlerStepped DEF AdminOps
<1>2. ASSUME NEW r \in Handlers, NEW l \in logins, LoginStarts(r, l) PROVE LoginsInv'
  <2> DEFINE h == Handling("login", "verify", l.user, l.password)
  <2>1. h.op = "login" /\ ~Taking(h) /\ HandlerSound(h)
    BY <1>a, HandlingFields DEF Taking, HandlerSound
  <2> HIDE DEF h
  <2>2. handler' = [handler EXCEPT ![r] = h] /\ UNCHANGED <<logins, sessions, passwords, raced>>
    BY <1>2 DEF LoginStarts, Begins, h
  <2> QED
    BY <1>0, <2>1, <2>2, HandlerStepped DEF AdminOps
<1>3. ASSUME NEW r \in Handlers, SetupCounts(r) PROVE LoginsInv'
  <2> DEFINE g == handler[r]
             h == Handling(g.op, "create", g.on, g.known)
  <2>1. g.op = "setup" /\ HandlerSound(g)
    BY <1>0, <1>3 DEF SetupCounts
  <2>2. h.op = "setup" /\ ~Taking(h) /\ HandlerSound(h)
    BY <2>1, HandlingFields DEF Taking, HandlerSound
  <2> HIDE DEF h
  <2>3. /\ handler' = [handler EXCEPT ![r] = h] \/ handler' = [handler EXCEPT ![r] = NoHandler]
        /\ UNCHANGED <<logins, sessions, passwords, raced>>
    BY <1>3 DEF SetupCounts, Goes, Over, h
  <2> QED
    BY <1>0, <2>2, <2>3, NoHandlerIs, HandlerStepped DEF AdminOps
<1>4. ASSUME NEW r \in Handlers, SetupCreates(r) PROVE LoginsInv'
  <2> DEFINE u == handler[r].on
             p == passwords + 1
             l == Row(u, "admin", p)
             s == Session(u, p, p)
  <2>1. u \in Logins /\ p \in 1 .. MaxPasswords
    BY <1>0, <1>4 DEF SetupCreates, Fresh, HandlerSound
  <2>2. /\ l \in LoginRows /\ l.user = u /\ l.role = "admin"
        /\ s.user = u /\ s.print = p /\ s.shown = p
    BY <2>1, RowFields, SessionFields
  <2>3. /\ logins' = logins \cup {l} /\ passwords' = p /\ sessions' = sessions \cup {s}
        /\ raced' = (raced \/ RowsOf(u) # {}) /\ handler' = [handler EXCEPT ![r] = NoHandler]
    BY <1>4 DEF SetupCreates, Over
  <2> HIDE DEF l, s, p, u
  <2>4. ASSUME ~raced'
        PROVE  /\ ~raced
               /\ \A k, m \in logins' : k.user = m.user => k = m
               /\ logins' # {}
               /\ \E k \in logins' : /\ k.role = "admin"
                                     /\ \A q \in Handlers \ {r} :
                                          Taking(handler[q]) => handler[q].on # k.user
    <3>1. ~raced /\ RowsOf(u) = {} /\ NotOvertaken
      BY <1>0, <2>3, <2>4
    <3>2. CASE logins = {}
      <4>1. \A q \in Handlers : ~Taking(handler[q])
        BY <3>1, <3>2 DEF NotOvertaken, AdminOps, Taking
      <4> QED
        BY <2>2, <2>3, <3>1, <3>2, <4>1
    <3>3. CASE logins # {}
      BY <2>2, <2>3, <3>1, <3>3 DEF NotOvertaken, RowsOf, Spared
    <3> QED
      BY <3>2, <3>3
  <2>5. logins' \subseteq LoginRows /\ passwords' \in 0 .. MaxPasswords
    BY <1>0, <2>1, <2>2, <2>3
  <2>6. \A t \in sessions' : /\ t.user \in Logins /\ t.print \in 1 .. MaxPasswords
                             /\ t.print = t.shown
    BY <1>0, <2>1, <2>2, <2>3
  <2> QED
    BY <2>3, <2>4, <2>5, <2>6, LoginsStepped
<1>5. ASSUME NEW r \in Handlers, LoginEnds(r) PROVE LoginsInv'
  <2> DEFINE g == handler[r]
             s == Session(g.on, g.known, g.known)
  <2>1. HandlerSound(g) /\ g.step = "verify"
    BY <1>0, <1>5 DEF LoginEnds
  <2>2. s.user = g.on /\ s.print = g.known /\ s.shown = g.known
    BY SessionFields
  <2>3. /\ sessions' = sessions \/ sessions' = sessions \cup {s}
        /\ handler' = [handler EXCEPT ![r] = NoHandler] /\ UNCHANGED <<logins, passwords, raced>>
    BY <1>5 DEF LoginEnds, IssuedFor, Over
  <2> HIDE DEF s
  <2>4. \A t \in sessions' : /\ t.user \in Logins /\ t.print \in 1 .. MaxPasswords
                             /\ t.print = t.shown
    BY <1>0, <2>1, <2>2, <2>3 DEF HandlerSound
  <2> QED
    BY <1>0, <2>3, <2>4, NoHandlerIs, HandlerStepped DEF AdminOps
<1>6. ASSUME NEW r \in Handlers, NEW s \in sessions, ChangeStarts(r, s) PROVE LoginsInv'
  <2> DEFINE h == Handling("password", "write", s.user, 0)
  <2>1. h.op = "password" /\ ~Taking(h) /\ HandlerSound(h)
    BY <1>0, HandlingFields DEF Taking, HandlerSound
  <2> HIDE DEF h
  <2>2. handler' = [handler EXCEPT ![r] = h] /\ UNCHANGED <<logins, sessions, passwords, raced>>
    BY <1>6 DEF ChangeStarts, Begins, h
  <2> QED
    BY <1>0, <2>1, <2>2, HandlerStepped DEF AdminOps
<1>7. ASSUME NEW r \in Handlers, ChangeWrites(r) PROVE LoginsInv'
  <2> DEFINE u == handler[r].on
             p == passwords + 1
             s == Session(u, p, p)
             rows == {Row(u, l.role, p) : l \in RowsOf(u)}
  <2>1. u \in Logins /\ p \in 1 .. MaxPasswords
    BY <1>0, <1>7 DEF ChangeWrites, Fresh, HandlerSound
  <2>2. s.user = u /\ s.print = p /\ s.shown = p
    BY SessionFields
  <2>3. /\ logins' = Rewritten(u, rows) /\ passwords' = p /\ sessions' = sessions \cup {s}
        /\ raced' = raced /\ handler' = [handler EXCEPT ![r] = NoHandler]
    BY <1>7 DEF ChangeWrites, Over
  <2> HIDE DEF s, p, u
  <2>4. \A l \in RowsOf(u) : LET k == Row(u, l.role, p)
                             IN k \in LoginRows /\ k.user = u /\ k.role = l.role
    BY <1>a, <2>1, RowFields DEF RowsOf
  <2>5. /\ rows \in SUBSET LoginRows /\ \A k \in rows : k.user = u
        /\ \A l \in RowsOf(u) : l.role = "admin" => \E k \in rows : k.role = "admin"
        /\ RowsOf(u) = {} => rows = {}
        /\ (\A k, m \in RowsOf(u) : k = m) => (\A k, m \in rows : k = m)
    BY <2>4
  <2> HIDE DEF rows
  <2>6. \A t \in sessions' : /\ t.user \in Logins /\ t.print \in 1 .. MaxPasswords
                             /\ t.print = t.shown
    BY <1>0, <2>1, <2>2, <2>3
  <2>7. passwords' \in 0 .. MaxPasswords
    BY <2>1, <2>3
  <2> QED
    BY <2>1, <2>3, <2>5, <2>6, <2>7, RowsRewritten
<1>8. ASSUME NEW r \in Handlers, NEW s \in sessions, NEW u \in Logins, NEW op \in AdminOps,
             AdminStarts(r, s, op, u)
      PROVE  LoginsInv'
  <2>1. PICK step \in {"count", "write"} :
          /\ handler' = [handler EXCEPT ![r] = Handling(op, step, u, 0)]
          /\ step = "count" => op \in {"demote", "delete"}
          /\ step = "write" /\ op \in {"demote", "delete"} => \E l \in RowsOf(u) : l.role # "admin"
    BY <1>8 DEF AdminStarts, Begins
  <2> DEFINE h == Handling(op, step, u, 0)
  <2>2. UNCHANGED <<logins, sessions, passwords, raced>> /\ \E l \in Admins : Accepts(l, s)
    BY <1>8 DEF AdminStarts
  <2>3. h.op = op /\ h.step = step /\ h.on = u /\ HandlerSound(h)
    BY <2>1, HandlingFields DEF HandlerSound, AdminOps
  <2>4. handler' = [handler EXCEPT ![r] = h]
    BY <2>1
  <2> HIDE DEF h
  <2>5. ASSUME ~raced, Taking(h) PROVE \E l \in logins : Spared(l) /\ l.user # h.on
    <3>1. NotOvertaken /\ logins # {}
      BY <1>0, <2>2, <2>5 DEF Admins
    <3>2. PICK l \in RowsOf(u) : l.role # "admin"
      BY <2>1, <2>3, <2>5 DEF Taking
    <3>3. PICK m \in logins : Spared(m)
      BY <3>1 DEF NotOvertaken
    <3> QED
      BY <2>3, <3>1, <3>2, <3>3 DEF NotOvertaken, RowsOf, Spared
  <2>6. logins # {}
    BY <2>2 DEF Admins
  <2> QED
    BY <1>0, <2>2, <2>3, <2>4, <2>5, <2>6, HandlerStepped
<1>9. ASSUME NEW r \in Handlers, AdminCounts(r) PROVE LoginsInv'
  <2> DEFINE g == handler[r]
             h == Handling(g.op, "write", g.on, g.known)
  <2>1. HandlerSound(g) /\ g.step = "count" /\ g.op \in {"demote", "delete"}
    BY <1>0, <1>9 DEF AdminCounts, HandlerSound
  <2>2. /\ UNCHANGED <<logins, sessions, passwords>>
        /\ raced' = (raced \/ \E q \in Handlers : Taking(handler[q]))
        /\ \/ MayLose(r) /\ handler' = [handler EXCEPT ![r] = h]
           \/ handler' = [handler EXCEPT ![r] = NoHandler]
    BY <1>9 DEF AdminCounts, Goes, Over, Taking
  <2>3. h.op = g.op /\ h.step = "write" /\ h.on = g.on /\ h.known = g.known
    BY HandlingFields
  <2> HIDE DEF h
  <2>4. HandlerSound(h)
    BY <2>1, <2>3 DEF HandlerSound
  <2>5. CASE handler' = [handler EXCEPT ![r] = NoHandler]
    BY <1>0, <2>2, <2>5, NoHandlerIs, HandlerStepped DEF AdminOps
  <2>6. CASE MayLose(r) /\ handler' = [handler EXCEPT ![r] = h]
    <3>1. \E k, m \in Admins : k # m
      <4> SUFFICES ASSUME \A k, m \in Admins : k = m PROVE FALSE
        OBVIOUS
      <4>1. Admins = {} \/ \E k : Admins = {k}
        OBVIOUS
      <4>2. Cardinality(Admins) = 0 \/ Cardinality(Admins) = 1
        BY <4>1, FS_EmptySet, FS_Singleton
      <4> QED
        BY <2>6, <4>2 DEF MayLose
    <3>2. ASSUME ~raced' PROVE ~raced /\ \E l \in logins : Spared(l) /\ l.user # h.on
      <4>1. ~raced /\ NotOvertaken /\ \A q \in Handlers : ~Taking(handler[q])
        BY <1>0, <2>2, <3>2
      <4>2. \E l \in Admins : l.user # h.on
        BY <3>1, <4>1 DEF NotOvertaken, Admins
      <4> QED
        BY <4>1, <4>2 DEF Spared, Admins
    <3>3. logins # {}
      BY <3>1 DEF Admins
    <3> QED
      BY <1>0, <2>2, <2>4, <2>6, <3>2, <3>3, HandlerStepped
  <2> QED
    BY <2>2, <2>5, <2>6
<1>10. ASSUME NEW r \in Handlers, AdminWrites(r) PROVE LoginsInv'
  <2> DEFINE u == handler[r].on
             op == handler[r].op
             p == passwords + 1
  <2>1. u \in Logins /\ op \in AdminOps /\ handler[r].step = "write"
    BY <1>0, <1>10 DEF AdminWrites, HandlerSound
  <2>2. /\ op \in {"create", "reset"} => p \in 1 .. MaxPasswords
        /\ passwords' = IF op \in {"create", "reset"} THEN p ELSE passwords
        /\ passwords' \in 0 .. MaxPasswords
        /\ raced' = (raced \/ (op = "create" /\ RowsOf(u) # {}))
        /\ handler' = [handler EXCEPT ![r] = NoHandler] /\ UNCHANGED sessions
    BY <1>0, <1>10 DEF AdminWrites, Fresh, Over
  <2>3. \A t \in sessions' : /\ t.user \in Logins /\ t.print \in 1 .. MaxPasswords
                             /\ t.print = t.shown
    BY <1>0, <2>2
  <2>4. CASE op = "create"
    <3> DEFINE l == Row(u, "viewer", p)
    <3>1. logins' = logins \cup {l}
      BY <1>10, <2>4 DEF AdminWrites
    <3>2. l \in LoginRows /\ l.user = u
      BY <2>1, <2>2, <2>4, RowFields
    <3> HIDE DEF l
    <3>3. ASSUME ~raced'
          PROVE  /\ ~raced
                 /\ \A k, m \in logins' : k.user = m.user => k = m
                 /\ logins' # {}
                 /\ \E k \in logins' : /\ k.role = "admin"
                                       /\ \A q \in Handlers \ {r} :
                                            Taking(handler[q]) => handler[q].on # k.user
      <4>1. ~raced /\ RowsOf(u) = {} /\ NotOvertaken /\ logins # {}
        BY <1>0, <2>1, <2>2, <2>4, <3>3 DEF NotOvertaken
      <4> QED
        BY <3>1, <3>2, <4>1 DEF NotOvertaken, RowsOf, Spared
    <3>4. logins' \subseteq LoginRows
      BY <1>0, <3>1, <3>2
    <3> QED
      BY <2>2, <2>3, <3>3, <3>4, LoginsStepped
  <2>5. CASE op \in {"promote", "demote", "delete", "reset"}
    <3> DEFINE given == {Row(u, "admin", l.password) : l \in RowsOf(u)}
               taken == {Row(u, "viewer", l.password) : l \in RowsOf(u)}
               reset == {Row(u, l.role, p) : l \in RowsOf(u)}
               rows == CASE op = "promote" -> given [] op = "demote" -> taken
                         [] op = "delete" -> {} [] op = "reset" -> reset
    <3>1. logins' = Rewritten(u, rows)
      BY <1>10, <2>5 DEF AdminWrites
    <3>2. \A l \in RowsOf(u) :
            /\ Row(u, "admin", l.password) \in LoginRows /\ Row(u, "admin", l.password).user = u
            /\ Row(u, "admin", l.password).role = "admin"
            /\ Row(u, "viewer", l.password) \in LoginRows /\ Row(u, "viewer", l.password).user = u
      BY <1>a, <2>1, RowFields DEF RowsOf
    <3>3. op = "reset" => \A l \in RowsOf(u) : /\ Row(u, l.role, p) \in LoginRows
                                               /\ Row(u, l.role, p).user = u
                                               /\ Row(u, l.role, p).role = l.role
      BY <1>a, <2>1, <2>2, RowFields DEF RowsOf
    <3>4. op \in {"demote", "delete"} => Taking(handler[r]) /\ handler[r].on = u
      BY <2>1 DEF Taking
    <3> HIDE DEF u, op, p
    <3>5. /\ rows \in SUBSET LoginRows /\ \A k \in rows : k.user = u
          /\ RowsOf(u) = {} => rows = {}
          /\ (\A k, m \in RowsOf(u) : k = m) => (\A k, m \in rows : k = m)
          /\ op \in {"promote", "reset"} =>
               \A l \in RowsOf(u) : l.role = "admin" => \E k \in rows : k.role = "admin"
      <4>1. CASE op = "promote"
        BY <3>2, <4>1
      <4>2. CASE op = "demote"
        BY <3>2, <4>2
      <4>3. CASE op = "delete"
        BY <4>3
      <4>4. CASE op = "reset"
        BY <3>3, <4>4
      <4> QED
        BY <2>5, <4>1, <4>2, <4>3, <4>4
    <3> HIDE DEF rows
    <3>6. ~raced' => ~raced
      BY <2>2
    <3> QED
      BY <2>1, <2>2, <2>3, <2>5, <3>1, <3>4, <3>5, <3>6, RowsRewritten
  <2> QED
    BY <2>1, <2>4, <2>5 DEF AdminOps
<1>11. ASSUME NEW u \in Logins, DeletedByHand(u) PROVE LoginsInv'
  <2>1. /\ logins' = {} /\ UNCHANGED <<sessions, handler, passwords, raced>>
        /\ \A r \in Handlers : handler[r] = NoHandler
    BY <1>11 DEF DeletedByHand
  <2>2. NotOvertaken'
    BY <2>1, NoHandlerIs DEF NotOvertaken, AdminOps
  <2> QED
    BY <1>0, <2>1, <2>2 DEF LoginsInv, HandlerSound
<1>12. CASE UNCHANGED lvars
  BY <1>0, <1>12 DEF lvars, LoginsInv, NotOvertaken, Spared, HandlerSound
<1> QED
  BY <1>1, <1>2, <1>3, <1>4, <1>5, <1>6, <1>7, <1>8, <1>9, <1>10, <1>11, <1>12 DEF LoginsNext

\* Some administrator can always sign in unless checks were overtaken, and a session
\* is of someone who knew the present password.
THEOREM LoginsAlwaysSafe == LoginsSpec => [](LoginsTypeOK /\ AdminRemains /\ SessionsKnow)
<1>1. LoginsInv /\ [LoginsNext]_lvars => LoginsInv'
  BY StepLogins
<1>2. LoginsInv => LoginsTypeOK /\ AdminRemains /\ SessionsKnow
  BY DEF LoginsInv, LoginRows, LoginsTypeOK, NotOvertaken, Spared, Admins, AdminRemains,
         SessionsKnow, Accepts
<1> QED
  BY InitLogins, <1>1, <1>2, PTL DEF LoginsSpec

-----------------------------------------------------------------------------
(* Guesses of passwords (LoginThrottle)                                    *)

\* A set of naturals has a least member, and a bounded one a greatest.
LEMMA LeastMember ==
  ASSUME NEW T, T \subseteq Nat, T # {}
  PROVE  \E x \in T : \A y \in T : x <= y
<1>1. PICK x \in T : \A y \in T : ~ (<<y, x>> \in OpToRel(<, Nat))
  BY NatLessThanWellFounded, WFMin
<1>2. \A y \in T : ~(y < x)
  BY <1>1 DEF OpToRel
<1> QED
  BY <1>2

LEMMA GreatestMember ==
  ASSUME NEW n \in Nat, NEW T, T \subseteq 0 .. n, T # {}
  PROVE  \E x \in T : \A y \in T : y <= x
<1> DEFINE U == {m \in 0 .. n : \E x \in T : m = n - x}
<1>1. U \subseteq Nat
  OBVIOUS
<1>2. U # {}
  <2>1. PICK x \in T : TRUE
    OBVIOUS
  <2>2. n - x \in U
    BY <2>1
  <2> QED
    BY <2>2
<1>3. PICK m \in U : \A y \in U : m <= y
  BY <1>1, <1>2, LeastMember
<1>4. PICK x \in T : m = n - x
  BY <1>3
<1>5. ASSUME NEW y \in T PROVE y <= x
  <2>1. n - y \in U
    OBVIOUS
  <2> QED
    BY <1>3, <1>4, <2>1
<1> QED
  BY <1>5

Ascending(s) ==
  /\ s \in Seq(Nat)
  /\ \A i, j \in 1 .. Len(s) : i < j => s[i] <= s[j]

\* What is later than a time is a tail of times that ascend.
LEMMA LaterIsTail ==
  ASSUME NEW s, Ascending(s), NEW cut \in Int
  PROVE  \E m \in 0 .. Len(s) : /\ {i \in DOMAIN s : s[i] > cut} = (m + 1) .. Len(s)
                                /\ Since(s, cut) = Len(s) - m
<1>0. DOMAIN s = 1 .. Len(s) /\ Len(s) \in Nat /\ \A i \in 1 .. Len(s) : s[i] \in Nat
  BY DEF Ascending
<1> DEFINE T == {i \in 1 .. Len(s) : s[i] > cut}
<1>1. \E m \in 0 .. Len(s) : T = (m + 1) .. Len(s)
  <2>1. CASE T = {}
    BY <1>0, <2>1
  <2>2. CASE T # {}
    <3>0. T \subseteq Nat
      BY <1>0
    <3> HIDE DEF T
    <3>1. PICK x \in T : \A y \in T : x <= y
      BY <2>2, <3>0, LeastMember
    <3> USE DEF T
    <3>2. \A i \in x .. Len(s) : s[i] > cut
      BY <1>0, <3>1 DEF Ascending
    <3>3. T = ((x - 1) + 1) .. Len(s) /\ x - 1 \in 0 .. Len(s)
      BY <1>0, <3>1, <3>2
    <3> QED
      BY <3>3
  <2> QED
    BY <2>1, <2>2
<1>2. PICK m \in 0 .. Len(s) : T = (m + 1) .. Len(s)
  BY <1>1
<1>3. Cardinality((m + 1) .. Len(s)) = Len(s) - m
  <2>1. m + 1 \in Int /\ Len(s) \in Int /\ m <= Len(s) /\ m \in Int
    BY <1>0, <1>2
  <2>2. Cardinality((m + 1) .. Len(s)) = IF m + 1 > Len(s) THEN 0 ELSE Len(s) - (m + 1) + 1
    BY <2>1, FS_Interval
  <2> QED
    BY <2>1, <2>2
<1> QED
  BY <1>0, <1>2, <1>3 DEF Since

LEMMA KeptIs ==
  ASSUME NEW s, Ascending(s), NEW cut \in Int
  PROVE  /\ Ascending(Unexpired(s, cut)) /\ Len(Unexpired(s, cut)) = Since(s, cut)
         /\ Since(s, cut) \in 0 .. Len(s)
         /\ \A i \in 1 .. Len(Unexpired(s, cut)) :
              /\ Unexpired(s, cut)[i] > cut
              /\ \E j \in 1 .. Len(s) : Unexpired(s, cut)[i] = s[j]
<1>1. PICK m \in 0 .. Len(s) : /\ {i \in DOMAIN s : s[i] > cut} = (m + 1) .. Len(s)
                               /\ Since(s, cut) = Len(s) - m
  BY LaterIsTail
<1>2. s \in Seq(Nat) /\ Len(s) \in Nat /\ DOMAIN s = 1 .. Len(s)
  BY DEF Ascending
<1> DEFINE r == Unexpired(s, cut)
<1>3. r = SubSeq(s, m + 1, Len(s))
  BY <1>1, <1>2 DEF Unexpired
<1> DEFINE n == Len(s)
<1>a. n \in Nat /\ m \in Nat /\ m <= n /\ m + 1 \in 1 .. n + 1 /\ n \in m .. n
  BY <1>1, <1>2
<1> HIDE DEF n
<1>b. r = SubSeq(s, m + 1, n) /\ Len(s) = n
  BY <1>3 DEF n
<1>4. /\ r \in Seq(Nat) /\ Len(r) = n - m
      /\ \A i \in 1 .. Len(r) : r[i] = s[m + i]
  <2> HIDE DEF r
  <2>1. r \in Seq(Nat)
    BY <1>2, <1>a, <1>b, SubSeqProperties
  <2>2. \A i \in (m + 1) .. n : s[i] \in Nat
    BY <1>2, <1>a, <1>b
  <2>3. /\ Len(r) = n - m
        /\ \A i \in 1 .. n - (m + 1) + 1 : r[i] = s[(m + 1) + i - 1]
    BY <1>a, <1>b, <2>2, SubSeqProperties
  <2>4. \A i \in 1 .. n - m : (m + 1) + i - 1 = m + i /\ i \in 1 .. n - (m + 1) + 1
    BY <1>a
  <2> QED
    BY <2>1, <2>3, <2>4
<1> HIDE DEF r
<1>5. \A i \in 1 .. Len(r) : m + i \in (m + 1) .. Len(s) /\ m + i \in 1 .. Len(s)
  BY <1>a, <1>b, <1>4
<1>6. Ascending(r)
  <2>1. ASSUME NEW i \in 1 .. Len(r), NEW j \in 1 .. Len(r), i < j PROVE r[i] <= r[j]
    <3>1. m + i \in 1 .. Len(s) /\ m + j \in 1 .. Len(s)
      BY <1>5
    <3>2. r[i] = s[m + i] /\ r[j] = s[m + j]
      BY <1>4
    <3>3. Len(r) \in Int
      BY <1>a, <1>4
    <3>4. m + i < m + j
      BY <1>a, <2>1, <3>3
    <3> HIDE DEF r
    <3> QED
      BY <3>1, <3>2, <3>4 DEF Ascending
  <2> QED
    BY <1>4, <2>1 DEF Ascending
<1>7. \A i \in 1 .. Len(r) : r[i] > cut /\ \E j \in 1 .. Len(s) : r[i] = s[j]
  BY <1>1, <1>2, <1>4, <1>5
<1>8. Since(s, cut) \in 0 .. Len(s) /\ Len(r) = Since(s, cut)
  BY <1>1, <1>4, <1>a, <1>b
<1> QED
  BY <1>6, <1>7, <1>8 DEF r

\* Of times that are all later, all are kept.
LEMMA AllLater ==
  ASSUME NEW s, Ascending(s), NEW cut \in Int, \A i \in 1 .. Len(s) : s[i] > cut
  PROVE  Since(s, cut) = Len(s)
<1>1. DOMAIN s = 1 .. Len(s) /\ Len(s) \in Nat
  BY DEF Ascending
<1>2. {i \in DOMAIN s : s[i] > cut} = 1 .. Len(s)
  BY <1>1
<1>3. Cardinality(1 .. Len(s)) = IF 1 > Len(s) THEN 0 ELSE Len(s) - 1 + 1
  BY <1>1, FS_Interval, SMTT(60)
<1>4. Since(s, cut) = Cardinality(1 .. Len(s))
  BY <1>2 DEF Since
<1> QED
  BY <1>1, <1>3, <1>4

LEMMA FewerLater ==
  ASSUME NEW s, Ascending(s), NEW a \in Int, NEW b \in Int, a <= b
  PROVE  Since(s, b) <= Since(s, a)
<1>1. DOMAIN s = 1 .. Len(s) /\ Len(s) \in Nat /\ \A i \in 1 .. Len(s) : s[i] \in Nat
  BY DEF Ascending
<1>2. IsFiniteSet({i \in DOMAIN s : s[i] > a})
  <2>1. IsFiniteSet(1 .. Len(s))
    BY <1>1, FS_Interval
  <2>2. {i \in DOMAIN s : s[i] > a} \in SUBSET (1 .. Len(s))
    BY <1>1
  <2> QED
    BY <2>1, <2>2, FS_Subset
<1>3. {i \in DOMAIN s : s[i] > b} \in SUBSET {i \in DOMAIN s : s[i] > a}
  BY <1>1
<1> QED
  BY <1>2, <1>3, FS_Subset DEF Since

LEMMA AppendAscending ==
  ASSUME NEW s, Ascending(s), NEW t \in Nat, \A i \in 1 .. Len(s) : s[i] <= t
  PROVE  Ascending(Append(s, t)) /\ Len(Append(s, t)) = Len(s) + 1
<1>1. s \in Seq(Nat) /\ Len(s) \in Nat
  BY DEF Ascending
<1>2. /\ Append(s, t) \in Seq(Nat) /\ Len(Append(s, t)) = Len(s) + 1
      /\ \A i \in 1 .. Len(s) : Append(s, t)[i] = s[i]
      /\ Append(s, t)[Len(s) + 1] = t
  BY <1>1, AppendProperties
<1> DEFINE r == Append(s, t)
<1> HIDE DEF r
<1>3. Ascending(r)
  BY <1>1, <1>2 DEF Ascending, r
<1> QED
  BY <1>2, <1>3 DEF r

-----------------------------------------------------------------------------
Using(k) == {c \in Guessers : k \in GuessKeys[c]}

\* The inductive invariant of ThrottleHolds and WaitIsEnough.
ThrottleInv ==
  /\ minute \in Nat /\ guess \in [Guessers -> {"idle", "verifying"}]
  /\ failures = [k \in ThrottleKeys |-> failures[k]]
  /\ \A k \in ThrottleKeys : /\ Ascending(failures[k])
                             /\ \A i \in 1 .. Len(failures[k]) : failures[k][i] <= minute
  /\ \A k \in ThrottleKeys : Since(failures[k], minute - Window) + Cardinality(Verifying(k))
                               < MaxFailures + Cardinality(Using(k))

LEMMA Finite ==
  ASSUME NEW k
  PROVE  /\ IsFiniteSet(Using(k)) /\ IsFiniteSet(Verifying(k))
         /\ Cardinality(Using(k)) \in Nat /\ Cardinality(Verifying(k)) \in Nat
         /\ Cardinality(Verifying(k)) <= Cardinality(Using(k))
<1>1. IsFiniteSet(Guessers) /\ Using(k) \in SUBSET Guessers /\ Verifying(k) \in SUBSET Using(k)
  BY ThrottleAssumption DEF Using, Verifying
<1>2. IsFiniteSet(Using(k)) /\ IsFiniteSet(Verifying(k))
  BY <1>1, FS_Subset
<1> QED
  BY <1>1, <1>2, FS_Subset, FS_CardinalityType

\* What is answered about the window, where nothing is later than now.
LEMMA RecentIs ==
  ASSUME ThrottleInv, NEW k \in ThrottleKeys
  PROVE  /\ Ascending(Recent(k)) /\ Len(Recent(k)) = Since(failures[k], minute - Window)
         /\ Len(Recent(k)) \in Nat
         /\ \A i \in 1 .. Len(Recent(k)) : /\ Recent(k)[i] \in Nat /\ Recent(k)[i] <= minute
                                           /\ Recent(k)[i] > minute - Window
<1>1. Ascending(failures[k]) /\ minute - Window \in Int
  BY ThrottleAssumption DEF ThrottleInv
<1>2. \A i \in 1 .. Len(failures[k]) : failures[k][i] <= minute
  BY DEF ThrottleInv
<1> DEFINE s == failures[k]
           r == Unexpired(s, minute - Window)
<1>3. /\ Ascending(r) /\ Len(r) = Since(s, minute - Window)
      /\ \A i \in 1 .. Len(r) : r[i] > minute - Window /\ \E j \in 1 .. Len(s) : r[i] = s[j]
  BY <1>1, KeptIs
<1>4. Len(r) \in Nat /\ \A i \in 1 .. Len(r) : r[i] \in Nat
  <2> HIDE DEF r
  <2> QED
    BY <1>3 DEF Ascending
<1> HIDE DEF r
<1> QED
  BY <1>2, <1>3, <1>4 DEF Recent, r

LEMMA InitThrottle == ThrottleInit => ThrottleInv
<1> SUFFICES ASSUME ThrottleInit PROVE ThrottleInv
  OBVIOUS
<1>1. \A k \in ThrottleKeys : failures[k] = <<>>
  BY DEF ThrottleInit
<1>2. Ascending(<<>>) /\ Len(<<>>) = 0
  BY DEF Ascending
<1>3. minute - Window \in Int
  BY ThrottleAssumption DEF ThrottleInit
<1>4. Since(<<>>, minute - Window) = 0
  BY <1>2, <1>3, AllLater
<1>5. \A k : Verifying(k) = {}
  BY DEF Verifying, ThrottleInit
<1>6. \A k : Cardinality(Verifying(k)) = 0
  BY <1>5, FS_EmptySet
<1>7. \A k \in ThrottleKeys : Since(failures[k], minute - Window) + Cardinality(Verifying(k))
                               < MaxFailures + Cardinality(Using(k))
  BY <1>1, <1>4, <1>6, Finite, ThrottleAssumption
<1> QED
  BY <1>1, <1>2, <1>7 DEF ThrottleInit, ThrottleInv

\* No answered wait is negative, and it is none only if no window is full.
LEMMA WaitsIs ==
  ASSUME ThrottleInv, NEW c \in Guessers
  PROVE  /\ RetryAfter(c) \in 0 .. Window
         /\ \A k \in GuessKeys[c] : Full(k) => RetryAfter(c) >= Recent(k)[1] + Window - minute
         /\ RetryAfter(c) = 0 => \A k \in GuessKeys[c] : ~Full(k)
<1>1. GuessKeys[c] \subseteq ThrottleKeys /\ minute \in Nat /\ Window \in Nat /\ MaxFailures \in Nat \ {0}
  BY ThrottleAssumption DEF ThrottleInv
<1>2. ASSUME NEW k \in GuessKeys[c], Full(k)
      PROVE  Recent(k)[1] + Window - minute \in 1 .. Window
  <2>1. Len(Recent(k)) >= MaxFailures /\ k \in ThrottleKeys
    BY <1>1, <1>2 DEF Full
  <2>2. 1 \in 1 .. Len(Recent(k))
    BY <1>1, <2>1, RecentIs
  <2>3. Recent(k)[1] \in Nat /\ Recent(k)[1] <= minute /\ Recent(k)[1] > minute - Window
    BY <2>1, <2>2, RecentIs
  <2> QED
    BY <1>1, <2>3
<1>3. Waits(c) \subseteq 0 .. Window /\ Waits(c) # {}
  BY <1>1, <1>2 DEF Waits
<1>4. \E w \in Waits(c) : \A v \in Waits(c) : v <= w
  BY <1>1, <1>3, GreatestMember
<1>5. RetryAfter(c) \in Waits(c) /\ \A v \in Waits(c) : v <= RetryAfter(c)
  BY <1>4 DEF RetryAfter
<1>6. RetryAfter(c) \in 0 .. Window
  BY <1>3, <1>5
<1>7. ASSUME NEW k \in GuessKeys[c], Full(k)
      PROVE  RetryAfter(c) >= Recent(k)[1] + Window - minute /\ RetryAfter(c) # 0
  <2>1. Recent(k)[1] + Window - minute \in Waits(c)
    BY <1>7 DEF Waits
  <2> QED
    BY <1>2, <1>5, <1>6, <1>7, <2>1
<1> QED
  BY <1>6, <1>7

LEMMA StepThrottle == ASSUME ThrottleInv, [ThrottleNext]_tvars PROVE ThrottleInv'
<1> USE ThrottleAssumption
<1>0. /\ minute \in Nat /\ guess \in [Guessers -> {"idle", "verifying"}] /\ minute - Window \in Int
      /\ failures = [k \in ThrottleKeys |-> failures[k]]
      /\ \A k \in ThrottleKeys : /\ Ascending(failures[k])
                                 /\ \A i \in 1 .. Len(failures[k]) : failures[k][i] <= minute
      /\ \A k \in ThrottleKeys : /\ Since(failures[k], minute - Window) \in Nat
                                 /\ Since(failures[k], minute - Window) + Cardinality(Verifying(k))
                                      < MaxFailures + Cardinality(Using(k))
  <2>1. \A k \in ThrottleKeys : Since(failures[k], minute - Window) \in Nat
    BY RecentIs
  <2> QED
    BY <2>1 DEF ThrottleInv
<1>1. ASSUME NEW c \in Guessers, Guess(c) PROVE ThrottleInv'
  <2>1. /\ guess' = [guess EXCEPT ![c] = IF RetryAfter(c) > 0 THEN "idle" ELSE "verifying"]
        /\ failures' = [k \in ThrottleKeys |-> IF k \in GuessKeys[c] THEN Recent(k) ELSE failures[k]]
        /\ minute' = minute /\ guess[c] = "idle"
    BY <1>1 DEF Guess
  <2>2. ASSUME NEW k \in ThrottleKeys
        PROVE  /\ Ascending(failures'[k])
               /\ \A i \in 1 .. Len(failures'[k]) : failures'[k][i] <= minute'
               /\ Since(failures'[k], minute - Window) = Since(failures[k], minute - Window)
    <3>1. CASE k \in GuessKeys[c]
      <4>1. failures'[k] = Recent(k)
        BY <2>1, <3>1
      <4>2. /\ Ascending(Recent(k)) /\ Len(Recent(k)) = Since(failures[k], minute - Window)
            /\ \A i \in 1 .. Len(Recent(k)) : Recent(k)[i] <= minute /\ Recent(k)[i] > minute - Window
        BY RecentIs
      <4>3. Since(Recent(k), minute - Window) = Len(Recent(k))
        BY <1>0, <4>2, AllLater
      <4> QED
        BY <2>1, <4>1, <4>2, <4>3
    <3>2. CASE k \notin GuessKeys[c]
      BY <1>0, <2>1, <3>2
    <3> QED
      BY <3>1, <3>2
  <2>3. ASSUME NEW k \in ThrottleKeys
        PROVE  Since(failures[k], minute - Window) + Cardinality(Verifying(k)')
                 < MaxFailures + Cardinality(Using(k))
    <3>1. CASE RetryAfter(c) > 0 \/ k \notin GuessKeys[c]
      <4>1. Verifying(k)' = Verifying(k)
        BY <1>0, <2>1, <3>1 DEF Verifying
      <4> QED
        BY <1>0, <4>1
    <3>2. CASE RetryAfter(c) = 0 /\ k \in GuessKeys[c]
      <4>1. Since(failures[k], minute - Window) < MaxFailures
        BY <3>2, WaitsIs, RecentIs DEF Full
      <4>2. Verifying(k)' \in SUBSET Using(k)
        BY DEF Verifying, Using
      <4>3. /\ Cardinality(Verifying(k)') <= Cardinality(Using(k)) /\ Cardinality(Using(k)) \in Nat
            /\ Cardinality(Verifying(k)') \in Nat
        BY <4>2, Finite, FS_Subset, FS_CardinalityType
      <4> QED
        BY <1>0, <4>1, <4>3
    <3> QED
      BY <3>1, <3>2, WaitsIs
  <2>4. guess' \in [Guessers -> {"idle", "verifying"}] /\ minute' \in Nat
        /\ failures' = [k \in ThrottleKeys |-> failures'[k]]
    BY <1>0, <2>1
  <2>5. \A k \in ThrottleKeys : Since(failures'[k], minute' - Window) + Cardinality(Verifying(k)')
                                 < MaxFailures + Cardinality(Using(k))
    BY <2>1, <2>2, <2>3
  <2> QED
    BY <2>2, <2>4, <2>5 DEF ThrottleInv, Using
<1>2. ASSUME NEW c \in Guessers, GuessFails(c) \/ GuessSucceeds(c) PROVE ThrottleInv'
  <2>1. /\ guess' = [guess EXCEPT ![c] = "idle"] /\ guess[c] = "verifying" /\ minute' = minute
        /\ failures' = [k \in ThrottleKeys |-> failures'[k]]
        /\ \A k \in ThrottleKeys :
             failures'[k] = IF k \notin GuessKeys[c] THEN failures[k]
                            ELSE IF GuessFails(c) THEN Append(Recent(k), minute) ELSE <<>>
    BY <1>2 DEF GuessFails, GuessSucceeds
  <2>2. \A k \in ThrottleKeys \ GuessKeys[c] : Verifying(k)' = Verifying(k)
    BY <1>0, <2>1 DEF Verifying
  <2>3. ASSUME NEW k \in GuessKeys[c], k \in ThrottleKeys
        PROVE  Cardinality(Verifying(k)') = Cardinality(Verifying(k)) - 1
    <3>1. Verifying(k)' = Verifying(k) \ {c} /\ c \in Verifying(k)
      BY <1>0, <2>1, <2>3 DEF Verifying
    <3>2. IsFiniteSet(Verifying(k))
      BY Finite
    <3> QED
      BY <3>1, <3>2, FS_RemoveElement, ZenonT(60)
  <2>4. ASSUME NEW k \in ThrottleKeys
        PROVE  /\ Ascending(failures'[k])
               /\ \A i \in 1 .. Len(failures'[k]) : failures'[k][i] <= minute'
               /\ Since(failures'[k], minute - Window) + Cardinality(Verifying(k)')
                    < MaxFailures + Cardinality(Using(k))
    <3>1. CASE k \notin GuessKeys[c]
      BY <1>0, <2>1, <2>2, <3>1
    <3>2. CASE k \in GuessKeys[c] /\ GuessFails(c)
      <4> DEFINE r == Recent(k)
                 s == Append(r, minute)
      <4>1. /\ Ascending(r) /\ Len(r) = Since(failures[k], minute - Window) /\ Len(r) \in Nat
            /\ \A i \in 1 .. Len(r) : r[i] \in Nat /\ r[i] <= minute /\ r[i] > minute - Window
        BY RecentIs
      <4>2. failures'[k] = s
        BY <2>1, <3>2
      <4> HIDE DEF r
      <4>3. Ascending(s) /\ Len(s) = Len(r) + 1
        BY <1>0, <4>1, AppendAscending
      <4>4. \A i \in 1 .. Len(s) : s[i] = IF i = Len(r) + 1 THEN minute ELSE r[i]
        BY <4>1, AppendProperties DEF Ascending
      <4> HIDE DEF s
      <4>5. \A i \in 1 .. Len(s) : s[i] <= minute /\ s[i] > minute - Window
        BY <1>0, <4>1, <4>3, <4>4
      <4>6. Since(s, minute - Window) = Len(s)
        BY <1>0, <4>3, <4>5, AllLater
      <4>7. Cardinality(Verifying(k)') = Cardinality(Verifying(k)) - 1
        BY <2>3, <3>2
      <4>8. Since(s, minute - Window) + Cardinality(Verifying(k)')
              = Since(failures[k], minute - Window) + Cardinality(Verifying(k))
        BY <4>1, <4>3, <4>6, <4>7, Finite
      <4> QED
        BY <1>0, <2>1, <4>2, <4>3, <4>5, <4>8
    <3>3. CASE k \in GuessKeys[c] /\ ~GuessFails(c)
      <4>1. failures'[k] = <<>>
        BY <2>1, <3>3
      <4>2. Ascending(<<>>) /\ Len(<<>>) = 0
        BY DEF Ascending
      <4>3. Since(<<>>, minute - Window) = 0
        BY <1>0, <4>2, AllLater
      <4>4. Cardinality(Verifying(k)') = Cardinality(Verifying(k)) - 1
        BY <2>3, <3>3
      <4> QED
        BY <2>1, <4>1, <4>2, <4>3, <4>4, Finite
    <3> QED
      BY <3>1, <3>2, <3>3
  <2>5. guess' \in [Guessers -> {"idle", "verifying"}] /\ minute' \in Nat
    BY <1>0, <2>1
  <2> QED
    BY <2>1, <2>4, <2>5 DEF ThrottleInv, Using
<1>3. ASSUME MinutePasses PROVE ThrottleInv'
  <2>1. minute' = minute + 1 /\ UNCHANGED <<failures, guess>>
    BY <1>3 DEF MinutePasses
  <2>2. ASSUME NEW k \in ThrottleKeys
        PROVE  /\ Since(failures[k], minute' - Window) \in Nat
               /\ Since(failures[k], minute' - Window) <= Since(failures[k], minute - Window)
    <3>1. minute' - Window \in Int /\ minute - Window <= minute' - Window
      BY <1>0, <2>1
    <3>2. Ascending(failures[k])
      BY <1>0
    <3>3. Since(failures[k], minute' - Window) \in 0 .. Len(failures[k])
      <4> DEFINE s == failures[k]
                 cut == minute' - Window
      <4>1. Ascending(s) /\ cut \in Int
        BY <3>1, <3>2
      <4> HIDE DEF s, cut
      <4>2. Since(s, cut) \in 0 .. Len(s)
        BY <4>1, KeptIs
      <4> QED
        BY <4>2 DEF s, cut
    <3>4. Len(failures[k]) \in Nat
      BY <3>2 DEF Ascending
    <3> QED
      BY <1>0, <3>1, <3>2, <3>3, <3>4, FewerLater
  <2>3. \A k : Verifying(k)' = Verifying(k)
    BY <2>1 DEF Verifying
  <2>4. ASSUME NEW k \in ThrottleKeys
        PROVE  Since(failures'[k], minute' - Window) + Cardinality(Verifying(k)')
                 < MaxFailures + Cardinality(Using(k))
    <3>1. failures'[k] = failures[k] /\ Verifying(k)' = Verifying(k)
      BY <2>1, <2>3
    <3> QED
      BY <1>0, <2>2, <3>1, Finite
  <2>5. \A k \in ThrottleKeys : /\ Ascending(failures'[k])
                                /\ \A i \in 1 .. Len(failures'[k]) : failures'[k][i] <= minute'
    <3>1. ASSUME NEW k \in ThrottleKeys, NEW i \in 1 .. Len(failures[k]) PROVE failures[k][i] <= minute + 1
      <4>1. failures[k][i] \in Nat /\ failures[k][i] <= minute
        BY <1>0, SMTT(60) DEF Ascending
      <4> QED
        BY <1>0, <4>1
    <3> QED
      BY <1>0, <2>1, <3>1
  <2> QED
    BY <1>0, <2>1, <2>4, <2>5 DEF ThrottleInv, Using
<1>4. CASE UNCHANGED tvars
  BY <1>4 DEF tvars, ThrottleInv, Verifying, Using
<1> QED
  BY <1>1, <1>2, <1>3, <1>4 DEF ThrottleNext

\* A wait that is answered is one within the window, and long enough.
LEMMA WaitIsLongEnough == ThrottleInv => WaitIsEnough
<1> SUFFICES ASSUME ThrottleInv, NEW c \in Guessers,
                    NEW k \in GuessKeys[c], Len(Recent(k)) = MaxFailures
             PROVE  Since(failures[k], minute + RetryAfter(c) - Window) < MaxFailures
  BY WaitsIs, ThrottleAssumption DEF WaitIsEnough
<1> DEFINE s == failures[k]
           cut == minute - Window
           later == minute + RetryAfter(c) - Window
<1>1. /\ k \in ThrottleKeys /\ minute \in Nat /\ Window \in Nat /\ MaxFailures \in Nat \ {0}
      /\ Ascending(s)
  BY ThrottleAssumption DEF ThrottleInv
<1>2. RetryAfter(c) \in 0 .. Window /\ RetryAfter(c) >= Recent(k)[1] + Window - minute
  BY <1>1, WaitsIs DEF Full
<1>3. cut \in Int /\ later \in Int
  BY <1>1, <1>2
<1> HIDE DEF cut, later
<1>4. PICK m \in 0 .. Len(s) : /\ {i \in DOMAIN s : s[i] > cut} = (m + 1) .. Len(s)
                               /\ Since(s, cut) = Len(s) - m
  BY <1>1, <1>3, LaterIsTail
<1>5. PICK n \in 0 .. Len(s) : /\ {i \in DOMAIN s : s[i] > later} = (n + 1) .. Len(s)
                               /\ Since(s, later) = Len(s) - n
  BY <1>1, <1>3, LaterIsTail
<1>6. Len(s) \in Nat /\ DOMAIN s = 1 .. Len(s) /\ Len(s) - m = MaxFailures
  <2>1. Len(s) \in Nat /\ DOMAIN s = 1 .. Len(s)
    BY <1>1 DEF Ascending
  <2>2. Since(s, cut) = Len(Recent(k))
    BY <1>1, RecentIs DEF cut
  <2> QED
    BY <1>4, <2>1, <2>2
<1>7. m + 1 \in 1 .. Len(s) /\ Recent(k)[1] = s[m + 1]
  <2>1. Recent(k) = SubSeq(s, m + 1, Len(s))
    BY <1>4, <1>6, SMTT(60) DEF Recent, Unexpired, cut
  <2>2. m + 1 \in 1 .. Len(s)
    BY <1>1, <1>6
  <2> QED
    BY <1>1, <1>6, <2>1, <2>2 DEF Ascending
<1>8. s[m + 1] \in Nat /\ ~(s[m + 1] > later)
  <2> DEFINE x == s[m + 1]
             wait == RetryAfter(c)
  <2>1. x \in Nat
    BY <1>1, <1>7 DEF Ascending
  <2>2. wait \in Nat /\ wait >= x + Window - minute
    BY <1>2, <1>7
  <2>3. later = minute + wait - Window
    BY DEF later
  <2> HIDE DEF x, wait
  <2>4. ~(x > later)
    BY <1>1, <2>1, <2>2, <2>3
  <2> QED
    BY <2>1, <2>4 DEF x
<1>9. n >= m + 1
  BY <1>5, <1>6, <1>7, <1>8, SMTT(60)
<1> QED
  BY <1>1, <1>4, <1>5, <1>6, <1>9 DEF later

\* Guesses are throttled, and an answered wait is enough.
THEOREM ThrottleAlwaysHolds == ThrottleSpec => [](ThrottleTypeOK /\ ThrottleHolds /\ WaitIsEnough)
<1>1. ThrottleInv /\ [ThrottleNext]_tvars => ThrottleInv'
  BY StepThrottle
<1>2. ThrottleInv => ThrottleTypeOK
  <2> SUFFICES ASSUME ThrottleInv PROVE ThrottleTypeOK
    OBVIOUS
  <2>1. ASSUME NEW k \in ThrottleKeys PROVE failures[k] \in Seq(0 .. minute)
    <3> DEFINE s == failures[k]
    <3>1. s \in Seq(Nat) /\ \A i \in 1 .. Len(s) : s[i] \in 0 .. minute
      BY DEF ThrottleInv, Ascending
    <3> HIDE DEF s
    <3>2. s \in [1 .. Len(s) -> 0 .. minute] /\ Len(s) \in Nat
      BY <3>1
    <3>3. s \in Seq(0 .. minute)
      BY <3>2, SeqDef
    <3> QED
      BY <3>3 DEF s
  <2>2. \A k \in ThrottleKeys : \A i, j \in DOMAIN failures[k] :
          i < j => failures[k][i] <= failures[k][j]
    BY SMTT(60) DEF ThrottleInv, Ascending
  <2>3. failures \in [ThrottleKeys -> Seq(0 .. minute)]
    BY <2>1 DEF ThrottleInv
  <2> QED
    BY <2>2, <2>3 DEF ThrottleInv, ThrottleTypeOK
<1>3. ThrottleInv => ThrottleHolds
  BY RecentIs DEF ThrottleInv, ThrottleHolds, Using
<1> QED
  BY InitThrottle, <1>1, <1>2, <1>3, WaitIsLongEnough, PTL DEF ThrottleSpec

\* Signing in is safe: what is promised of logins and sessions, and of guesses.
THEOREM SignInsAlwaysSafe == SignInsSpec => []SignInsSafe
BY LoginsAlwaysSafe, ThrottleAlwaysHolds, PTL DEF SignInsSpec, SignInsSafe

-----------------------------------------------------------------------------
(* Pages of the console: the assistant (AskLoop) and the grid (GridView)   *)

\* The inductive invariant of AnswerHolds: a chart is drawn of a result.
AskInv ==
  /\ functions \subseteq ColumnSets
  /\ result = {} => chart = {}
  /\ turn = "answered" => chart \subseteq result

LEMMA AskStep == AskInv /\ [AskNext]_askVars => AskInv'
<1> SUFFICES ASSUME AskInv, [AskNext]_askVars PROVE AskInv'
  OBVIOUS
<1> USE DEF AskInv
<1>1. CASE ModelAnswers
  BY <1>1 DEF ModelAnswers, Kept
<1>2. CASE ModelCalls
  BY <1>2 DEF ModelCalls
<1>3. CASE ModelFails
  BY <1>3 DEF ModelFails
<1>4. CASE RunSql
  BY <1>4, AskAssumption DEF RunSql, Reported
<1>5. CASE RunFunction
  <2>1. PICK cs \in functions : result' = cs
    BY <1>5 DEF RunFunction
  <2> QED
    BY <1>5, <2>1, AskAssumption DEF RunFunction, Reported
<1>6. CASE DrawChart
  BY <1>6 DEF DrawChart, Reported
<1>7. CASE DescribeTable
  BY <1>7 DEF DescribeTable, Reported
<1>8. CASE ToolFails
  BY <1>8 DEF ToolFails, Reported
<1>9. CASE ToolCancelled
  BY <1>9 DEF ToolCancelled
<1>10. CASE ClientGoes
  BY <1>10 DEF ClientGoes
<1>11. CASE UNCHANGED askVars
  BY <1>11 DEF askVars
<1> QED
  BY <1>1, <1>2, <1>3, <1>4, <1>5, <1>6, <1>7, <1>8, <1>9, <1>10, <1>11 DEF AskNext

\* The chart of an answer fits its result.
LEMMA AskHolds == AskSpec => []AnswerHolds
<1>1. AskInit => AskInv
  BY DEF AskInit, AskInv
<1>2. AskInv => AnswerHolds
  BY DEF AskInv, AnswerHolds
<1> QED
  BY <1>1, <1>2, AskStep, PTL DEF AskSpec

\* The type invariant of AskLoop and why it holds: a tool is called in a round that
\* the limit allows, and what is left to call was asked for in such a round.
AskTyped ==
  /\ AskTypeOK /\ steps \in Nat /\ steps + Len(calls) <= round * MaxCalls
  /\ turn \in {"model", "tools"} => round <= MaxSteps
  /\ turn = "model" => calls = << >>
  /\ turn = "tools" => calls # << >>

LEMMA WithinRounds ==
  ASSUME NEW n \in Nat, n <= MaxSteps
  PROVE  /\ n * MaxCalls \in Nat /\ (n + 1) * MaxCalls = n * MaxCalls + MaxCalls
         /\ n * MaxCalls <= MaxSteps * MaxCalls /\ MaxSteps * MaxCalls \in Nat
<1>1. MaxSteps * MaxCalls = n * MaxCalls + (MaxSteps - n) * MaxCalls
  BY AskAssumption
<1>2. (MaxSteps - n) * MaxCalls >= 0
  BY AskAssumption
<1> QED
  BY <1>1, <1>2, AskAssumption

LEMMA AskTypedStep == ASSUME AskTyped, [AskNext]_askVars PROVE AskTyped'
<1> USE AskAssumption
<1>0. /\ round \in 0 .. MaxSteps + 1 /\ calls \in Seq(Tools) /\ Len(calls) \in Nat
      /\ functions \subseteq ColumnSets /\ result \in ColumnSets \cup {{}}
      /\ chart \in SUBSET UNION ColumnSets /\ steps \in 0 .. MaxSteps * MaxCalls
      /\ left \in BOOLEAN /\ steps \in Nat /\ steps + Len(calls) <= round * MaxCalls
      /\ turn \in {"model", "tools", "answered", "failed", "cancelled"}
  BY DEF AskTyped, AskTypeOK
<1>1. CASE ModelAnswers
  <2>1. round \in Nat /\ round <= MaxSteps /\ calls = << >>
    BY <1>0, <1>1 DEF ModelAnswers, AskTyped
  <2>2. steps + Len(calls) <= (round + 1) * MaxCalls
    BY <1>0, <2>1, WithinRounds
  <2>3. chart' \in SUBSET UNION ColumnSets
    BY <1>0, <1>1 DEF ModelAnswers, Kept
  <2> QED
    BY <1>0, <1>1, <2>1, <2>2, <2>3 DEF ModelAnswers, AskTyped, AskTypeOK
<1>2. CASE ModelCalls
  <2>1. PICK n \in 1 .. MaxCalls : \E cs \in [1 .. n -> Tools] : calls' = cs
    BY <1>2 DEF ModelCalls
  <2>2. calls' \in [1 .. n -> Tools] /\ n \in Nat /\ n >= 1 /\ n <= MaxCalls
    BY <2>1
  <2>3. calls' \in Seq(Tools) /\ Len(calls') = n /\ calls' # << >>
    BY <2>2, SeqDef
  <2>4. round \in Nat /\ round < MaxSteps /\ calls = << >>
    BY <1>0, <1>2 DEF ModelCalls, lastRound, AskTyped
  <2>5. steps + n <= (round + 1) * MaxCalls
    BY <1>0, <2>2, <2>4, WithinRounds
  <2> QED
    BY <1>0, <1>2, <2>3, <2>4, <2>5 DEF ModelCalls, AskTyped, AskTypeOK
<1>3. CASE ModelFails \/ ToolCancelled \/ ClientGoes \/ UNCHANGED askVars
  BY <1>3 DEF ModelFails, ToolCancelled, ClientGoes, askVars, AskTyped, AskTypeOK
<1>4. ASSUME turn = "tools", Reported, result' \in ColumnSets \cup {{}},
             chart' \in SUBSET UNION ColumnSets
      PROVE  AskTyped'
  <2>1. calls # << >> /\ round <= MaxSteps
    BY <1>4 DEF AskTyped
  <2>2. Tail(calls) \in Seq(Tools) /\ Len(Tail(calls)) = Len(calls) - 1 /\ Len(calls) >= 1
    BY <1>0, <2>1
  <2>3. steps + 1 <= MaxSteps * MaxCalls /\ MaxSteps * MaxCalls \in Nat
    BY <1>0, <2>1, <2>2, WithinRounds
  <2>4. steps' \in 0 .. MaxSteps * MaxCalls /\ steps' + Len(calls') <= round' * MaxCalls
    <3>1. round' = round /\ steps' = steps + 1 /\ Len(calls') = Len(calls) - 1
      BY <1>4, <2>2 DEF Reported
    <3> QED
      BY <1>0, <2>3, <3>1
  <2>5. /\ turn' \in {"model", "tools"} /\ (turn' = "model" => calls' = << >>)
        /\ (turn' = "tools" => calls' # << >>)
    <3>1. calls' = Tail(calls) /\ turn' = IF Len(calls) = 1 THEN "model" ELSE "tools"
      BY <1>4 DEF Reported
    <3>2. Len(calls) = 1 <=> Len(Tail(calls)) = 0
      BY <1>0, <2>2
    <3>3. Len(Tail(calls)) = 0 <=> Tail(calls) = << >>
      BY <2>2, EmptySeq
    <3> QED
      BY <3>1, <3>2, <3>3
  <2> QED
    BY <1>0, <1>4, <2>1, <2>2, <2>4, <2>5 DEF Reported, AskTyped, AskTypeOK
<1>5. CASE RunSql \/ RunFunction
  BY <1>0, <1>4, <1>5 DEF RunSql, RunFunction, Calling
<1>6. CASE DrawChart
  <2>1. \A c \in SUBSET result : c \in SUBSET UNION ColumnSets
    BY <1>0
  <2> QED
    BY <1>0, <1>4, <1>6, <2>1 DEF DrawChart, Calling
<1>7. CASE DescribeTable \/ ToolFails
  BY <1>0, <1>4, <1>7 DEF DescribeTable, ToolFails, Calling
<1> QED
  BY <1>1, <1>2, <1>3, <1>5, <1>6, <1>7 DEF AskNext

\* AskTypeOK: a question ends after MAX_STEPS rounds of tool calls and one more
\* answer, and only columns of a result are drawn (ask).
THEOREM AskTypeCorrect == AskSpec => []AskTypeOK
<1>1. AskInit => AskTyped
  <2> SUFFICES ASSUME AskInit PROVE AskTyped
    OBVIOUS
  <2>1. 0 * MaxCalls = 0 /\ MaxSteps * MaxCalls \in Nat
    BY AskAssumption, WithinRounds
  <2>2. << >> \in Seq(Tools) /\ Len(<< >>) = 0
    OBVIOUS
  <2>3. AskTypeOK
    <3>1. 0 \in 0 .. MaxSteps * MaxCalls
      BY <2>1
    <3>2. {} \in SUBSET UNION ColumnSets
      OBVIOUS
    <3>3. 0 \in 0 .. MaxSteps + 1
      BY AskAssumption
    <3> QED
      BY <2>2, <3>1, <3>2, <3>3 DEF AskInit, AskTypeOK
  <2> QED
    BY AskAssumption, <2>1, <2>2, <2>3 DEF AskInit, AskTyped
<1>2. AskTyped => AskTypeOK
  BY DEF AskTyped
<1> QED
  BY <1>1, <1>2, AskTypedStep, PTL DEF AskSpec

\* The inductive invariant of SelectionShown: what is ticked is on the page, and
\* a failed load has emptied it.
GridInv ==
  /\ ticked \subseteq current.rows
  /\ current.failed \in BOOLEAN
  /\ current.failed => current.rows = {}
  /\ SelectionShown

\* However an answer is drawn, the selection it was drawn with is ticked.
LEMMA Drawing ==
  ASSUME GridInv, NEW v, NEW rows, NEW pages, NEW failed \in BOOLEAN,
         Draw(v, Drawn(rows, pages, failed), selected'),
         failed => rows = {}, ~failed => selected' \subseteq rows, selected' \subseteq selected
  PROVE  GridInv'
<1>1. CASE UNCHANGED grid
  BY <1>1 DEF GridInv, SelectionShown, grid
<1>2. CASE shown' = v /\ current' = Drawn(rows, pages, failed) /\ ticked' = selected' \cap rows
  BY <1>2 DEF GridInv, SelectionShown, Drawn
<1> QED
  BY <1>1, <1>2 DEF Draw, Drawn

LEMMA GridStep == GridInv /\ [GridNext]_gridvars => GridInv'
<1> SUFFICES ASSUME GridInv, [GridNext]_gridvars PROVE GridInv'
  OBVIOUS
<1>1. ASSUME UNCHANGED <<grid, selected>> PROVE GridInv'
  BY <1>1 DEF GridInv, SelectionShown, grid
<1>2. ASSUME LeavePage PROVE GridInv'
  BY <1>2 DEF GridInv, SelectionShown, LeavePage, Undrawn, Drawn
<1>3. ASSUME NEW l \in loads, ServerCounts(l) \/ ServerReads(l) PROVE GridInv'
  BY <1>1, <1>3 DEF ServerCounts, ServerReads, gridState
<1>4. ASSUME NEW l \in loads, LoadReturns(l) PROVE GridInv'
  BY <1>4, Drawing DEF LoadReturns, Visible
<1>5. ASSUME NEW l \in loads, LoadFails(l) PROVE GridInv'
  <2>1. selected' = selected
    BY <1>5 DEF LoadFails, gridState
  <2>2. Draw(l.of, Drawn({}, current.pages, TRUE), selected')
    BY <1>5, <2>1 DEF LoadFails
  <2> QED
    BY <2>1, <2>2, Drawing
<1>6. ASSUME NEW d \in deletions, ServerDeletes(d) \/ DeleteReturns(d) \/ DeleteFails(d)
      PROVE  GridInv'
  BY <1>6 DEF ServerDeletes, DeleteReturns, DeleteFails, gridState, grid, GridInv, SelectionShown
<1>7. ASSUME NEW rows, NEW on, Mark(rows, on) PROVE GridInv'
  BY <1>7 DEF Mark, GridIsFree, GridInv, SelectionShown
<1>8. CASE Visit
  BY <1>2, <1>8 DEF Visit
<1>9. ASSUME NEW v \in Visits, SchemaReturns(v) \/ SchemaFails(v) PROVE GridInv'
  BY <1>1, <1>2, <1>9 DEF SchemaReturns, SchemaFails, gridState
<1>10. ASSUME NEW f, ChangeFilter(f) PROVE GridInv'
  BY <1>1, <1>10 DEF ChangeFilter
<1>11. ASSUME NEW p, GoTo(p) PROVE GridInv'
  BY <1>1, <1>11 DEF GoTo
<1>12. CASE PressDelete
  BY <1>1, <1>12 DEF PressDelete, gridState
<1>13. ASSUME NEW yes \in BOOLEAN, AnswerDialog(yes) PROVE GridInv'
  BY <1>13 DEF AnswerDialog, gridState, GridInv, SelectionShown
<1>14. CASE UNCHANGED gridvars
  BY <1>1, <1>14 DEF gridvars, gridState
<1> QED
  BY <1>3, <1>4, <1>5, <1>6, <1>7, <1>8, <1>9, <1>10, <1>11, <1>12, <1>13, <1>14
  DEF GridNext, TickRow, TickAll

\* The type invariant of GridView, with what the requests under way hold.
LoadRecords == [nr : Nat, of : Grids, stage : {"sent", "counted", "read"},
                page : 1..Cardinality(GridRows), filter : GridFilters,
                rows : SUBSET GridRows, pages : Nat]
DeleteRecords == [of : Grids, ids : SUBSET GridRows]
VisitRecords == [tab : {"data", "schema"}, stage : {"fetching", "loading", "done", "failed"}]

GridTyped ==
  /\ lakeRows \subseteq GridRows /\ selected \subseteq GridRows
  /\ page \in 1..Cardinality(GridRows) /\ filter \in GridFilters
  /\ visits \in Seq(VisitRecords) /\ visits # << >>
  /\ shown \in {0} \cup Grids /\ canDelete \in BOOLEAN
  /\ current.rows \subseteq GridRows /\ ticked \subseteq current.rows
  /\ loadsSent \in 0..MaxLoads /\ loads \subseteq LoadRecords
  /\ asking \in {NoDialog} \cup DeleteRecords /\ deletions \subseteq DeleteRecords

LEMMA GridTypes == GridTyped => GridTypeOK
<1> SUFFICES ASSUME GridTyped PROVE GridTypeOK
  OBVIOUS
<1>1. \A v \in Visits : visits[v] \in VisitRecords
  BY DEF GridTyped, Visits
<1>2. \A v \in Visits : /\ visits[v].tab \in {"data", "schema"}
                       /\ visits[v].stage \in {"fetching", "loading", "done", "failed"}
  BY <1>1 DEF VisitRecords
<1>3. /\ \A l \in loads : l.of \in Grids /\ l.stage \in {"sent", "counted", "read"}
      /\ \A d \in deletions : d.of \in Grids /\ d.ids \subseteq GridRows
      /\ asking.ids \subseteq GridRows
  BY DEF GridTyped, LoadRecords, DeleteRecords, NoDialog
<1> QED
  BY <1>2, <1>3 DEF GridTyped, GridTypeOK

\* A visit stays a grid unless it was none.
LEMMA VisitStaged ==
  ASSUME visits \in Seq(VisitRecords), NEW v \in Visits,
         NEW s \in {"loading", "done", "failed"}, visits' = [visits EXCEPT ![v].stage = s],
         v \in Grids => s # "failed"
  PROVE  /\ visits' \in Seq(VisitRecords) /\ visits' # << >> /\ Visits' = Visits
         /\ Grids \subseteq Grids' /\ visits'[v].tab = visits[v].tab /\ visits'[v].stage = s
<1>1. Visits = 1 .. Len(visits) /\ Len(visits) \in Nat /\ \A u \in Visits : visits[u] \in VisitRecords
  BY DEF Visits
<1>2. visits' = [u \in Visits |-> IF u = v THEN [visits[v] EXCEPT !.stage = s] ELSE visits[u]]
  BY <1>1 DEF Visits
<1>3. /\ [visits[v] EXCEPT !.stage = s] \in VisitRecords
      /\ [visits[v] EXCEPT !.stage = s].tab = visits[v].tab
      /\ [visits[v] EXCEPT !.stage = s].stage = s
  BY <1>1 DEF VisitRecords
<1>4. visits' \in [1 .. Len(visits) -> VisitRecords]
  BY <1>1, <1>2, <1>3
<1>5. visits' \in Seq(VisitRecords) /\ Len(visits') = Len(visits)
  BY <1>1, <1>4, SeqDef
<1>6. Visits' = Visits /\ visits'[v].tab = visits[v].tab /\ visits'[v].stage = s
  BY <1>1, <1>2, <1>3, <1>4 DEF Visits
<1>7. \A u \in Visits : u # v => visits'[u] = visits[u]
  BY <1>2
<1>8. Grids \subseteq Grids'
  BY <1>6, <1>7 DEF Grids
<1>9. visits' # << >>
  BY <1>1, <1>5
<1> QED
  BY <1>5, <1>6, <1>8, <1>9

LEMMA VisitAdded ==
  ASSUME visits \in Seq(VisitRecords), NEW w \in VisitRecords, visits' = Append(visits, w)
  PROVE  visits' \in Seq(VisitRecords) /\ visits' # << >> /\ Grids \subseteq Grids'
<1>1. /\ visits' \in Seq(VisitRecords) /\ Len(visits') = Len(visits) + 1 /\ Len(visits) \in Nat
      /\ \A u \in 1 .. Len(visits) : visits'[u] = visits[u]
  OBVIOUS
<1>2. Visits = 1 .. Len(visits) /\ Visits' = 1 .. Len(visits) + 1
  BY <1>1 DEF Visits
<1> QED
  BY <1>1, <1>2 DEF Grids

LEMMA RecordsGrow ==
  ASSUME Grids \subseteq Grids' PROVE LoadRecords \subseteq LoadRecords' /\ DeleteRecords \subseteq DeleteRecords'
  BY DEF LoadRecords, DeleteRecords

LEMMA LoadTyped ==
  ASSUME NEW under, under \subseteq LoadRecords', NEW v \in Grids', NEW p \in 1..Cardinality(GridRows),
         NEW f \in GridFilters, loadsSent \in 0..MaxLoads, Load(v, p, f, under)
  PROVE  loads' \subseteq LoadRecords' /\ loadsSent' \in 0..MaxLoads
<1> DEFINE l == [nr |-> loadsSent, of |-> v, stage |-> "sent", page |-> p, filter |-> f,
                 rows |-> {}, pages |-> 1]
<1>1. loads' = under \cup {l} /\ loadsSent < MaxLoads /\ loadsSent' = loadsSent + 1
  BY DEF Load
<1>2. l \in LoadRecords'
  BY DEF LoadRecords
<1> HIDE DEF l
<1>3. loadsSent' \in 0..MaxLoads
  BY <1>1, GridAssumption
<1> QED
  BY <1>1, <1>2, <1>3

LEMMA DrawTyped ==
  ASSUME GridTyped, NEW v \in Grids, NEW rows, rows \subseteq GridRows, NEW pages, NEW failed, NEW marked,
         Draw(v, Drawn(rows, pages, failed), marked)
  PROVE  /\ visits' \in Seq(VisitRecords) /\ visits' # << >> /\ Grids \subseteq Grids'
         /\ shown' \in {0} \cup Grids' /\ canDelete' \in BOOLEAN
         /\ current'.rows \subseteq GridRows /\ ticked' \subseteq current'.rows
<1>1. /\ visits' \in Seq(VisitRecords) /\ visits' # << >> /\ Grids \subseteq Grids'
  <2>1. visits' = [visits EXCEPT ![v].stage = "done"] /\ v \in Visits /\ visits \in Seq(VisitRecords)
    BY DEF Draw, Grids, GridTyped
  <2> QED
    BY <2>1, VisitStaged
<1>2. CASE UNCHANGED grid
  BY <1>1, <1>2 DEF grid, GridTyped
<1>3. CASE /\ shown' = v /\ current' = Drawn(rows, pages, failed)
           /\ ticked' = marked \cap current'.rows /\ canDelete' = (marked # {})
  BY <1>1, <1>3 DEF Drawn
<1> QED
  BY <1>2, <1>3 DEF Draw

\* The server answers with a page there is, or the first.
LEMMA PagesAre ==
  ASSUME NEW S \in SUBSET GridRows
  PROVE  PageCount(Cardinality(S)) \in Nat /\ PageCount(Cardinality(S)) >= 1
<1>1. Cardinality(S) \in Nat
  BY GridAssumption, FS_Subset, FS_CardinalityType
<1> DEFINE n == Cardinality(S)
           m == n + GridSize - 1
<1> HIDE DEF n
<1>2. n \in Nat /\ GridSize \in Nat \ {0}
  BY <1>1, GridAssumption DEF n
<1>3. n # 0 => m >= GridSize /\ m \in Nat
  BY <1>2
<1>4. ASSUME NEW q \in Nat, NEW g \in Nat \ {0}, q >= g PROVE q \div g \in Nat /\ q \div g >= 1
  <2> DEFINE d == q \div g
             e == q % g
  <2>1. d \in Int /\ e \in 0 .. (g - 1) /\ q = g * d + e
    OBVIOUS
  <2> HIDE DEF d, e
  <2>2. d >= 1
    <3> SUFFICES ASSUME d <= 0 PROVE FALSE
      BY <2>1
    <3>1. g * d <= 0
      BY <2>1
    <3> QED
      BY <1>4, <2>1, <3>1
  <2> QED
    BY <2>1, <2>2 DEF d
<1>5. n # 0 => m \div GridSize \in Nat /\ m \div GridSize >= 1
  BY <1>2, <1>3, <1>4
<1> QED
  BY <1>2, <1>5 DEF PageCount, n

LEMMA GridTypedStep == ASSUME GridTyped, [GridNext]_gridvars PROVE GridTyped'
<1> USE GridAssumption
<1>0. /\ lakeRows \subseteq GridRows /\ selected \subseteq GridRows
      /\ page \in 1..Cardinality(GridRows) /\ filter \in GridFilters
      /\ visits \in Seq(VisitRecords) /\ visits # << >>
      /\ shown \in {0} \cup Grids /\ canDelete \in BOOLEAN
      /\ current.rows \subseteq GridRows /\ ticked \subseteq current.rows
      /\ loadsSent \in 0..MaxLoads /\ loads \subseteq LoadRecords
      /\ asking \in {NoDialog} \cup DeleteRecords /\ deletions \subseteq DeleteRecords
  BY DEF GridTyped
<1>1. UNCHANGED visits => Grids' = Grids /\ LoadRecords' = LoadRecords /\ DeleteRecords' = DeleteRecords
  BY DEF Grids, Visits, LoadRecords, DeleteRecords
<1>2. ASSUME NEW l \in loads, ServerCounts(l) \/ ServerReads(l) PROVE GridTyped'
  <2>1. l \in LoadRecords
    BY <1>0, <1>2
  <2>2. PICK k \in LoadRecords : MovesOn(l, k)
    <3>1. CASE ServerCounts(l)
      <4> DEFINE n == PageCount(Cardinality(Passing(l.filter)))
      <4>1. n \in Nat /\ n >= 1
        BY <1>0, PagesAre DEF Passing
      <4>2. MovesOn(l, [l EXCEPT !.stage = "counted", !.pages = n, !.page = Smaller(l.page, n)])
        BY <3>1 DEF ServerCounts
      <4> HIDE DEF n
      <4>3. Smaller(l.page, n) \in 1..Cardinality(GridRows)
        <5>1. l.page \in 1..Cardinality(GridRows) /\ Cardinality(GridRows) \in Nat
          BY <2>1, FS_CardinalityType DEF LoadRecords
        <5> QED
          BY <4>1, <5>1 DEF Smaller
      <4>4. [l EXCEPT !.stage = "counted", !.pages = n, !.page = Smaller(l.page, n)] \in LoadRecords
        BY <2>1, <4>1, <4>3 DEF LoadRecords
      <4> QED
        BY <4>2, <4>4
    <3>2. CASE ServerReads(l)
      <4> DEFINE rows == PageOf(Passing(l.filter), l.page)
      <4>1. rows \subseteq GridRows
        BY <1>0 DEF PageOf, Passing
      <4>2. MovesOn(l, [l EXCEPT !.stage = "read", !.rows = rows])
        BY <3>2 DEF ServerReads
      <4> HIDE DEF rows
      <4>3. [l EXCEPT !.stage = "read", !.rows = rows] \in LoadRecords
        BY <2>1, <4>1 DEF LoadRecords
      <4> QED
        BY <4>2, <4>3
    <3> QED
      BY <1>2, <3>1, <3>2
  <2>3. UNCHANGED <<lakeRows, gridState, visits, loadsSent, deletions, grid, asking>>
    BY <1>2 DEF ServerCounts, ServerReads
  <2> QED
    BY <1>0, <1>1, <2>2, <2>3 DEF MovesOn, gridState, grid, GridTyped
<1>3. ASSUME NEW l \in loads, NEW rows \in SUBSET GridRows, NEW pages, NEW failed, NEW marked,
             Draw(l.of, Drawn(rows, pages, failed), marked), loads' = loads \ {l},
             page' \in 1..Cardinality(GridRows), selected' \subseteq GridRows,
             UNCHANGED <<lakeRows, filter, loadsSent, deletions, asking>>
      PROVE  GridTyped'
  <2>1. l.of \in Grids
    BY <1>0, <1>3 DEF LoadRecords
  <2>2. /\ visits' \in Seq(VisitRecords) /\ visits' # << >> /\ Grids \subseteq Grids'
        /\ shown' \in {0} \cup Grids' /\ canDelete' \in BOOLEAN
        /\ current'.rows \subseteq GridRows /\ ticked' \subseteq current'.rows
    BY <1>3, <2>1, DrawTyped
  <2>3. LoadRecords \subseteq LoadRecords' /\ DeleteRecords \subseteq DeleteRecords'
    BY <2>2, RecordsGrow
  <2> QED
    BY <1>0, <1>3, <2>2, <2>3 DEF GridTyped, NoDialog
<1>4. ASSUME NEW l \in loads, LoadReturns(l) PROVE GridTyped'
  <2>1. l \in LoadRecords
    BY <1>0
  <2>2. l.rows \in SUBSET GridRows /\ l.page \in 1..Cardinality(GridRows) /\ selected' \subseteq GridRows
    BY <1>0, <1>4, <2>1 DEF LoadRecords, LoadReturns, Visible
  <2> QED
    BY <1>3, <1>4, <2>2 DEF LoadReturns
<1>5. ASSUME NEW l \in loads, LoadFails(l) PROVE GridTyped'
  <2>1. /\ Draw(l.of, Drawn({}, current.pages, TRUE), selected) /\ loads' = loads \ {l}
        /\ page' \in 1..Cardinality(GridRows) /\ selected' \subseteq GridRows
        /\ UNCHANGED <<lakeRows, filter, loadsSent, deletions, asking>>
    BY <1>0, <1>5 DEF LoadFails, gridState
  <2> QED
    BY <1>3, <2>1
<1>6. ASSUME NEW d \in deletions, ServerDeletes(d) PROVE GridTyped'
  BY <1>0, <1>1, <1>6 DEF ServerDeletes, gridState, requests, grid, GridTyped
<1>7. ASSUME NEW v, Enable(v) PROVE canDelete' \in BOOLEAN
  BY <1>7, Zenon DEF Enable
<1>8. ASSUME NEW d \in deletions, DeleteReturns(d) PROVE GridTyped'
  <2>1. d.of \in Grids
    BY <1>0 DEF DeleteRecords
  <2>2. UNCHANGED visits /\ selected' = {} /\ Load(d.of, page, filter, loads) /\ Enable(d.of)
    BY <1>8 DEF DeleteReturns
  <2>3. loads' \subseteq LoadRecords' /\ loadsSent' \in 0..MaxLoads
    BY <1>0, <1>1, <2>1, <2>2, LoadTyped
  <2> QED
    BY <1>0, <1>1, <1>7, <1>8, <2>2, <2>3 DEF DeleteReturns, GridTyped
<1>9. ASSUME NEW d \in deletions, DeleteFails(d) PROVE GridTyped'
  BY <1>0, <1>1, <1>7, <1>9 DEF DeleteFails, gridState, GridTyped
<1>10. ASSUME NEW rows, NEW on, Mark(rows, on) PROVE GridTyped'
  <2>1. canDelete' \in BOOLEAN
    BY <1>10, Zenon DEF Mark
  <2>2. /\ rows \subseteq current.rows /\ current' = current /\ selected' \subseteq selected \cup rows
        /\ ticked' \subseteq ticked \cup rows
    BY <1>10 DEF Mark
  <2> QED
    BY <1>0, <1>1, <1>10, <2>1, <2>2 DEF Mark, requests, GridTyped
<1>11. ASSUME LeavePage, visits' \in Seq(VisitRecords), visits' # << >>, Grids \subseteq Grids',
              UNCHANGED <<lakeRows, gridState, requests, asking>>
       PROVE  GridTyped'
  <2>1. LoadRecords \subseteq LoadRecords' /\ DeleteRecords \subseteq DeleteRecords'
    BY <1>11, RecordsGrow
  <2>2. current'.rows = {}
    BY <1>11 DEF LeavePage, Undrawn, Drawn
  <2> QED
    BY <1>0, <1>11, <2>1, <2>2 DEF LeavePage, gridState, requests, GridTyped, NoDialog
<1>12. CASE Visit
  <2>1. [tab |-> IF Tab = "data" THEN "schema" ELSE "data", stage |-> "fetching"] \in VisitRecords
    BY DEF VisitRecords
  <2> QED
    BY <1>0, <1>11, <1>12, <2>1, VisitAdded DEF Visit
<1>13. ASSUME NEW v \in Visits, SchemaReturns(v) PROVE GridTyped'
  <2>1. v \notin Grids /\ visits[v].stage = "fetching"
    BY <1>13 DEF SchemaReturns, Grids
  <2>2. PICK s \in {"loading", "done", "failed"} :
           /\ visits' = [visits EXCEPT ![v].stage = s]
           /\ \/ visits[v].tab = "data" /\ s = "loading" /\ Load(v, page, filter, loads)
              \/ UNCHANGED <<loads, loadsSent>>
    BY <1>13 DEF SchemaReturns
  <2>3. /\ visits' \in Seq(VisitRecords) /\ visits' # << >> /\ Visits' = Visits
        /\ Grids \subseteq Grids' /\ visits'[v].tab = visits[v].tab /\ visits'[v].stage = s
    BY <1>0, <2>1, <2>2, VisitStaged
  <2>4. LoadRecords \subseteq LoadRecords' /\ DeleteRecords \subseteq DeleteRecords'
    BY <2>3, RecordsGrow
  <2>5. loads' \subseteq LoadRecords' /\ loadsSent' \in 0..MaxLoads
    <3>1. CASE visits[v].tab = "data" /\ s = "loading" /\ Load(v, page, filter, loads)
      <4>1. v \in Grids'
        BY <2>3, <3>1 DEF Grids
      <4> QED
        BY <1>0, <2>4, <3>1, <4>1, LoadTyped
    <3> QED
      BY <1>0, <2>2, <2>4, <3>1
  <2>6. UNCHANGED <<lakeRows, gridState, deletions, grid, asking>>
    BY <1>13 DEF SchemaReturns
  <2> QED
    BY <1>0, <2>3, <2>4, <2>5, <2>6 DEF gridState, grid, GridTyped, NoDialog
<1>14. ASSUME NEW v \in Visits, SchemaFails(v) PROVE GridTyped'
  <2>1. v \notin Grids /\ visits' = [visits EXCEPT ![v].stage = "failed"]
    BY <1>14 DEF SchemaFails, Grids
  <2>2. visits' \in Seq(VisitRecords) /\ visits' # << >> /\ Grids \subseteq Grids'
    BY <1>0, <2>1, VisitStaged
  <2> QED
    BY <1>11, <1>14, <2>2 DEF SchemaFails
<1>15. ASSUME NEW p \in 1..Cardinality(GridRows), NEW f \in GridFilters, shown # 0,
              Load(shown, p, f, loads), page' = p, filter' = f,
              UNCHANGED <<lakeRows, selected, visits, deletions, grid, asking>>
       PROVE  GridTyped'
  <2>1. shown \in Grids'
    BY <1>0, <1>1, <1>15
  <2>2. loads' \subseteq LoadRecords' /\ loadsSent' \in 0..MaxLoads
    BY <1>0, <1>1, <1>15, <2>1, LoadTyped
  <2> QED
    BY <1>0, <1>1, <1>15, <2>2 DEF grid, GridTyped
<1>16. ASSUME NEW f \in GridFilters, ChangeFilter(f) PROVE GridTyped'
  <2>1. 1 \in 1..Cardinality(GridRows)
    BY <1>0, FS_CardinalityType
  <2> QED
    BY <1>15, <1>16, <2>1 DEF ChangeFilter, GridIsFree
<1>17. ASSUME NEW p \in 1..Cardinality(GridRows), GoTo(p) PROVE GridTyped'
  BY <1>0, <1>15, <1>17 DEF GoTo, GridIsFree
<1>18. CASE PressDelete
  <2>1. asking' \in DeleteRecords
    BY <1>0, <1>18 DEF PressDelete, GridIsFree, DeleteRecords
  <2> QED
    BY <1>0, <1>1, <1>18, <2>1 DEF PressDelete, gridState, requests, grid, GridTyped
<1>19. ASSUME NEW yes \in BOOLEAN, AnswerDialog(yes) PROVE GridTyped'
  <2>1. canDelete' \in BOOLEAN
    BY <1>19, Zenon DEF AnswerDialog
  <2>2. deletions' \subseteq DeleteRecords
    BY <1>0, <1>19 DEF AnswerDialog
  <2> QED
    BY <1>0, <1>1, <1>19, <2>1, <2>2 DEF AnswerDialog, gridState, GridTyped
<1>20. CASE UNCHANGED gridvars
  BY <1>0, <1>1, <1>20 DEF gridvars, gridState, requests, grid, GridTyped
<1> QED
  BY <1>2, <1>4, <1>5, <1>6, <1>8, <1>9, <1>10, <1>12, <1>13, <1>14, <1>16, <1>17, <1>18, <1>19, <1>20
     DEF GridNext, TickRow, TickAll

\* GridTypeOK, for a table that has rows at first: a load belongs to a grid that was
\* rendered, and what is ticked is on the page (renderGrid).
THEOREM GridTypeCorrect == GridRows # {} /\ GridSpec => []GridTypeOK
<1>1. GridRows # {} /\ GridInit => GridTyped
  <2> SUFFICES ASSUME GridRows # {}, GridInit PROVE GridTyped
    OBVIOUS
  <2> DEFINE w == [tab |-> "data", stage |-> "done"]
  <2>1. 1 \in 1..Cardinality(GridRows)
    BY GridAssumption, FS_EmptySet, FS_CardinalityType
  <2>2. visits = <<w>> /\ w \in VisitRecords
    BY DEF GridInit, VisitRecords
  <2>3. visits \in Seq(VisitRecords) /\ visits # << >> /\ Len(visits) = 1 /\ visits[1] = w
    BY <2>2
  <2>4. 1 \in Grids
    BY <2>3 DEF Grids, Visits
  <2>5. current.rows \subseteq GridRows
    BY DEF GridInit, Drawn, PageOf
  <2>6. loads \subseteq LoadRecords /\ deletions \subseteq DeleteRecords /\ loadsSent \in 0..MaxLoads
    BY GridAssumption DEF GridInit
  <2>7. /\ lakeRows = GridRows /\ selected = {} /\ page = 1 /\ filter = GridRows /\ shown = 1
        /\ canDelete = FALSE /\ ticked = {} /\ asking = NoDialog
    BY DEF GridInit
  <2> QED
    BY <2>1, <2>3, <2>4, <2>5, <2>6, <2>7, GridAssumption DEF GridTyped
<1> QED
  BY <1>1, GridTypedStep, GridTypes, PTL DEF GridSpec

LEMMA GridHolds == GridSpec => []SelectionShown
<1>1. GridInit => GridInv
  BY DEF GridInit, GridInv, SelectionShown, Drawn
<1>2. GridInv => SelectionShown
  BY DEF GridInv
<1> QED
  BY <1>1, <1>2, GridStep, PTL DEF GridSpec

\* What the pages show is true: for any queries, functions and calls of the model,
\* the chart of an answer fits its result; and for any table, filters, and number
\* and order of loads, what would be deleted is ticked on the page.
THEOREM ScreenAlwaysTrue == ScreenSpec => []ScreenTrue
BY AskHolds, GridHolds, PTL DEF ScreenSpec, ScreenTrue

-----------------------------------------------------------------------------
(* Changes of a table and what refers to it (TableChanges)                 *)

\* What a prune rule promises of its column.
RulesFit == /\ "b" \in columns => rule.column # "a"
            /\ (rule.column = "a" /\ "a" \in columns) => dated

\* References as they are when no change is under way.
Fit ==
  /\ \A t \in {"t", "u"} : keys[t] # {} => t = name /\ keys[t] \subseteq columns
  /\ acl = IF name = "gone" THEN "none" ELSE name
  /\ name # "gone" => rule.table = name
  /\ RulesFit
  /\ graph = "dates" => (Has("a") /\ dated)
  /\ graph = "numbers" => (Has("a") /\ ~dated)

Before == Fit /\ Has("a")
Freed == Before /\ graph = "no"
Free == Fit /\ name = "t" /\ graph = "no"

\* Halfway through the changes that take several statements.
Renamed ==
  /\ name = "t" /\ graph = "no" /\ acl = "t" /\ rule.table = "t"
  /\ "b" \in columns /\ "a" \notin columns
  /\ keys["u"] = {} /\ keys["t"] \subseteq columns \cup {"a"}
NameMoved(a) == name = "u" /\ graph = "no" /\ acl = a /\ rule.table = "t" /\ RulesFit
KeysAt(t, other) == keys[t] \subseteq columns /\ keys[other] = {}
Dropped(a) == name = "gone" /\ graph = "no" /\ acl = a /\ RulesFit /\ keys["u"] = {}

\* What holds before step i of a change; beyond the last, that all fits.
Stage(op, i) ==
  CASE i = 1 \/ i > Len(Steps[op]) -> Fit
    [] op = "renameColumn" /\ i = 2 -> Before
    [] op = "renameColumn" /\ i = 3 -> Freed
    [] op = "renameColumn" /\ i \in {4, 5} -> Renamed
    [] op = "renameColumn" /\ i = 6 -> Renamed /\ keys["t"] \subseteq columns
    [] op \in {"dropColumn", "convert"} /\ i = 2 -> Before
    [] op \in {"dropColumn", "convert"} /\ i = 3 -> Freed
    [] op = "dropColumn" /\ i = 4 -> Freed /\ "a" \notin keys["t"]
    [] op = "convert" /\ i = 4 -> Freed /\ rule # Rule("t", "a")
    [] op = "setKeys" /\ i = 2 -> Before
    [] op \in {"renameTable", "dropTable"} /\ i = 2 -> Fit /\ name = "t"
    [] op \in {"renameTable", "dropTable"} /\ i = 3 -> Free
    [] op = "renameTable" /\ i = 4 -> NameMoved("t") /\ KeysAt("t", "u")
    [] op = "renameTable" /\ i = 5 -> NameMoved("u") /\ KeysAt("t", "u")
    [] op = "renameTable" /\ i = 6 -> NameMoved("u") /\ KeysAt("u", "t")
    [] op = "dropTable" /\ i = 4 -> Dropped("t")
    [] op = "dropTable" /\ i = 5 -> Dropped("none")
    [] OTHER -> FALSE

Changings == {"renameColumn", "dropColumn", "convert", "setKeys", "renameTable", "dropTable",
              "makeGraph", "dropGraph"}

\* What a request may ask.
Requests == Changings \cup {"edit"}

\* The steps of a request from the i-th on.
From(op, i) == SubSeq(Steps[op], i, Len(Steps[op]))

LEMMA StepsAre ==
  /\ Steps["edit"] = <<"look", "update">>
  /\ Steps["renameColumn"] =
       <<"look", "graphs", "renameColumn", "findKey", "renameKeys", "renameInRules">>
  /\ Steps["dropColumn"] = <<"look", "graphs", "keys", "dropColumn">>
  /\ Steps["convert"] = <<"look", "graphs", "rules", "convert">>
  /\ Steps["setKeys"] = <<"look", "storeKeys">>
  /\ Steps["renameTable"] = <<"look", "graphs", "renameTable", "moveAcl", "moveKeys", "moveRule">>
  /\ Steps["dropTable"] = <<"look", "graphs", "dropTable", "dropAcl", "dropKeys">>
  /\ Steps["makeGraph"] = <<"saveGraph">>
  /\ Steps["dropGraph"] = <<"dropGraph">>
  /\ DOMAIN Steps = Changings \cup {"edit"}
BY DEF Steps, Changings

\* How many they are, and which.
LEMMA StepsOf ==
  ASSUME NEW op \in Requests
  PROVE  /\ Len(Steps[op]) = CASE op \in {"renameColumn", "renameTable"} -> 6
                               [] op = "dropTable" -> 5
                               [] op \in {"dropColumn", "convert"} -> 4
                               [] op \in {"setKeys", "edit"} -> 2
                               [] OTHER -> 1
         /\ Steps[op] = [i \in 1 .. Len(Steps[op]) |-> Steps[op][i]]
         /\ Len(Steps[op]) \in Nat \ {0}
<1>1. CASE op = "renameColumn" BY <1>1, StepsAre
<1>2. CASE op = "renameTable" BY <1>2, StepsAre
<1>3. CASE op = "dropTable" BY <1>3, StepsAre
<1>4. CASE op = "dropColumn" BY <1>4, StepsAre
<1>5. CASE op = "convert" BY <1>5, StepsAre
<1>6. CASE op = "setKeys" BY <1>6, StepsAre
<1>7. CASE op = "edit" BY <1>7, StepsAre
<1>8. CASE op = "makeGraph" BY <1>8, StepsAre
<1>9. CASE op = "dropGraph" BY <1>9, StepsAre
<1> QED
  BY <1>1, <1>2, <1>3, <1>4, <1>5, <1>6, <1>7, <1>8, <1>9 DEF Changings, Requests

\* The rest of a sequence from a position on.
LEMMA RestOf ==
  ASSUME NEW S, NEW s \in Seq(S), NEW i \in 1 .. Len(s)
  PROVE  LET r == SubSeq(s, i, Len(s))
         IN /\ r # <<>> /\ Head(r) = s[i] /\ Len(r) = Len(s) - i + 1
            /\ Tail(r) = SubSeq(s, i + 1, Len(s))
<1> DEFINE n == Len(s)
           r == SubSeq(s, i, n)
           t == SubSeq(s, i + 1, n)
<1>1. n \in Nat /\ s = [k \in 1 .. n |-> s[k]]
  OBVIOUS
<1>2. r \in Seq(S) /\ Len(r) = n - i + 1 /\ \A k \in 1 .. n - i + 1 : r[k] = s[i + k - 1]
  BY <1>1, SubSeqProperties
<1>3. t \in Seq(S) /\ Len(t) = n - i /\ \A k \in 1 .. n - i : t[k] = s[i + k]
  BY <1>1, SubSeqProperties, SMTT(60)
<1>4. r # <<>> /\ Head(r) = s[i]
  BY <1>1, <1>2
<1>5. Tail(r) \in Seq(S) /\ Len(Tail(r)) = n - i /\ \A k \in 1 .. n - i : Tail(r)[k] = r[k + 1]
  BY <1>1, <1>2, <1>4
<1>6. \A k \in 1 .. n - i : Tail(r)[k] = t[k]
  <2> SUFFICES ASSUME NEW k \in 1 .. n - i PROVE Tail(r)[k] = t[k]
    OBVIOUS
  <2>1. k + 1 \in 1 .. n - i + 1 /\ i + (k + 1) - 1 = i + k
    BY <1>1
  <2> HIDE DEF r, t, n
  <2> QED
    BY <1>2, <1>3, <1>5, <2>1
<1>7. Tail(r) = t
  <2> HIDE DEF r, t, n
  <2> QED
    BY <1>3, <1>5, <1>6, SeqEqual
<1> QED
  BY <1>2, <1>4, <1>7

\* The first of the steps left, and the steps left after it.
LEMMA FromIs ==
  ASSUME NEW op \in Requests, NEW i \in 1 .. Len(Steps[op])
  PROVE  /\ From(op, i) # <<>> /\ Head(From(op, i)) = Steps[op][i]
         /\ Tail(From(op, i)) = From(op, i + 1)
         /\ Len(From(op, i)) = Len(Steps[op]) - i + 1
         /\ From(op, Len(Steps[op]) + 1) = <<>> /\ From(op, 1) = Steps[op]
<1> DEFINE s == Steps[op]
           S == {s[k] : k \in 1 .. Len(s)}
<1>1. Len(s) \in Nat /\ s \in Seq(S)
  <2>1. Len(s) \in Nat /\ s = [k \in 1 .. Len(s) |-> s[k]]
    BY StepsOf
  <2> DEFINE n == Len(s)
  <2>2. [k \in 1 .. n |-> s[k]] \in [1 .. n -> S]
    OBVIOUS
  <2> HIDE DEF s, S, n
  <2>3. s \in [1 .. n -> S]
    BY <2>1, <2>2 DEF n
  <2>4. n \in Nat
    BY <2>1 DEF n
  <2> QED
    BY <2>3, <2>4 DEF n
<1>2. SubSeq(s, Len(s) + 1, Len(s)) = <<>>
  BY <1>1, SubSeqEmpty
<1>3. SubSeq(s, 1, Len(s)) = s
  BY <1>1, SubSeqFull
<1> QED
  BY <1>1, <1>2, <1>3, RestOf DEF From

\* Where each step stands in the changes that have it.
Stands(op, i) ==
  /\ Steps[op][i] = "look" => i = 1 /\ op \notin {"makeGraph", "dropGraph"}
  /\ Steps[op][i] = "graphs" => i = 2 /\ op \notin {"setKeys", "makeGraph", "dropGraph"}
  /\ Steps[op][i] \in {"renameColumn", "findKey", "renameKeys", "renameInRules"} =>
       op = "renameColumn"
  /\ Steps[op][i] \in {"keys", "dropColumn"} => op = "dropColumn"
  /\ Steps[op][i] \in {"rules", "convert"} => op = "convert"
  /\ Steps[op][i] \in {"renameTable", "moveAcl", "moveKeys", "moveRule"} =>
       op = "renameTable"
  /\ Steps[op][i] \in {"dropTable", "dropAcl", "dropKeys"} => op = "dropTable"
  /\ Steps[op][i] = "storeKeys" => i = 2 /\ op = "setKeys"
  /\ Steps[op][i] = "saveGraph" => i = 1 /\ op = "makeGraph"
  /\ Steps[op][i] = "dropGraph" => i = 1 /\ op = "dropGraph"
  /\ Steps[op][i] \in {"renameColumn", "keys", "rules", "renameTable", "dropTable"} => i = 3
  /\ Steps[op][i] \in {"findKey", "dropColumn", "convert", "moveAcl", "dropAcl"} => i = 4
  /\ Steps[op][i] \in {"renameKeys", "moveKeys", "dropKeys"} => i = 5
  /\ Steps[op][i] \in {"renameInRules", "moveRule"} => i = 6
  /\ Steps[op][i] # "update"

LEMMA StepAt == ASSUME NEW op \in Changings, NEW i \in 1 .. Len(Steps[op]) PROVE Stands(op, i)
<1> USE DEF Stands
<1>1. CASE op = "renameColumn" BY <1>1, StepsAre
<1>2. CASE op = "renameTable" BY <1>2, StepsAre
<1>3. CASE op = "dropTable" BY <1>3, StepsAre
<1>4. CASE op = "dropColumn" BY <1>4, StepsAre
<1>5. CASE op = "convert" BY <1>5, StepsAre
<1>6. CASE op = "setKeys" BY <1>6, StepsAre
<1>8. CASE op = "makeGraph" BY <1>8, StepsAre
<1>9. CASE op = "dropGraph" BY <1>9, StepsAre
<1> QED
  BY <1>1, <1>2, <1>3, <1>4, <1>5, <1>6, <1>8, <1>9 DEF Changings

\* What a request has been answered; Unanswered while it has steps left.
Unanswered == ""
Answers == {Unanswered, "ok", "refused"}

\* Every request's page shows something.
Shown == saw = [u \in Users |-> saw[u]]

\* Requests have the steps of what they ask left, from one of them on.
Served ==
  /\ asks \in [Users -> Requests]
  /\ changeOutcome \in [Users -> Answers]
  /\ todo = [u \in Users |-> todo[u]] /\ Shown
  /\ \A u \in Users :
       Running(u) => /\ changeOutcome[u] = Unanswered
                     /\ \E i \in 1 .. Len(Steps[asks[u]]) : todo[u] = From(asks[u], i)

\* Edits, each of a value nobody else has changed.
Done == {u \in Users : asks[u] = "edit" /\ changeOutcome[u] = "ok"}
EditsApart ==
  /\ cell \in {"first"} \cup Done
  /\ \A u \in Users : saw[u] \in {"nothing", "first"} \cup Done
  /\ \A u \in Done : saw[u] # cell /\ \A v \in Done : saw[u] = saw[v] => u = v

\* One change at a time has come to a step of its own, and else all fits.
Changing(u) == Running(u) /\ Schema(u)
OneAtATime ==
  /\ \A u, v \in Users : Changing(u) /\ Changing(v) => u = v
  /\ \A u \in Users :
       Changing(u) => \E i \in 1 .. Len(Steps[asks[u]]) :
                        todo[u] = From(asks[u], i) /\ Stage(asks[u], i)
  /\ (\A u \in Users : ~Changing(u)) => Fit

\* The inductive invariant of ReferencesFollow.
ChangesInv == ChangesTypeOK /\ Served /\ EditsApart /\ (~strained => OneAtATime)

\* A request whose i-th step is done goes on, one that is refused has ended.
LEMMA Proceeds ==
  ASSUME Served, NEW u \in Users, NEW i \in 1 .. Len(Steps[asks[u]]), todo[u] = From(asks[u], i),
         Proceed(u)
  PROVE  /\ todo' = [todo EXCEPT ![u] = From(asks[u], i + 1)]
         /\ i # Len(Steps[asks[u]]) => changeOutcome' = changeOutcome
         /\ i = Len(Steps[asks[u]]) => changeOutcome' = [changeOutcome EXCEPT ![u] = "ok"]
<1> DEFINE op == asks[u]
<1>1. op \in Requests
  BY DEF Served
<1>2. Tail(From(op, i)) = From(op, i + 1) /\ (Len(From(op, i)) = 1 <=> i = Len(Steps[op]))
  <2> HIDE DEF op
  <2> SUFFICES ASSUME i \in 1 .. Len(Steps[op])
               PROVE  /\ Tail(From(op, i)) = From(op, i + 1)
                      /\ (Len(From(op, i)) = 1 <=> i = Len(Steps[op]))
    BY DEF op
  <2>1. Tail(From(op, i)) = From(op, i + 1) /\ Len(From(op, i)) = Len(Steps[op]) - i + 1
    BY <1>1, FromIs
  <2>2. Len(Steps[op]) \in Nat
    BY <1>1, StepsOf
  <2> QED
    BY <2>1, <2>2
<1> QED
  BY <1>2 DEF Proceed

LEMMA Refuses ==
  ASSUME Served, NEW u \in Users, Refuse(u)
  PROVE  /\ todo' = [todo EXCEPT ![u] = From(asks[u], Len(Steps[asks[u]]) + 1)]
         /\ changeOutcome' = [changeOutcome EXCEPT ![u] = "refused"]
<1> DEFINE op == asks[u]
<1>1. op \in Requests
  BY DEF Served
<1> HIDE DEF op
<1>2. Len(Steps[op]) \in Nat \ {0}
  BY <1>1, StepsOf
<1>3. From(op, Len(Steps[op]) + 1) = <<>>
  BY <1>1, <1>2, FromIs
<1> QED
  BY <1>3 DEF Refuse, op

LEMMA RecordsAre ==
  ASSUME NEW a, NEW b
  PROVE  /\ Keys(a, b)["t"] = a /\ Keys(a, b)["u"] = b
         /\ Rule(a, b).table = a /\ Rule(a, b).column = b
BY DEF Keys, Rule

\* A step of a change leaves it at a later step, or ended.
LEMMA ChangeMoves ==
  ASSUME ChangesTypeOK, Served, NEW u \in Users, NEW op \in Changings, asks[u] = op,
         NEW n, n = Len(Steps[op]), NEW i \in 1 .. n, NEW s, s = Steps[op][i],
         todo[u] = From(op, i), Stage(op, i), ChangeStep(u)
  PROVE  /\ \E j \in i + 1 .. n + 1 : todo' = [todo EXCEPT ![u] = From(op, j)] /\ Stage(op, j)'
         /\ cell' = cell
<1> DEFINE Goal == /\ \E j \in i + 1 .. n + 1 : todo' = [todo EXCEPT ![u] = From(op, j)]
                                               /\ Stage(op, j)'
                   /\ cell' = cell
<1> SUFFICES Goal
  OBVIOUS
<1>1. op \in Requests /\ asks' = asks
  BY DEF Requests, ChangeStep
<1>2. n \in Nat /\ n = CASE op \in {"renameColumn", "renameTable"} -> 6
                         [] op = "dropTable" -> 5
                         [] op \in {"dropColumn", "convert"} -> 4
                         [] op \in {"setKeys", "edit"} -> 2
                         [] OTHER -> 1
  BY <1>1, StepsOf
<1>3. todo[u] # <<>> /\ Head(todo[u]) = s
  BY <1>1, FromIs
<1>4. ASSUME NEW x, At(u, x) PROVE s = x
  BY <1>3, <1>4 DEF At
<1>5. ASSUME Refuse(u), Fit', cell' = cell PROVE Goal
  <2>1. Stage(op, n + 1)'
    BY <1>1, <1>2, <1>5 DEF Stage
  <2>2. todo' = [todo EXCEPT ![u] = From(op, n + 1)]
    BY <1>5, Refuses
  <2>3. n + 1 \in i + 1 .. n + 1
    BY <1>2
  <2> QED
    BY <1>5, <2>1, <2>2, <2>3
<1>6. ASSUME Proceed(u), Stage(op, i + 1)', cell' = cell PROVE Goal
  <2>1. todo' = [todo EXCEPT ![u] = From(op, i + 1)]
    BY <1>6, Proceeds
  <2>2. i + 1 \in i + 1 .. n + 1
    BY <1>2
  <2> QED
    BY <1>6, <2>1, <2>2
<1>7. Stands(op, i)
  BY StepAt
<1> HIDE DEF Goal
<1>9. CASE LookAgain(u)
  <2>1. s = "look" /\ UNCHANGED <<name, columns, dated, cell, keys, acl, rule, graph>>
    BY <1>4, <1>9 DEF LookAgain, Check, data, refs
  <2>2. i = 1 /\ op \notin {"makeGraph", "dropGraph"} /\ Fit
    BY <1>7, <2>1 DEF Stage, Stands
  <2>3. Fit'
    BY <2>1, <2>2 DEF Fit, RulesFit, Has
  <2>4. op \in {"renameTable", "dropTable"} /\ name = "t" => Stage(op, i + 1)'
    BY <1>2, <2>1, <2>2, <2>3 DEF Stage
  <2>5. op \notin {"renameTable", "dropTable"} /\ Has("a") => Stage(op, i + 1)'
    <3> SUFFICES ASSUME op \in {"renameColumn", "dropColumn", "convert", "setKeys"}, Has("a")
                 PROVE  Stage(op, i + 1)'
      BY <2>2 DEF Changings
    <3>1. Before'
      BY <2>1, <2>3 DEF Before, Has
    <3> QED
      BY <1>2, <2>2, <3>1 DEF Stage
  <2> QED
    BY <1>5, <1>6, <1>9, <2>1, <2>2, <2>3, <2>4, <2>5 DEF LookAgain, Check
<1>10. CASE NoGraphs(u)
  <2>1. s = "graphs" /\ UNCHANGED <<name, columns, dated, cell, keys, acl, rule, graph>>
    BY <1>4, <1>10 DEF NoGraphs, Check, data, refs
  <2>2. /\ i = 2 /\ op \in {"renameColumn", "dropColumn", "convert", "renameTable", "dropTable"}
    BY <1>7, <2>1 DEF Stands, Changings
  <2>3. Fit' /\ (op \in {"renameTable", "dropTable"} => (name = "t")')
             /\ (op \notin {"renameTable", "dropTable"} => Before')
    BY <1>2, <2>1, <2>2 DEF Stage, Fit, RulesFit, Has, Before
  <2>4. graph = "no" => Stage(op, i + 1)'
    BY <1>2, <2>1, <2>2, <2>3 DEF Stage, Freed, Free
  <2> QED
    BY <1>5, <1>6, <1>10, <2>1, <2>2, <2>3, <2>4 DEF NoGraphs, Check
<1>11. CASE NotAKey(u)
  <2>1. s = "keys" /\ UNCHANGED <<name, columns, dated, cell, keys, acl, rule, graph>>
    BY <1>4, <1>11 DEF NotAKey, Check, data, refs
  <2>2. i = 3 /\ op = "dropColumn"
    BY <1>7, <2>1 DEF Stands
  <2>3. Freed' /\ Fit'
    BY <1>2, <2>1, <2>2 DEF Stage, Freed, Before, Fit, RulesFit, Has
  <2>4. "a" \notin keys.t => Stage(op, i + 1)'
    BY <1>2, <2>1, <2>2, <2>3 DEF Stage
  <2> QED
    BY <1>5, <1>6, <1>11, <2>1, <2>2, <2>3, <2>4 DEF NotAKey, Check
<1>12. CASE NoRule(u)
  <2>1. s = "rules" /\ UNCHANGED <<name, columns, dated, cell, keys, acl, rule, graph>>
    BY <1>4, <1>12 DEF NoRule, Check, data, refs
  <2>2. i = 3 /\ op = "convert"
    BY <1>7, <2>1 DEF Stands
  <2>3. Freed' /\ Fit'
    BY <1>2, <2>1, <2>2 DEF Stage, Freed, Before, Fit, RulesFit, Has
  <2>4. rule # Rule("t", "a") => Stage(op, i + 1)'
    BY <1>2, <2>1, <2>2, <2>3 DEF Stage
  <2> QED
    BY <1>5, <1>6, <1>12, <2>1, <2>2, <2>3, <2>4 DEF NoRule, Check
<1>13. CASE UpdateCell(u)
  BY <1>4, <1>7, <1>13 DEF UpdateCell, Stands
<1>14. CASE RenameColumn(u)
  <2>1. s = "renameColumn"
    BY <1>4, <1>14 DEF RenameColumn, Alter
  <2>2. i = 3 /\ op = "renameColumn"
    BY <1>7, <2>1 DEF Stands
  <2>3. Freed /\ Has("a")
    BY <1>2, <2>2 DEF Stage, Freed, Before
  <2>4. /\ Proceed(u) /\ UNCHANGED <<name, dated, cell, keys, acl, rule, graph>>
        /\ columns' = (columns \ {"a"}) \cup {"b"}
    BY <1>14, <2>3 DEF RenameColumn, Alter, refs
  <2>5. Renamed'
    BY <2>3, <2>4 DEF Renamed, Freed, Before, Fit, Has
  <2>6. Stage(op, i + 1)'
    BY <1>2, <2>2, <2>5 DEF Stage
  <2> QED
    BY <1>6, <2>4, <2>6
<1>15. CASE DropColumn(u)
  <2>1. s = "dropColumn"
    BY <1>4, <1>15 DEF DropColumn, Alter
  <2>2. i = 4 /\ op = "dropColumn"
    BY <1>7, <2>1 DEF Stands
  <2>3. Freed /\ Has("a") /\ "a" \notin keys["t"]
    BY <1>2, <2>2 DEF Stage, Freed, Before
  <2>4. /\ Proceed(u) /\ UNCHANGED <<name, dated, cell, keys, acl, rule, graph>>
        /\ columns' = columns \ {"a"}
    BY <1>15, <2>3 DEF DropColumn, Alter, refs
  <2>5. Fit'
    BY <2>3, <2>4 DEF Freed, Before, Fit, RulesFit, Has
  <2>6. Stage(op, i + 1)'
    BY <1>2, <2>2, <2>5 DEF Stage
  <2> QED
    BY <1>6, <2>4, <2>6
<1>16. CASE ConvertColumn(u)
  <2>1. s = "convert"
    BY <1>4, <1>16 DEF ConvertColumn, Alter
  <2>2. i = 4 /\ op = "convert"
    BY <1>7, <2>1 DEF Stands
  <2>3. Freed /\ Has("a") /\ rule # Rule("t", "a")
    BY <1>2, <2>2 DEF Stage, Freed, Before
  <2>4. /\ Proceed(u) /\ UNCHANGED <<name, columns, cell, keys, acl, rule, graph>>
        /\ dated' = FALSE
    BY <1>16, <2>3 DEF ConvertColumn, Alter, refs
  <2>5. rule.column # "a"
    BY <2>3 DEF Freed, Before, Fit, Has, Rule, ChangesTypeOK
  <2>6. Fit'
    BY <2>3, <2>4, <2>5 DEF Freed, Before, Fit, RulesFit, Has
  <2>7. Stage(op, i + 1)'
    BY <1>2, <2>2, <2>6 DEF Stage
  <2> QED
    BY <1>6, <2>4, <2>7
<1>17. CASE RenameTable(u)
  <2>1. s = "renameTable"
    BY <1>4, <1>17 DEF RenameTable, Alter
  <2>2. i = 3 /\ op = "renameTable"
    BY <1>7, <2>1 DEF Stands
  <2>3. Free /\ name = "t"
    BY <1>2, <2>2 DEF Stage, Free
  <2>4. /\ Proceed(u) /\ UNCHANGED <<columns, dated, cell, keys, acl, rule, graph>>
        /\ name' = "u"
    BY <1>17, <2>3 DEF RenameTable, Alter, refs
  <2>5. NameMoved("t")' /\ KeysAt("t", "u")'
    BY <2>3, <2>4 DEF NameMoved, KeysAt, Free, Fit, RulesFit
  <2>6. Stage(op, i + 1)'
    BY <1>2, <2>2, <2>5 DEF Stage
  <2> QED
    BY <1>6, <2>4, <2>6
<1>18. CASE DropTable(u)
  <2>1. s = "dropTable"
    BY <1>4, <1>18 DEF DropTable, Alter
  <2>2. i = 3 /\ op = "dropTable"
    BY <1>7, <2>1 DEF Stands
  <2>3. Free /\ name = "t"
    BY <1>2, <2>2 DEF Stage, Free
  <2>4. /\ Proceed(u) /\ UNCHANGED <<columns, dated, cell, keys, acl, rule, graph>>
        /\ name' = "gone"
    BY <1>18, <2>3 DEF DropTable, Alter, refs
  <2>5. Dropped("t")'
    BY <2>3, <2>4 DEF Dropped, Free, Fit, RulesFit
  <2>6. Stage(op, i + 1)'
    BY <1>2, <2>2, <2>5 DEF Stage
  <2> QED
    BY <1>6, <2>4, <2>6
<1>19. CASE FindKey(u)
  <2>1. s = "findKey" /\ UNCHANGED <<name, columns, dated, cell, keys, acl, rule, graph>>
    BY <1>4, <1>19 DEF FindKey, data, refs
  <2>2. i = 4 /\ op = "renameColumn" /\ n = 6
    BY <1>2, <1>7, <2>1 DEF Stands
  <2>3. Renamed /\ Renamed'
    BY <1>2, <2>1, <2>2 DEF Stage, Renamed
  <2>4. Tail(todo[u]) = From(op, 5) /\ Tail(Tail(todo[u])) = From(op, 6)
    <3>1. Len(Steps[op]) = 6
      BY <2>2
    <3>2. 4 \in 1 .. Len(Steps[op]) /\ 5 \in 1 .. Len(Steps[op])
      BY <3>1
    <3>3. Tail(From(op, 4)) = From(op, 4 + 1) /\ Tail(From(op, 5)) = From(op, 5 + 1)
      BY <1>1, <3>2, FromIs
    <3>4. todo[u] = From(op, 4) /\ 4 + 1 = 5 /\ 5 + 1 = 6
      BY <2>2
    <3> QED
      BY <3>3, <3>4
  <2>5. CASE "a" \in keys.t
    <3>1. todo' = [todo EXCEPT ![u] = From(op, 5)]
      BY <1>19, <2>4, <2>5 DEF FindKey
    <3>2. Stage(op, 5)'
      BY <1>2, <2>2, <2>3 DEF Stage
    <3>3. 5 \in i + 1 .. n + 1
      BY <2>2
    <3> QED
      BY <2>1, <3>1, <3>2, <3>3 DEF Goal
  <2>6. CASE "a" \notin keys.t
    <3>1. todo' = [todo EXCEPT ![u] = From(op, 6)]
      BY <1>19, <2>4, <2>6 DEF FindKey
    <3>2. (keys["t"] \subseteq columns)'
      BY <2>1, <2>3, <2>6 DEF Renamed
    <3>3. Stage(op, 6)'
      BY <1>2, <2>2, <2>3, <3>2 DEF Stage
    <3>4. 6 \in i + 1 .. n + 1
      <4>1. i = 4 /\ n = 6
        BY <2>2
      <4>2. 6 \in 4 + 1 .. 6 + 1
        OBVIOUS
      <4> QED
        BY <4>1, <4>2
    <3> QED
      BY <2>1, <3>1, <3>3, <3>4 DEF Goal
  <2> QED
    BY <2>5, <2>6
<1>20. CASE RenameKeys(u)
  <2>1. s = "renameKeys"
    BY <1>4, <1>20 DEF RenameKeys, Follow
  <2>2. i = 5 /\ op = "renameColumn"
    BY <1>7, <2>1 DEF Stands
  <2>3. Renamed
    BY <1>2, <2>2 DEF Stage
  <2>4. /\ Proceed(u) /\ UNCHANGED <<name, columns, dated, cell, graph>>
        /\ keys' = RenamedKeys /\ acl' = acl /\ rule' = rule
    BY <1>20 DEF RenameKeys, Follow, data
  <2>5. Renamed' /\ (keys["t"] \subseteq columns)'
    BY <2>3, <2>4, RecordsAre DEF Renamed, RenamedKeys
  <2>6. Stage(op, i + 1)'
    BY <1>2, <2>2, <2>5 DEF Stage
  <2> QED
    BY <1>6, <2>4, <2>6
<1>21. CASE RenameInRules(u)
  <2>1. s = "renameInRules"
    BY <1>4, <1>21 DEF RenameInRules, Follow
  <2>2. i = 6 /\ op = "renameColumn"
    BY <1>7, <2>1 DEF Stands
  <2>3. Renamed /\ keys["t"] \subseteq columns
    BY <1>2, <2>2 DEF Stage
  <2>4. /\ Proceed(u) /\ UNCHANGED <<name, columns, dated, cell, graph>>
        /\ keys' = keys /\ acl' = acl /\ rule' = IF rule = Rule("t", "a") THEN Rule("t", "b") ELSE rule
    BY <1>21 DEF RenameInRules, Follow, data
  <2>5. rule'.table = "t" /\ rule'.column # "a"
    <3>1. rule \in [table : {"t", "u"}, column : {"a", "b", "c"}] /\ rule.table = "t"
      BY <2>3 DEF ChangesTypeOK, Renamed
    <3>2. CASE rule = Rule("t", "a")
      BY <2>4, <3>2, RecordsAre
    <3>3. CASE rule # Rule("t", "a")
      BY <2>4, <3>1, <3>3 DEF Rule
    <3> QED
      BY <3>2, <3>3
  <2>6. Fit'
    BY <2>3, <2>4, <2>5 DEF Renamed, Fit, RulesFit, Has
  <2>7. Stage(op, i + 1)'
    BY <1>2, <2>2, <2>6 DEF Stage
  <2> QED
    BY <1>6, <2>4, <2>7
<1>22. CASE StoreKeys(u)
  <2>1. s = "storeKeys"
    BY <1>4, <1>22 DEF StoreKeys, Follow
  <2>2. i = 2 /\ op = "setKeys"
    BY <1>7, <2>1 DEF Stands
  <2>3. Before
    BY <1>2, <2>2 DEF Stage
  <2>4. /\ Proceed(u) /\ UNCHANGED <<name, columns, dated, cell, graph>>
        /\ keys' = Keys({"a"}, keys.u) /\ acl' = acl /\ rule' = rule
    BY <1>22 DEF StoreKeys, Follow, data
  <2>5. Fit'
    BY <2>3, <2>4, RecordsAre DEF Before, Fit, RulesFit, Has
  <2>6. Stage(op, i + 1)'
    BY <1>2, <2>2, <2>5 DEF Stage
  <2> QED
    BY <1>6, <2>4, <2>6
<1>23. CASE MoveAcl(u)
  <2>1. s = "moveAcl"
    BY <1>4, <1>23 DEF MoveAcl, Follow
  <2>2. i = 4 /\ op = "renameTable"
    BY <1>7, <2>1 DEF Stands
  <2>3. NameMoved("t") /\ KeysAt("t", "u")
    BY <1>2, <2>2 DEF Stage
  <2>4. /\ Proceed(u) /\ UNCHANGED <<name, columns, dated, cell, graph>>
        /\ keys' = keys /\ acl' = "u" /\ rule' = rule
    BY <1>23, <2>3 DEF MoveAcl, Follow, data, NameMoved
  <2>5. NameMoved("u")' /\ KeysAt("t", "u")'
    BY <2>3, <2>4, RecordsAre DEF NameMoved, KeysAt, RulesFit
  <2>6. Stage(op, i + 1)'
    BY <1>2, <2>2, <2>5 DEF Stage
  <2> QED
    BY <1>6, <2>4, <2>6
<1>24. CASE MoveKeys(u)
  <2>1. s = "moveKeys"
    BY <1>4, <1>24 DEF MoveKeys, Follow
  <2>2. i = 5 /\ op = "renameTable"
    BY <1>7, <2>1 DEF Stands
  <2>3. NameMoved("u") /\ KeysAt("t", "u")
    BY <1>2, <2>2 DEF Stage
  <2>4. /\ Proceed(u) /\ UNCHANGED <<name, columns, dated, cell, graph>>
        /\ keys' = Keys({}, keys.t \cup keys.u) /\ acl' = acl /\ rule' = rule
    BY <1>24 DEF MoveKeys, Follow, data
  <2>5. NameMoved("u")' /\ KeysAt("u", "t")'
    BY <2>3, <2>4, RecordsAre DEF NameMoved, KeysAt, RulesFit
  <2>6. Stage(op, i + 1)'
    BY <1>2, <2>2, <2>5 DEF Stage
  <2> QED
    BY <1>6, <2>4, <2>6
<1>25. CASE MoveRule(u)
  <2>1. s = "moveRule"
    BY <1>4, <1>25 DEF MoveRule, Follow
  <2>2. i = 6 /\ op = "renameTable"
    BY <1>7, <2>1 DEF Stands
  <2>3. NameMoved("u") /\ KeysAt("u", "t")
    BY <1>2, <2>2 DEF Stage
  <2>4. /\ Proceed(u) /\ UNCHANGED <<name, columns, dated, cell, graph>>
        /\ keys' = keys /\ acl' = acl /\ rule' = MovedRule
    BY <1>25 DEF MoveRule, Follow, data
  <2>5. Fit'
    BY <2>3, <2>4, RecordsAre DEF NameMoved, KeysAt, RulesFit, MovedRule, Fit, Has
  <2>6. Stage(op, i + 1)'
    BY <1>2, <2>2, <2>5 DEF Stage
  <2> QED
    BY <1>6, <2>4, <2>6
<1>26. CASE DropAcl(u)
  <2>1. s = "dropAcl"
    BY <1>4, <1>26 DEF DropAcl, Follow
  <2>2. i = 4 /\ op = "dropTable"
    BY <1>7, <2>1 DEF Stands
  <2>3. Dropped("t")
    BY <1>2, <2>2 DEF Stage
  <2>4. /\ Proceed(u) /\ UNCHANGED <<name, columns, dated, cell, graph>>
        /\ keys' = keys /\ acl' = "none" /\ rule' = rule
    BY <1>26, <2>3 DEF DropAcl, Follow, data, Dropped
  <2>5. Dropped("none")'
    BY <2>3, <2>4, RecordsAre DEF Dropped, RulesFit
  <2>6. Stage(op, i + 1)'
    BY <1>2, <2>2, <2>5 DEF Stage
  <2> QED
    BY <1>6, <2>4, <2>6
<1>27. CASE DropKeys(u)
  <2>1. s = "dropKeys"
    BY <1>4, <1>27 DEF DropKeys, Follow
  <2>2. i = 5 /\ op = "dropTable"
    BY <1>7, <2>1 DEF Stands
  <2>3. Dropped("none")
    BY <1>2, <2>2 DEF Stage
  <2>4. /\ Proceed(u) /\ UNCHANGED <<name, columns, dated, cell, graph>>
        /\ keys' = Keys({}, keys.u) /\ acl' = acl /\ rule' = rule
    BY <1>27 DEF DropKeys, Follow, data
  <2>5. Fit'
    BY <2>3, <2>4, RecordsAre DEF Dropped, RulesFit, Fit, Has
  <2>6. Stage(op, i + 1)'
    BY <1>2, <2>2, <2>5 DEF Stage
  <2> QED
    BY <1>6, <2>4, <2>6
<1>28. CASE SaveGraph(u)
  <2>1. s = "saveGraph" /\ UNCHANGED <<name, columns, dated, cell, keys, acl, rule>>
    BY <1>4, <1>28 DEF SaveGraph, data
  <2>2. i = 1 /\ op = "makeGraph" /\ Fit
    BY <1>2, <1>7, <2>1 DEF Stands, Stage
  <2>3. Fit'
    <3>1. dated \in BOOLEAN
      BY DEF ChangesTypeOK
    <3>2. /\ ~Has("a") => graph' = "broken"
          /\ Has("a") /\ dated => graph' = "dates"
          /\ Has("a") /\ ~dated => graph' = "numbers"
      BY <1>28, <3>1 DEF SaveGraph
    <3>3. (graph = "dates" => (Has("a") /\ dated))' /\ (graph = "numbers" => (Has("a") /\ ~dated))'
      BY <2>1, <3>1, <3>2 DEF Has
    <3> QED
      BY <2>1, <2>2, <3>3 DEF Fit, RulesFit
  <2>4. Stage(op, i + 1)'
    BY <1>2, <2>2, <2>3 DEF Stage
  <2> QED
    BY <1>5, <1>6, <1>28, <2>1, <2>3, <2>4 DEF SaveGraph
<1>29. CASE DropGraph(u)
  <2>1. s = "dropGraph" /\ UNCHANGED <<name, columns, dated, cell, keys, acl, rule>>
    BY <1>4, <1>29 DEF DropGraph, data
  <2>2. i = 1 /\ op = "dropGraph" /\ Fit
    BY <1>2, <1>7, <2>1 DEF Stands, Stage
  <2>3. Fit'
    BY <1>29, <2>1, <2>2 DEF DropGraph, Fit, RulesFit, Has
  <2>4. Stage(op, i + 1)'
    BY <1>2, <2>2, <2>3 DEF Stage
  <2> QED
    BY <1>6, <1>29, <2>1, <2>4 DEF DropGraph
<1> QED
  BY <1>9, <1>10, <1>11, <1>12, <1>13, <1>14, <1>15, <1>16, <1>17, <1>18, <1>19, <1>20, <1>21,
     <1>22, <1>23, <1>24, <1>25, <1>26, <1>27, <1>28, <1>29 DEF ChangeStep

\* What else a step of a request does.
LEMMA StepDoes ==
  ASSUME NEW u \in Users, ChangeStep(u)
  PROVE  /\ Running(u) /\ UNCHANGED <<asks, saw, strained>>
         /\ Proceed(u) \/ Refuse(u) \/ FindKey(u)
         /\ UpdateCell(u) \/ cell' = cell
BY DEF ChangeStep, LookAgain, NoGraphs, NotAKey, NoRule, Check, UpdateCell, RenameColumn, DropColumn,
  ConvertColumn, RenameTable, DropTable, Alter, FindKey, RenameKeys, RenameInRules, StoreKeys,
  MoveAcl, MoveKeys, MoveRule, DropAcl, DropKeys, Follow, SaveGraph, DropGraph, At, data

\* An edit looks again, then updates its cell, and nothing else.
LEMMA EditSteps ==
  ASSUME Served, NEW u \in Users, asks[u] = "edit", ChangeStep(u)
  PROVE  /\ LookAgain(u) \/ UpdateCell(u)
         /\ UNCHANGED <<name, columns, dated, refs>>
         /\ LookAgain(u) => cell' = cell /\ todo[u] = From("edit", 1)
         /\ UpdateCell(u) => todo[u] = From("edit", 2)
<1>1. Running(u)
  BY StepDoes
<1>2. Steps["edit"] = <<"look", "update">> /\ Len(Steps["edit"]) = 2 /\ "edit" \in Requests
  BY StepsAre DEF Requests
<1>3. PICK i \in 1 .. Len(Steps["edit"]) : todo[u] = From("edit", i)
  BY <1>1, <1>2 DEF Served
<1>4. Head(todo[u]) = Steps["edit"][i]
  <2>1. "edit" \in Requests
    BY <1>2
  <2>2. \A k \in 1 .. Len(Steps["edit"]) : Head(From("edit", k)) = Steps["edit"][k]
    BY <2>1, FromIs
  <2> QED
    BY <1>3, <2>2
<1>5. \/ i = 1 /\ Head(todo[u]) = "look"
      \/ i = 2 /\ Head(todo[u]) = "update"
  BY <1>2, <1>4
<1>6. LookAgain(u) \/ UpdateCell(u)
  BY <1>5 DEF ChangeStep, LookAgain, NoGraphs, NotAKey, NoRule, Check, UpdateCell, RenameColumn,
    DropColumn, ConvertColumn, RenameTable, DropTable, Alter, FindKey, RenameKeys, RenameInRules,
    StoreKeys, MoveAcl, MoveKeys, MoveRule, DropAcl, DropKeys, Follow, SaveGraph, DropGraph, At
<1>7. LookAgain(u) => Head(todo[u]) = "look" /\ UNCHANGED <<data, refs>>
  BY DEF LookAgain, Check, At
<1>8. UpdateCell(u) => Head(todo[u]) = "update" /\ UNCHANGED <<name, columns, dated, refs>>
  BY DEF UpdateCell, At
<1> QED
  BY <1>3, <1>5, <1>6, <1>7, <1>8 DEF data

LEMMA ChangesTyped ==
  ASSUME ChangesTypeOK, Served, [ChangesNext]_cvars
  PROVE  ChangesTypeOK'
<1>1. ASSUME NEW u \in Users, Proceed(u) \/ Refuse(u)
      PROVE  changeOutcome' \in [Users -> {"", "ok", "refused"}]
  BY <1>1 DEF Proceed, Refuse, ChangesTypeOK
<1>2. ASSUME NEW u \in Users, AskChange(u) PROVE ChangesTypeOK'
  BY <1>2 DEF AskChange, ChangesTypeOK, data, refs
<1>3. ASSUME NEW u \in Users, StepFails(u) PROVE ChangesTypeOK'
  <2>1. Proceed(u) \/ Refuse(u)
    BY <1>3 DEF StepFails
  <2> QED
    BY <1>1, <1>3, <2>1 DEF StepFails, ChangesTypeOK, data, refs
<1>4. ASSUME NEW u \in Users, ChangeStep(u) PROVE ChangesTypeOK'
  <2>1. changeOutcome' \in [Users -> {"", "ok", "refused"}] /\ asks' = asks
    <3>1. FindKey(u) => changeOutcome' = changeOutcome
      BY DEF FindKey
    <3> QED
      BY <1>1, <1>4, <3>1, StepDoes DEF ChangesTypeOK
  <2>2. name' \in {"t", "u", "gone"} /\ columns' \subseteq {"a", "b", "c"} /\ dated' \in BOOLEAN
    BY <1>4 DEF ChangeStep, LookAgain, NoGraphs, NotAKey, NoRule, Check, UpdateCell, RenameColumn,
      DropColumn, ConvertColumn, RenameTable, DropTable, Alter, FindKey, RenameKeys, RenameInRules,
      StoreKeys, MoveAcl, MoveKeys, MoveRule, DropAcl, DropKeys, Follow, SaveGraph, DropGraph, data,
      ChangesTypeOK
  <2>3. keys' \in [t : SUBSET {"a", "b"}, u : SUBSET {"a", "b"}]
    <3>1. \/ keys' = keys \/ keys' = RenamedKeys \/ keys' = Keys({"a"}, keys.u)
          \/ keys' = Keys({}, keys.t \cup keys.u) \/ keys' = Keys({}, keys.u)
      BY <1>4 DEF ChangeStep, LookAgain, NoGraphs, NotAKey, NoRule, Check, UpdateCell, RenameColumn,
        DropColumn, ConvertColumn, RenameTable, DropTable, Alter, FindKey, RenameKeys,
        RenameInRules, StoreKeys, MoveAcl, MoveKeys, MoveRule, DropAcl, DropKeys, Follow,
        SaveGraph, DropGraph, refs
    <3>2. keys.t \subseteq {"a", "b"} /\ keys.u \subseteq {"a", "b"}
      BY DEF ChangesTypeOK
    <3>3. ASSUME NEW x \in SUBSET {"a", "b"}, NEW y \in SUBSET {"a", "b"}
          PROVE  Keys(x, y) \in [t : SUBSET {"a", "b"}, u : SUBSET {"a", "b"}]
      BY DEF Keys
    <3>4. /\ Keys({"b"}, keys.u) \in [t : SUBSET {"a", "b"}, u : SUBSET {"a", "b"}]
          /\ Keys({"a"}, keys.u) \in [t : SUBSET {"a", "b"}, u : SUBSET {"a", "b"}]
          /\ Keys({}, keys.t \cup keys.u) \in [t : SUBSET {"a", "b"}, u : SUBSET {"a", "b"}]
          /\ Keys({}, keys.u) \in [t : SUBSET {"a", "b"}, u : SUBSET {"a", "b"}]
      <4>1. /\ {"a"} \in SUBSET {"a", "b"} /\ {"b"} \in SUBSET {"a", "b"} /\ {} \in SUBSET {"a", "b"}
            /\ keys.t \cup keys.u \in SUBSET {"a", "b"} /\ keys.u \in SUBSET {"a", "b"}
        BY <3>2
      <4> HIDE <3>2
      <4> QED
        BY <3>3, <4>1
    <3>5. keys \in [t : SUBSET {"a", "b"}, u : SUBSET {"a", "b"}]
      BY DEF ChangesTypeOK
    <3> QED
      BY <3>1, <3>4, <3>5 DEF RenamedKeys
  <2>4. acl' \in {"t", "u", "none"}
    BY <1>4 DEF ChangeStep, LookAgain, NoGraphs, NotAKey, NoRule, Check, UpdateCell, RenameColumn,
      DropColumn, ConvertColumn, RenameTable, DropTable, Alter, FindKey, RenameKeys, RenameInRules,
      StoreKeys, MoveAcl, MoveKeys, MoveRule, DropAcl, DropKeys, Follow, SaveGraph, DropGraph, refs,
      ChangesTypeOK
  <2>5. rule' \in [table : {"t", "u"}, column : {"a", "b", "c"}]
    <3>1. rule' = rule \/ rule' = Rule("t", "b") \/ rule' = Rule("u", rule.column)
      BY <1>4 DEF ChangeStep, LookAgain, NoGraphs, NotAKey, NoRule, Check, UpdateCell, RenameColumn,
        DropColumn, ConvertColumn, RenameTable, DropTable, Alter, FindKey, RenameKeys,
        RenameInRules, StoreKeys, MoveAcl, MoveKeys, MoveRule, MovedRule, DropAcl, DropKeys,
        Follow, SaveGraph, DropGraph, refs
    <3>2. rule.column \in {"a", "b", "c"} /\ rule \in [table : {"t", "u"}, column : {"a", "b", "c"}]
      BY DEF ChangesTypeOK
    <3>3. ASSUME NEW x \in {"t", "u"}, NEW y \in {"a", "b", "c"}
          PROVE  Rule(x, y) \in [table : {"t", "u"}, column : {"a", "b", "c"}]
      BY DEF Rule
    <3> QED
      BY <3>1, <3>2, <3>3
  <2>6. graph' \in {"no", "dates", "numbers", "broken"}
    BY <1>4 DEF ChangeStep, LookAgain, NoGraphs, NotAKey, NoRule, Check, UpdateCell, RenameColumn,
      DropColumn, ConvertColumn, RenameTable, DropTable, Alter, FindKey, RenameKeys, RenameInRules,
      StoreKeys, MoveAcl, MoveKeys, MoveRule, DropAcl, DropKeys, Follow, SaveGraph, DropGraph, refs,
      ChangesTypeOK
  <2> QED
    BY <2>1, <2>2, <2>3, <2>4, <2>5, <2>6 DEF ChangesTypeOK
<1>5. CASE UNCHANGED cvars
  BY <1>5 DEF cvars, ChangesTypeOK
<1> QED
  BY <1>2, <1>3, <1>4, <1>5 DEF ChangesNext

\* The steps left after a request's own, and its answer.
LEMMA ServedOn ==
  ASSUME Served, NEW u \in Users, NEW op \in Requests, asks[u] = op,
         NEW n, n = Len(Steps[op]), NEW j \in 1 .. n + 1,
         todo' = [todo EXCEPT ![u] = From(op, j)],
         asks' = asks, Shown',
         NEW x \in Answers, changeOutcome' = [changeOutcome EXCEPT ![u] = x],
         x = Unanswered \/ j = n + 1
  PROVE  Served'
<1>1. todo' = [v \in Users |-> todo'[v]] /\ changeOutcome' \in [Users -> Answers]
  BY DEF Served
<1>2. n \in Nat \ {0}
  BY StepsOf
<1>3. From(op, n + 1) = <<>>
  <2>1. ASSUME NEW k \in 1 .. n PROVE From(op, n + 1) = <<>>
    BY <2>1, FromIs
  <2>2. 1 \in 1 .. n
    BY <1>2
  <2> QED
    BY <2>1, <2>2
<1>4. ASSUME NEW v \in Users, Running(v)'
      PROVE  changeOutcome'[v] = Unanswered /\ \E i \in 1 .. Len(Steps[asks[v]]) : todo'[v] = From(asks[v], i)
  <2>1. CASE v = u
    <3>1. todo'[u] = From(op, j) /\ changeOutcome'[u] = x
      BY DEF Served
    <3>2. j # n + 1
      <4> SUFFICES ASSUME j = n + 1 PROVE FALSE
        OBVIOUS
      <4>1. todo'[u] = <<>>
        BY <1>3, <3>1
      <4> QED
        BY <1>4, <2>1, <4>1 DEF Running
    <3>3. j \in 1 .. n
      BY <1>2, <3>2
    <3>4. changeOutcome'[u] = Unanswered /\ \E i \in 1 .. n : todo'[u] = From(op, i)
      BY <3>1, <3>2, <3>3
    <3> QED
      BY <2>1, <3>4
  <2>2. CASE v # u
    <3>1. todo'[v] = todo[v] /\ changeOutcome'[v] = changeOutcome[v]
      BY <2>2 DEF Served
    <3> QED
      BY <1>4, <3>1 DEF Served, Running
  <2> QED
    BY <2>1, <2>2
<1> QED
  BY <1>1, <1>4 DEF Served


\* A request that has steps left is at one of them.
LEMMA ServedAt ==
  ASSUME Served, NEW u \in Users, Running(u), NEW op, asks[u] = op
  PROVE  /\ op \in Requests /\ Len(Steps[op]) \in Nat \ {0} /\ changeOutcome[u] = Unanswered
         /\ \E i \in 1 .. Len(Steps[op]) : todo[u] = From(op, i) /\ Head(todo[u]) = Steps[op][i]
<1>1. op \in Requests /\ changeOutcome[u] = Unanswered
  BY DEF Served
<1>2. PICK i \in 1 .. Len(Steps[op]) : todo[u] = From(op, i)
  BY DEF Served
<1>3. Head(todo[u]) = Steps[op][i]
  BY <1>1, <1>2, FromIs
<1> QED
  BY <1>1, <1>2, <1>3, StepsOf

\* Going on and being refused, of any request.
LEMMA ServedMoves ==
  ASSUME Served, NEW u \in Users, Running(u), Proceed(u) \/ Refuse(u), asks' = asks, saw' = saw
  PROVE  Served'
<1> DEFINE op == asks[u]
           n == Len(Steps[op])
<1>1. op \in Requests /\ n \in Nat \ {0} /\ changeOutcome[u] = Unanswered
  BY ServedAt
<1>2. PICK i \in 1 .. n : todo[u] = From(op, i)
  BY ServedAt
<1>3. Shown'
  BY DEF Served, Shown
<1>4. ASSUME Refuse(u) PROVE Served'
  <2>1. todo' = [todo EXCEPT ![u] = From(op, n + 1)] /\ "refused" \in Answers
        /\ changeOutcome' = [changeOutcome EXCEPT ![u] = "refused"]
    BY <1>4, Refuses DEF Answers
  <2>2. n + 1 \in 1 .. n + 1
    BY <1>1
  <2> HIDE DEF n
  <2>3. n = Len(Steps[op])
    BY DEF n
  <2> QED
    BY <1>1, <1>3, <2>1, <2>2, <2>3, ServedOn
<1>5. ASSUME Proceed(u), i # n PROVE Served'
  <2>1. /\ todo' = [todo EXCEPT ![u] = From(op, i + 1)] /\ Unanswered \in Answers
        /\ changeOutcome' = [changeOutcome EXCEPT ![u] = Unanswered]
    BY <1>1, <1>2, <1>5, Proceeds DEF Served, Answers
  <2>2. i + 1 \in 1 .. n + 1
    BY <1>1
  <2> HIDE DEF n
  <2>3. n = Len(Steps[op])
    BY DEF n
  <2> QED
    BY <1>1, <1>3, <2>1, <2>2, <2>3, ServedOn
<1>6. ASSUME Proceed(u), i = n PROVE Served'
  <2>1. /\ todo' = [todo EXCEPT ![u] = From(op, n + 1)] /\ "ok" \in Answers
        /\ changeOutcome' = [changeOutcome EXCEPT ![u] = "ok"]
    BY <1>1, <1>2, <1>6, Proceeds DEF Answers
  <2>2. n + 1 \in 1 .. n + 1
    BY <1>1
  <2> HIDE DEF n
  <2>3. n = Len(Steps[op])
    BY DEF n
  <2> QED
    BY <1>1, <1>3, <2>1, <2>2, <2>3, ServedOn
<1> QED
  BY <1>4, <1>5, <1>6

\* Looking for the key columns: on to their renaming, or past it.
LEMMA FindKeyMoves ==
  ASSUME Served, NEW u \in Users, FindKey(u)
  PROVE  /\ asks[u] = "renameColumn" /\ changeOutcome' = changeOutcome
         /\ todo' = [todo EXCEPT ![u] = From("renameColumn", 5)]
              \/ todo' = [todo EXCEPT ![u] = From("renameColumn", 6)]
<1> DEFINE op == asks[u]
<1>1. Running(u) /\ Head(todo[u]) = "findKey"
  BY DEF FindKey, At
<1>2. op \in Requests /\ \E i \in 1 .. Len(Steps[op]) : todo[u] = From(op, i) /\ Head(todo[u]) = Steps[op][i]
  BY <1>1, ServedAt
<1> HIDE DEF op
<1>3. PICK i \in 1 .. Len(Steps[op]) : todo[u] = From(op, i) /\ Head(todo[u]) = Steps[op][i]
  BY <1>2
<1>4. op # "edit"
  <2> SUFFICES ASSUME op = "edit" PROVE FALSE
    OBVIOUS
  <2>1. Steps["edit"] = <<"look", "update">>
    BY StepsAre
  <2> QED
    BY <1>1, <1>3, <2>1
<1>5. op = "renameColumn" /\ i = 4
  <2>1. op \in Changings
    BY <1>2, <1>4 DEF Requests
  <2> QED
    BY <1>1, <1>3, <2>1, StepAt DEF Stands
<1>6. Tail(todo[u]) = From("renameColumn", 5) /\ Tail(Tail(todo[u])) = From("renameColumn", 6)
  <2>1. Len(Steps["renameColumn"]) = 6 /\ "renameColumn" \in Requests
    BY StepsAre DEF Requests, Changings
  <2>2. 4 \in 1 .. Len(Steps["renameColumn"]) /\ 5 \in 1 .. Len(Steps["renameColumn"])
    BY <2>1
  <2>3. /\ Tail(From("renameColumn", 4)) = From("renameColumn", 4 + 1)
        /\ Tail(From("renameColumn", 5)) = From("renameColumn", 5 + 1)
    BY <2>1, <2>2, FromIs
  <2>4. todo[u] = From("renameColumn", 4)
    BY <1>3, <1>5
  <2>5. 4 + 1 = 5 /\ 5 + 1 = 6
    OBVIOUS
  <2> QED
    BY <2>3, <2>4, <2>5
<1> QED
  BY <1>5, <1>6 DEF FindKey, op

LEMMA ServedStays ==
  ASSUME Served, [ChangesNext]_cvars
  PROVE  Served'
<1>1. ASSUME NEW u \in Users, AskChange(u) PROVE Served'
  <2> DEFINE op == asks[u]
  <2>1. op \in Requests /\ asks' = asks /\ Shown'
    BY <1>1 DEF AskChange, Served, Shown
  <2>2. Unanswered \in Answers /\ changeOutcome' = [changeOutcome EXCEPT ![u] = Unanswered]
    BY <1>1 DEF AskChange, Served, Unanswered, Answers
  <2> HIDE DEF op
  <2>3. Len(Steps[op]) \in Nat \ {0}
    BY <2>1, StepsOf
  <2>4. 1 \in 1 .. Len(Steps[op]) /\ 1 \in 1 .. Len(Steps[op]) + 1
    BY <2>3
  <2>5. todo' = [todo EXCEPT ![u] = From(op, 1)]
    BY <1>1, <2>1, <2>4, FromIs DEF AskChange, op
  <2> QED
    BY <2>1, <2>2, <2>4, <2>5, ServedOn DEF op
<1>2. ASSUME NEW u \in Users, StepFails(u) PROVE Served'
  <2>1. Running(u) /\ (Proceed(u) \/ Refuse(u)) /\ asks' = asks /\ saw' = saw
    BY <1>2 DEF StepFails
  <2> QED
    BY <2>1, ServedMoves
<1>3. ASSUME NEW u \in Users, ChangeStep(u) PROVE Served'
  <2>1. Running(u) /\ asks' = asks /\ saw' = saw /\ (Proceed(u) \/ Refuse(u) \/ FindKey(u))
    BY <1>3, StepDoes
  <2>2. CASE Proceed(u) \/ Refuse(u)
    BY <2>1, <2>2, ServedMoves
  <2>3. CASE FindKey(u)
    <3>1. /\ asks[u] = "renameColumn"
          /\ \E j \in {5, 6} : todo' = [todo EXCEPT ![u] = From("renameColumn", j)]
      BY <2>3, FindKeyMoves
    <3>2. PICK j \in {5, 6} : todo' = [todo EXCEPT ![u] = From("renameColumn", j)]
      BY <3>1
    <3>3. changeOutcome[u] = Unanswered
      BY <2>1, ServedAt
    <3>4. Unanswered \in Answers /\ changeOutcome' = [changeOutcome EXCEPT ![u] = Unanswered]
      BY <2>3, <3>3, FindKeyMoves DEF Served, Answers
    <3>5. Len(Steps["renameColumn"]) = 6 /\ "renameColumn" \in Requests
      BY StepsAre DEF Requests, Changings
    <3>6. j \in 1 .. 6 + 1
      OBVIOUS
    <3>7. Shown'
      BY <2>1 DEF Served, Shown
    <3> QED
      BY <2>1, <3>1, <3>2, <3>4, <3>5, <3>6, <3>7, ServedOn
  <2> QED
    BY <2>1, <2>2, <2>3
<1>4. CASE UNCHANGED cvars
  BY <1>4 DEF cvars, Served, Shown, Running
<1> QED
  BY <1>1, <1>2, <1>3, <1>4 DEF ChangesNext

\* Edits that are answered: what a step may add to them.
LEMMA EditsStay ==
  ASSUME Served, EditsApart, [ChangesNext]_cvars
  PROVE  EditsApart'
<1>1. \A u \in Users : Running(u) => u \notin Done
  <2> SUFFICES ASSUME NEW u \in Users, Running(u) PROVE changeOutcome[u] # "ok"
    BY DEF Done
  <2> QED
    BY ServedAt DEF Unanswered
<1>2. ASSUME UNCHANGED <<asks, saw, cell>>, Done' = Done PROVE EditsApart'
  BY <1>2 DEF EditsApart
<1>3. ASSUME NEW u \in Users, AskChange(u) PROVE EditsApart'
  <2>1. Done' = Done /\ cell' = cell /\ asks' = asks
    BY <1>3 DEF AskChange, Done, data
  <2>2. u \notin Done
    BY <1>3 DEF AskChange, Done
  <2>3. \A v \in Users : saw'[v] = IF v = u THEN cell ELSE saw[v]
    BY <1>3 DEF AskChange, Served, Shown
  <2>4. \A v \in Done : v \in Users
    BY DEF Done
  <2> QED
    BY <2>1, <2>2, <2>3, <2>4 DEF EditsApart
<1>4. ASSUME NEW u \in Users, Running(u), Proceed(u) \/ Refuse(u) \/ FindKey(u), asks' = asks,
             (asks[u] = "edit") => Refuse(u) \/ (Proceed(u) /\ todo[u] = From("edit", 1))
      PROVE  Done' = Done
  <2>1. changeOutcome' = [changeOutcome EXCEPT ![u] = changeOutcome'[u]]
    <3>1. Proceed(u) \/ Refuse(u) => changeOutcome' = [changeOutcome EXCEPT ![u] = changeOutcome'[u]]
      BY DEF Proceed, Refuse, Served
    <3>2. FindKey(u) => changeOutcome' = [changeOutcome EXCEPT ![u] = changeOutcome'[u]]
      BY DEF FindKey, Served
    <3> QED
      BY <1>4, <3>1, <3>2
  <2>2. \A v \in Users \ {u} : changeOutcome'[v] = changeOutcome[v]
    BY <2>1 DEF Served
  <2>3. u \notin Done
    BY <1>1, <1>4
  <2>4. u \notin Done'
    <3> SUFFICES ASSUME asks[u] = "edit" PROVE changeOutcome'[u] # "ok"
      BY <1>4 DEF Done
    <3>1. CASE Refuse(u)
      BY <3>1 DEF Refuse, Served
    <3>2. CASE Proceed(u) /\ todo[u] = From("edit", 1)
      <4>1. Len(Steps["edit"]) = 2 /\ 1 \in 1 .. Len(Steps["edit"]) /\ "edit" \in Requests
        BY StepsAre DEF Requests
      <4>2. Len(From("edit", 1)) = 2
        <5>1. Len(From("edit", 1)) = Len(Steps["edit"]) - 1 + 1
          BY <4>1, FromIs
        <5> QED
          BY <4>1, <5>1
      <4>3. changeOutcome' = changeOutcome
        <5>1. Len(todo[u]) # 1
          BY <3>2, <4>2
        <5> QED
          BY <3>2, <5>1 DEF Proceed
      <4> QED
        BY <1>4, <4>3, ServedAt DEF Unanswered
    <3> QED
      BY <1>4, <3>1, <3>2
  <2> QED
    BY <1>4, <2>2, <2>3, <2>4 DEF Done
<1>5. ASSUME NEW u \in Users, StepFails(u) PROVE EditsApart'
  <2>1. Running(u) /\ (Proceed(u) \/ Refuse(u)) /\ UNCHANGED <<asks, saw, cell>>
    BY <1>5 DEF StepFails, data
  <2>2. asks[u] = "edit" => Refuse(u)
    <3> SUFFICES ASSUME asks[u] = "edit" PROVE Head(todo[u]) \notin Swallowed
      BY <1>5 DEF StepFails
    <3>1. PICK i \in 1 .. Len(Steps["edit"]) : Head(todo[u]) = Steps["edit"][i]
      BY <2>1, ServedAt
    <3>2. Steps["edit"] = <<"look", "update">>
      BY StepsAre
    <3>3. Head(todo[u]) \in {"look", "update"}
      BY <3>1, <3>2
    <3> QED
      BY <3>3 DEF Swallowed
  <2> QED
    BY <1>2, <1>4, <2>1, <2>2
<1>6. ASSUME NEW u \in Users, ChangeStep(u), ~UpdateCell(u) PROVE EditsApart'
  <2>1. Running(u) /\ UNCHANGED <<asks, saw, cell>> /\ (Proceed(u) \/ Refuse(u) \/ FindKey(u))
    BY <1>6, StepDoes
  <2>2. ASSUME asks[u] = "edit" PROVE Refuse(u) \/ (Proceed(u) /\ todo[u] = From("edit", 1))
    <3>1. LookAgain(u) /\ todo[u] = From("edit", 1)
      BY <1>6, <2>2, EditSteps
    <3> QED
      BY <3>1 DEF LookAgain, Check
  <2> QED
    BY <1>2, <1>4, <2>1, <2>2
<1>7. ASSUME NEW u \in Users, ChangeStep(u), UpdateCell(u) PROVE EditsApart'
  <2>1. Running(u) /\ UNCHANGED <<asks, saw>>
    BY <1>7, StepDoes
  <2>2. CASE Refuse(u) /\ cell' = cell
    BY <1>2, <1>4, <2>1, <2>2
  <2>3. CASE Proceed(u) /\ SeenStill(u) /\ cell' = u
    <3>1. \A v \in Users \ {u} : changeOutcome'[v] = changeOutcome[v]
      BY <2>3 DEF Proceed, Served
    <3>2. u \notin Done
      BY <1>1, <2>1
    <3>3. Done' \subseteq Done \cup {u} /\ Done \subseteq Done'
      BY <2>1, <3>1, <3>2 DEF Done
    <3>4. u \in Done'
      <4>1. asks[u] = "edit"
        <5>1. PICK i \in 1 .. Len(Steps[asks[u]]) : Head(todo[u]) = Steps[asks[u]][i]
          BY <2>1, ServedAt
        <5>2. Head(todo[u]) = "update" /\ asks[u] \in Requests
          BY <1>7, <2>1, ServedAt DEF UpdateCell, At
        <5>3. ASSUME asks[u] \in Changings PROVE FALSE
          BY <5>1, <5>2, <5>3, StepAt DEF Stands
        <5> QED
          BY <5>2, <5>3 DEF Requests
      <4>2. todo[u] = From("edit", 2)
        BY <1>7, <4>1, EditSteps
      <4>3. Len(Steps["edit"]) = 2 /\ 2 \in 1 .. Len(Steps["edit"]) /\ "edit" \in Requests
        BY StepsAre DEF Requests
      <4>4. Len(From("edit", 2)) = 1
        <5>1. Len(From("edit", 2)) = Len(Steps["edit"]) - 2 + 1
          BY <4>3, FromIs
        <5> QED
          BY <4>3, <5>1
      <4>5. changeOutcome' = [changeOutcome EXCEPT ![u] = "ok"]
        BY <2>3, <4>2, <4>4 DEF Proceed
      <4> QED
        BY <2>1, <4>1, <4>5 DEF Done, Served
    <3>5. u \notin {"nothing", "first"} /\ saw[u] = cell
      BY <2>3, ChangesAssumption DEF SeenStill
    <3>6. \A v \in Users : saw[v] # u
      BY <3>2, <3>5 DEF EditsApart
    <3>7. \A v \in Done : v \in Users
      BY DEF Done
    <3>8. Done' = Done \cup {u}
      BY <3>3, <3>4
    <3> QED
      BY <2>1, <2>3, <3>5, <3>6, <3>7, <3>8 DEF EditsApart
  <2> QED
    BY <1>7, <2>2, <2>3 DEF UpdateCell
<1>8. CASE UNCHANGED cvars
  <2>1. UNCHANGED <<asks, saw, cell>> /\ Done' = Done
    BY <1>8 DEF cvars, Done
  <2> QED
    BY <1>2, <2>1
<1> QED
  BY <1>3, <1>5, <1>6, <1>7, <1>8 DEF ChangesNext

\* Steps that leave the table and what refers to it alone keep every stage.
LEMMA StageStays ==
  ASSUME UNCHANGED <<name, columns, dated, keys, acl, rule, graph>>
  PROVE  (Fit => Fit') /\ \A op, i : Stage(op, i) => Stage(op, i)'
<1>1. (Fit => Fit') /\ (Before => Before') /\ (Freed => Freed') /\ (Free => Free') /\ (Renamed => Renamed')
  BY DEF Fit, RulesFit, Has, Before, Freed, Free, Renamed
<1>2. \A a : (NameMoved(a) => NameMoved(a)') /\ (Dropped(a) => Dropped(a)')
  BY DEF NameMoved, Dropped, RulesFit
<1>3. KeysAt("t", "u") => KeysAt("t", "u")'
  BY DEF KeysAt
<1>4. KeysAt("u", "t") => KeysAt("u", "t")'
  BY DEF KeysAt
<1>5. ASSUME NEW op, NEW i, Stage(op, i) PROVE Stage(op, i)'
  <2>1. UNCHANGED <<name, columns, dated, keys, acl, rule, graph>>
    OBVIOUS
  <2> QED
    BY <1>1, <1>2, <1>3, <1>4, <1>5, <2>1 DEF Stage
<1> QED
  BY <1>1, <1>5

\* One change at a time goes from stage to stage.
LEMMA OneAtATimeStays ==
  ASSUME ChangesTypeOK, Served, OneAtATime, [ChangesNext]_cvars, ~strained'
  PROVE  OneAtATime'
<1>1. ASSUME UNCHANGED <<name, columns, dated, keys, acl, rule, graph, asks>>,
             \A v \in Users : Changing(v)' <=> Changing(v),
             \A v \in Users : Changing(v) => todo'[v] = todo[v]
      PROVE  OneAtATime'
  <2>1. (Fit => Fit') /\ \A op, i : Stage(op, i) => Stage(op, i)'
    BY <1>1, StageStays
  <2>2. ASSUME NEW v \in Users, Changing(v)'
        PROVE  \E i \in 1 .. Len(Steps[asks'[v]]) : todo'[v] = From(asks'[v], i) /\ Stage(asks[v], i)'
    <3>1. Changing(v) /\ todo'[v] = todo[v] /\ asks'[v] = asks[v]
      BY <1>1, <2>2
    <3>2. PICK i \in 1 .. Len(Steps[asks[v]]) : todo[v] = From(asks[v], i) /\ Stage(asks[v], i)
      BY <3>1 DEF OneAtATime
    <3>3. PICK op : op = asks[v]
      OBVIOUS
    <3>4. Stage(op, i)'
      BY <2>1, <3>2, <3>3
    <3>5. Stage(asks[v], i)'
      BY <1>1, <3>3, <3>4
    <3> QED
      BY <3>1, <3>2, <3>5
  <2> QED
    BY <1>1, <2>1, <2>2 DEF OneAtATime
<1>2. ASSUME NEW u \in Users, NEW v \in Users \ {u}, todo'[v] = todo[v], asks' = asks
      PROVE  Changing(v)' <=> Changing(v)
  BY <1>2 DEF Changing, Running, Schema
<1>3. ASSUME NEW u \in Users, AskChange(u) PROVE OneAtATime'
  <2>1. /\ UNCHANGED <<name, columns, dated, keys, acl, rule, graph, asks>>
        /\ todo' = [todo EXCEPT ![u] = Steps[asks[u]]] /\ ~Running(u)
        /\ ~(Schema(u) /\ \E v \in Users \ {u} : Running(v) /\ Schema(v))
    BY <1>3 DEF AskChange, data, refs
  <2>2. \A v \in Users \ {u} : todo'[v] = todo[v] /\ (Changing(v)' <=> Changing(v))
    BY <1>2, <2>1 DEF Served
  <2>3. CASE ~Schema(u)
    <3>1. ~Changing(u) /\ ~Changing(u)'
      BY <2>1, <2>3 DEF Changing, Schema
    <3> QED
      BY <1>1, <2>1, <2>2, <3>1
  <2>4. CASE Schema(u)
    <3>1. \A v \in Users : ~Changing(v)
      BY <2>1, <2>4 DEF Changing
    <3>2. Fit'
      <4>1. Fit
        BY <3>1 DEF OneAtATime
      <4> QED
        BY <2>1, <4>1, StageStays
    <3>3. PICK op \in Requests : op = asks[u]
      BY DEF Served
    <3>4. 1 \in 1 .. Len(Steps[op]) /\ todo'[u] = From(op, 1)
      <4>1. Len(Steps[op]) \in Nat \ {0}
        BY StepsOf
      <4>2. 1 \in 1 .. Len(Steps[op])
        BY <4>1
      <4> QED
        BY <2>1, <3>3, <4>2, FromIs DEF Served
    <3>5. Stage(op, 1)'
      BY <3>2 DEF Stage
    <3>6. Stage(asks[u], 1)'
      BY <2>1, <3>3, <3>5
    <3> QED
      BY <2>1, <2>2, <3>1, <3>2, <3>3, <3>4, <3>6 DEF OneAtATime
  <2> QED
    BY <2>3, <2>4
<1>4. ASSUME NEW u \in Users, StepFails(u) PROVE FALSE
  BY <1>4 DEF StepFails
<1>5. ASSUME NEW u \in Users, ChangeStep(u), asks[u] = "edit" PROVE OneAtATime'
  <2>1. /\ UNCHANGED <<name, columns, dated, keys, acl, rule, graph, asks>>
        /\ Proceed(u) \/ Refuse(u)
    BY <1>5, EditSteps, StepDoes DEF refs, LookAgain, Check, UpdateCell
  <2>2. \A v \in Users \ {u} : todo'[v] = todo[v] /\ (Changing(v)' <=> Changing(v))
    <3>1. \A v \in Users \ {u} : todo'[v] = todo[v]
      BY <2>1 DEF Served, Proceed, Refuse
    <3> QED
      BY <1>2, <2>1, <3>1
  <2>3. ~Changing(u) /\ ~Changing(u)'
    BY <1>5, <2>1 DEF Changing, Schema
  <2> QED
    BY <1>1, <2>1, <2>2, <2>3
<1>6. ASSUME NEW u \in Users, ChangeStep(u), asks[u] # "edit" PROVE OneAtATime'
  <2>1. Changing(u) /\ asks' = asks
    BY <1>6, StepDoes DEF Changing, Schema
  <2>2. PICK op \in Changings : op = asks[u]
    BY <1>6 DEF Served, Requests
  <2>3. PICK n : n = Len(Steps[op])
    OBVIOUS
  <2>4. PICK i \in 1 .. n : todo[u] = From(op, i) /\ Stage(op, i)
    BY <2>1, <2>2, <2>3 DEF OneAtATime
  <2>5. PICK j \in i + 1 .. n + 1 : todo' = [todo EXCEPT ![u] = From(op, j)] /\ Stage(op, j)'
    <3>1. PICK s : s = Steps[op][i]
      OBVIOUS
    <3> QED
      BY <1>6, <2>2, <2>3, <2>4, <3>1, ChangeMoves
  <2>6. n \in Nat \ {0} /\ From(op, n + 1) = <<>>
    <3>1. op \in Requests
      BY DEF Requests
    <3>2. n \in Nat \ {0}
      BY <2>3, <3>1, StepsOf
    <3>3. 1 \in 1 .. n
      BY <3>2
    <3> QED
      BY <2>3, <3>1, <3>2, <3>3, FromIs
  <2>7. \A v \in Users \ {u} : ~Changing(v) /\ ~Changing(v)'
    <3>1. \A v \in Users \ {u} : ~Changing(v) /\ todo'[v] = todo[v]
      BY <2>1, <2>5 DEF OneAtATime, Served
    <3> QED
      BY <1>2, <2>1, <3>1
  <2>8. todo'[u] = From(op, j)
    BY <2>5 DEF Served
  <2>9. CASE j = n + 1
    <3>1. Fit' /\ ~Changing(u)'
      <4>1. op \in Requests /\ Stage(op, n + 1)' /\ n \in Nat
        BY <2>5, <2>6, <2>9 DEF Requests
      <4>2. n = CASE op \in {"renameColumn", "renameTable"} -> 6
                  [] op = "dropTable" -> 5
                  [] op \in {"dropColumn", "convert"} -> 4
                  [] op \in {"setKeys", "edit"} -> 2
                  [] OTHER -> 1
        BY <2>3, <4>1, StepsOf
      <4>3. Fit'
        BY <2>3, <4>1, <4>2 DEF Stage
      <4> QED
        BY <2>6, <2>8, <2>9, <4>3 DEF Changing, Running
    <3> QED
      BY <2>7, <3>1 DEF OneAtATime
  <2>10. CASE j # n + 1
    <3>1. j \in 1 .. n
      BY <2>6, <2>10
    <3>2. Changing(u)'
      <4>1. From(op, j) # <<>>
        <5>1. op \in Requests /\ j \in 1 .. Len(Steps[op])
          BY <2>3, <3>1 DEF Requests
        <5> QED
          BY <5>1, FromIs
      <4> QED
        BY <2>1, <2>8, <4>1 DEF Changing, Running, Schema
    <3>3. Stage(asks[u], j)' /\ todo'[u] = From(asks'[u], j) /\ j \in 1 .. Len(Steps[asks'[u]])
      BY <2>1, <2>2, <2>3, <2>5, <2>8, <3>1
    <3> QED
      BY <2>7, <3>2, <3>3 DEF OneAtATime
  <2> QED
    BY <2>9, <2>10
<1>7. CASE UNCHANGED cvars
  <2>1. /\ UNCHANGED <<name, columns, dated, keys, acl, rule, graph, asks, todo>>
        /\ \A v \in Users : Changing(v)' <=> Changing(v)
    BY <1>7 DEF cvars, Changing, Running, Schema
  <2> QED
    BY <1>1, <2>1
<1> QED
  BY <1>3, <1>4, <1>5, <1>6, <1>7 DEF ChangesNext

\* A strained run stays so.
LEMMA StrainedStays == ASSUME [ChangesNext]_cvars, strained PROVE strained'
BY DEF ChangesNext, AskChange, StepFails, ChangeStep, cvars

LEMMA ChangesStart == ASSUME ChangesInit PROVE ChangesInv
<1>1. asks \in [Users -> Requests]
  BY ChangesAssumption, StepsAre DEF ChangesInit, Requests
<1>0. keys \in {Keys({}, {}), Keys({"a"}, {})} /\ rule \in {Rule("t", "a"), Rule("t", "c")}
  BY DEF ChangesInit, NoKeys
<1>2. ChangesTypeOK
  <2>1. /\ keys \in [t : SUBSET {"a", "b"}, u : SUBSET {"a", "b"}]
        /\ rule \in [table : {"t", "u"}, column : {"a", "b", "c"}]
    BY <1>0 DEF Keys, Rule
  <2> QED
    BY <1>1, <2>1, StepsAre DEF ChangesInit, ChangesTypeOK, Requests
<1>3. \A u \in Users : ~Running(u) /\ ~Changing(u) /\ u \notin Done
  BY DEF ChangesInit, Running, Changing, Done
<1>4. Served
  BY <1>1, <1>3 DEF ChangesInit, Served, Shown, Answers, Unanswered
<1>5. EditsApart
  BY <1>3 DEF ChangesInit, EditsApart, Done
<1>6. Fit
  <2>1. keys["u"] = {} /\ keys["t"] \subseteq {"a"} /\ rule.table = "t"
    BY <1>0, RecordsAre
  <2> QED
    BY <2>1 DEF ChangesInit, Fit, RulesFit, Has
<1> QED
  BY <1>2, <1>3, <1>4, <1>5, <1>6 DEF ChangesInv, OneAtATime

\* References follow changes that do not overlap, and one of several edits of
\* the same value succeeds (ReferencesFollow).
THEOREM ReferencesAlwaysFollow == ChangesSpec => [](ChangesTypeOK /\ ReferencesFollow)
<1>1. ASSUME ChangesInv, [ChangesNext]_cvars PROVE ChangesInv'
  <2>1. ChangesTypeOK' /\ Served' /\ EditsApart'
    BY <1>1, ChangesTyped, ServedStays, EditsStay DEF ChangesInv
  <2>2. ~strained' => OneAtATime'
    BY <1>1, StrainedStays, OneAtATimeStays DEF ChangesInv
  <2> QED
    BY <2>1, <2>2 DEF ChangesInv
<1>2. ASSUME ChangesInv PROVE ReferencesFollow
  <2>1. ASSUME NEW u \in Users, NEW v \in Users, asks[u] = "edit", asks[v] = "edit",
               changeOutcome[u] = "ok", changeOutcome[v] = "ok", saw[u] = saw[v]
        PROVE  u = v
    BY <1>2, <2>1 DEF ChangesInv, EditsApart, Done
  <2>2. ASSUME ~strained, \A u \in Users : ~Running(u) PROVE Fit
    BY <1>2, <2>2 DEF ChangesInv, OneAtATime, Changing
  <2> QED
    BY <2>1, <2>2 DEF ReferencesFollow, Fit, RulesFit
<1>3. ChangesInit => ChangesInv
  BY ChangesStart
<1>4. ChangesInv => ChangesTypeOK
  BY DEF ChangesInv
<1> QED
  BY <1>1, <1>2, <1>3, <1>4, PTL DEF ChangesSpec
=============================================================================
