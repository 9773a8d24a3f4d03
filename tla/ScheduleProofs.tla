--------------------------- MODULE ScheduleProofs ---------------------------
(***************************************************************************)
(* Proofs about the schedules and the settings of the console, for any     *)
(* number of gateways, jobs, faults and any length of time.                *)
(*                                                                         *)
(* PruneRules: a gateway never runs a rule twice at once, only jobs that   *)
(* are over or old are called abandoned, and, as long as conflicting       *)
(* claims are detected and edits store the next run that is current, each  *)
(* slot is claimed once.  Maintenance: runs never overlap, nobody releases *)
(* the lease of a job at work, no running flag is left up, and each slot   *)
(* of a schedule that comes again is claimed once.  ConsoleSettings: as    *)
(* long as the changes of one gateway run to their end, the keys that are  *)
(* active are those of the stored list.  Transfers: an export sends one    *)
(* state of the lake, slots are counted for their holders and no temp file *)
(* is left.  A behaviour of MCConsole is one of each of its parts.         *)
(***************************************************************************)
EXTENDS MCConsole, SequenceTheorems, FiniteSetTheorems, TLAPS

----------------------------------------------------------------------------
(* Prune rules: the invariants *)

\* A job that is at work, or being started, is counted in runningRules once.
Counted ==
  /\ \A i \in Active : runs[i].host \in runningRules
  /\ \A c \in Starts : starting[c] = "inserting" =>
       /\ c[1] \in runningRules
       /\ \A i \in Active : runs[i].host # c[1]
       /\ \A d \in Starts : starting[d] = "inserting" /\ d[1] = c[1] => d = c

\* Gateways that are down do nothing.
LiveStarts == \A c \in Starts : starting[c] # "idle" => c[1] \in upHosts

JobInv ==
  /\ runs \in Seq(Run)
  /\ upHosts \subseteq PruneHosts /\ runningRules \subseteq upHosts
  /\ LiveStarts /\ Counted /\ OneJobEach

\* Ticks began in the past; one that stores a first slot, not before this one.
Timely ==
  /\ \A h \in PruneHosts : tickAt[h] <= clock
  /\ \A h \in PruneHosts : starting[Tick(h)] # "idle" => tickAt[h] \in Nat
  /\ \A h \in Scheduling : tickAt[h] = clock

\* What is due was not claimed yet, and a claim that is under way will take it.
SlotInv ==
  /\ claimed <= clock
  /\ due # 0 => due > claimed
  /\ ruleOn /\ due = 0 =>
       \A h \in PruneHosts : starting[Tick(h)] \notin {"claiming", "updating"}
  /\ \A h \in PruneHosts \ behind : starting[Tick(h)] = "updating" => due \in 1..tickAt[h]

----------------------------------------------------------------------------
(* Types *)

\* A log whose entries are replaced one by one is a log.
LEMMA EntriesReplaced ==
  ASSUME NEW S, NEW s \in Seq(S), NEW t \in [DOMAIN s -> S]
  PROVE  t \in Seq(S) /\ DOMAIN t = DOMAIN s
<1>1. DOMAIN s = 1..Len(s) /\ Len(s) \in Nat
  OBVIOUS
<1> QED
  BY <1>1, SeqDef

\* Calling some of the running jobs abandoned changes nothing else of them.
LEMMA SomeAbandoned ==
  ASSUME PruneTypeOK, NEW S, Abandon(S)
  PROVE  /\ runs' \in Seq(Run) /\ DOMAIN runs' = DOMAIN runs
         /\ \A i \in DOMAIN runs :
              /\ runs'[i].host = runs[i].host /\ runs'[i].code = runs[i].code
              /\ runs'[i].started = runs[i].started
              /\ \/ runs'[i].status = runs[i].status
                 \/ i \in S /\ runs'[i].status = "abandoned"
<1>1. \A i \in DOMAIN runs : runs[i] \in Run
  BY ElementOfSeq DEF PruneTypeOK
<1>2. runs' \in [DOMAIN runs -> Run]
  BY <1>1 DEF Abandon, Run
<1>3. runs \in Seq(Run)
  BY DEF PruneTypeOK
<1>4. runs' \in Seq(Run) /\ DOMAIN runs' = DOMAIN runs
  BY <1>2, <1>3, EntriesReplaced
<1> QED
  BY <1>1, <1>4 DEF Abandon, Run

Places == {"idle", "tick", "due", "read", "setting", "claiming", "updating", "verifying",
           "starting", "inserting"}

\* One start moves from a place to another.
LEMMA OneMoves ==
  ASSUME PruneTypeOK, NEW c \in Starts, NEW from, NEW to \in Places, At(c, from, to)
  PROVE  /\ starting[c] = from
         /\ starting' \in [Starts -> Places]
         /\ starting'[c] = to
         /\ \A d \in Starts \ {c} : starting'[d] = starting[d]
BY DEF PruneTypeOK, At, Places

LEMMA TicksAreStarts ==
  \A h \in PruneHosts : Tick(h) \in Starts /\ Tick(h)[1] = h /\ <<h, "manual">> \in Starts
BY DEF Tick, Starts

LEMMA TicksDiffer ==
  \A h, g \in PruneHosts : Tick(h) = Tick(g) => h = g
BY DEF Tick

LEMMA TypeInitially == PruneInit => PruneTypeOK
<1> SUFFICES ASSUME PruneInit PROVE PruneTypeOK
  OBVIOUS
<1>1. runs \in Seq(Run)
  BY EmptySeq DEF PruneInit
<1> QED
  BY <1>1, PruneAssumption DEF PruneInit, PruneTypeOK, Places

\* The part of the type that ticks and starts move: where they are, and which of
\* their claims are late.
Moving ==
  /\ starting \in [Starts -> Places]
  /\ behind \subseteq {h \in PruneHosts : starting[Tick(h)] = "updating"}

\* A start that is not inside a claim's UPDATE moves.
LEMMA MovesOutside ==
  ASSUME PruneTypeOK, NEW c \in Starts, NEW from, from # "updating", NEW to \in Places,
         At(c, from, to), UNCHANGED behind
  PROVE  Moving'
<1>1. /\ starting[c] = from
      /\ starting' \in [Starts -> Places]
      /\ \A d \in Starts \ {c} : starting'[d] = starting[d]
  BY OneMoves
<1>2. ASSUME NEW h \in behind PROVE h \in PruneHosts /\ starting'[Tick(h)] = "updating"
  <2>1. h \in PruneHosts /\ starting[Tick(h)] = "updating"
    BY DEF PruneTypeOK
  <2>2. Tick(h) \in Starts \ {c}
    BY <1>1, <2>1, TicksAreStarts
  <2> QED
    BY <1>1, <2>1, <2>2
<1> QED
  BY <1>1, <1>2 DEF Moving

\* A tick leaves a claim's UPDATE.
LEMMA MovesInside ==
  ASSUME PruneTypeOK, NEW h \in PruneHosts, NEW to \in Places,
         At(Tick(h), "updating", to),
         behind' \subseteq {g \in PruneHosts \ {h} : starting[Tick(g)] = "updating"}
  PROVE  Moving'
<1>1. /\ starting' \in [Starts -> Places]
      /\ \A d \in Starts \ {Tick(h)} : starting'[d] = starting[d]
  BY OneMoves, TicksAreStarts
<1>2. ASSUME NEW g \in behind' PROVE g \in PruneHosts /\ starting'[Tick(g)] = "updating"
  <2>1. g \in PruneHosts \ {h} /\ starting[Tick(g)] = "updating"
    OBVIOUS
  <2>2. Tick(g) \in Starts \ {Tick(h)}
    BY <2>1, TicksAreStarts, TicksDiffer
  <2> QED
    BY <1>1, <2>1, <2>2
<1> QED
  BY <1>1, <1>2 DEF Moving

LEMMA StepMoving == PruneTypeOK /\ [PruneNext]_pruneVars => Moving'
<1> SUFFICES ASSUME PruneTypeOK, [PruneNext]_pruneVars PROVE Moving'
  OBVIOUS
<1>0. Moving
  BY DEF PruneTypeOK, Moving, Places
<1>1. ASSUME NEW h \in PruneHosts, TickStep(h) PROVE Moving'
  <2>0. Tick(h) \in Starts
    BY TicksAreStarts
  <2>1. CASE CommitClaim(h)
    <3>1. CASE ClaimCommits(h)
      <4>1. behind' \subseteq {g \in PruneHosts \ {h} : starting[Tick(g)] = "updating"}
        BY <3>1 DEF ClaimCommits, PruneTypeOK
      <4> QED
        BY <3>1, <4>1, MovesInside DEF ClaimCommits, Places
    <3>2. CASE At(Tick(h), "updating", "idle") /\ behind' = behind \ {h}
      <4>1. behind' \subseteq {g \in PruneHosts \ {h} : starting[Tick(g)] = "updating"}
        BY <3>2 DEF PruneTypeOK
      <4> QED
        BY <3>2, <4>1, MovesInside DEF Places
    <3> QED
      BY <3>1, <3>2, <2>1 DEF CommitClaim
  <2>2. CASE SetRuleNext(h)
    <3>1. /\ starting[Tick(h)] = "setting"
          /\ starting' \in [Starts -> Places]
          /\ \A d \in Starts \ {Tick(h)} : starting'[d] = starting[d]
      BY <2>2, <2>0, OneMoves DEF SetRuleNext, Places
    <3>2. behind' \subseteq {g \in PruneHosts : starting[Tick(g)] = "updating"}
      BY <2>2 DEF SetRuleNext, RuleWritten, PruneTypeOK
    <3> QED
      BY <3>1, <3>2, <2>0, TicksAreStarts DEF Moving
  <2>3. CASE TickStarts(h)
    BY <2>3, <2>0, MovesOutside DEF TickStarts, Places
  <2>4. CASE AbandonStale(h)
    BY <2>4, <2>0, MovesOutside DEF AbandonStale, Places
  <2>5. CASE FindDue(h)
    BY <2>5, <2>0, MovesOutside DEF FindDue, Places
  <2>6. CASE ReadRule(h)
    BY <2>6, <2>0, MovesOutside DEF ReadRule, Places
  <2>7. CASE BeginClaim(h)
    BY <2>7, <2>0, MovesOutside DEF BeginClaim, Places
  <2>8. CASE VerifyClaim(h)
    BY <2>8, <2>0, MovesOutside DEF VerifyClaim, Places
  <2> QED
    BY <1>1, <2>1, <2>2, <2>3, <2>4, <2>5, <2>6, <2>7, <2>8 DEF TickStep
<1>2. ASSUME NEW h \in PruneHosts, RunRule(h) PROVE Moving'
  BY <1>2, TicksAreStarts, MovesOutside DEF RunRule, Places
<1>3. ASSUME NEW h \in PruneHosts, BootPrune(h) PROVE Moving'
  BY <1>3, <1>0 DEF BootPrune, Moving
<1>4. ASSUME NEW h \in PruneHosts, CrashPrune(h) PROVE Moving'
  <2>1. starting' \in [Starts -> Places]
    BY <1>4, <1>0 DEF CrashPrune, Moving, Places
  <2>2. ASSUME NEW g \in behind' PROVE g \in PruneHosts /\ starting'[Tick(g)] = "updating"
    <3>1. g \in PruneHosts /\ g # h /\ starting[Tick(g)] = "updating"
      BY <1>4, <1>0 DEF CrashPrune, Moving
    <3>2. Tick(g) \in Starts /\ Tick(g)[1] = g
      BY <3>1, TicksAreStarts
    <3> QED
      BY <1>4, <3>1, <3>2 DEF CrashPrune
  <2> QED
    BY <2>1, <2>2 DEF Moving
<1>5. ASSUME NEW c \in Starts, StartStep(c) PROVE Moving'
  <2>1. CASE TickFails(c)
    <3>1. starting' \in [Starts -> Places] /\ \A d \in Starts \ {c} : starting'[d] = starting[d]
      BY <2>1, <1>0 DEF TickFails, Moving, Places
    <3>2. ASSUME NEW g \in behind' PROVE g \in PruneHosts /\ starting'[Tick(g)] = "updating"
      <4>1. g \in PruneHosts /\ starting[Tick(g)] = "updating"
        BY <2>1, <1>0 DEF TickFails, Moving
      <4>2. Tick(g) \in Starts /\ Tick(g)[1] = g
        BY <4>1, TicksAreStarts
      <4>3. Tick(g) # c
        BY <2>1, <4>2 DEF TickFails
      <4> QED
        BY <3>1, <4>1, <4>2, <4>3
    <3> QED
      BY <3>1, <3>2 DEF Moving
  <2>2. CASE StartJob(c)
    BY <2>2, MovesOutside DEF StartJob, Places
  <2>3. CASE InsertRun(c)
    BY <2>3, MovesOutside DEF InsertRun, Places
  <2>4. CASE InsertFails(c)
    BY <2>4, MovesOutside DEF InsertFails, Places
  <2> QED
    BY <1>5, <2>1, <2>2, <2>3, <2>4 DEF StartStep
<1>6. ASSUME NEW i \in 1..MaxRuns, JobStep(i) PROVE Moving'
  BY <1>6, <1>0 DEF JobStep, FinishRun, RecordResult, RuleWritten, Moving
<1>7. CASE EnableRule \/ EditRule \/ PruneClock
  BY <1>7, <1>0 DEF EnableRule, EditRule, PruneClock, RuleWritten, Moving
<1>8. CASE UNCHANGED pruneVars
  BY <1>8, <1>0 DEF pruneVars, Moving
<1> QED
  BY <1>1, <1>2, <1>3, <1>4, <1>5, <1>6, <1>7, <1>8 DEF PruneNext

----------------------------------------------------------------------------
(* Jobs *)

\* Where no job is added or ends, what counts them stays right.
LEMMA JobsKept ==
  ASSUME JobInv, UNCHANGED runningRules,
         upHosts \subseteq upHosts', upHosts' \subseteq PruneHosts,
         runs' \in Seq(Run), DOMAIN runs' = DOMAIN runs,
         \A i \in DOMAIN runs : /\ runs'[i].host = runs[i].host
                                /\ (runs'[i].code = "over") = (runs[i].code = "over"),
         \A c \in Starts : starting'[c] = "inserting" => starting[c] = "inserting",
         \A c \in Starts : starting'[c] # "idle" => c[1] \in upHosts'
  PROVE  JobInv'
<1>1. Active' = Active /\ \A i \in Active : runs'[i].host = runs[i].host
  BY DEF Active
<1>2. Counted'
  BY <1>1 DEF JobInv, Counted
<1>3. OneJobEach'
  BY <1>1 DEF JobInv, OneJobEach
<1> QED
  BY <1>2, <1>3 DEF JobInv, LiveStarts

\* As JobsKept, for a step of one start.
LEMMA JobsKeptByMove ==
  ASSUME PruneTypeOK, JobInv, UNCHANGED <<runningRules, upHosts, runs>>,
         NEW c \in Starts, NEW from, from # "idle", NEW to \in Places \ {"inserting"},
         At(c, from, to)
  PROVE  JobInv'
<1>1. /\ starting[c] = from /\ starting'[c] = to
      /\ \A d \in Starts \ {c} : starting'[d] = starting[d]
  BY OneMoves
<1>2. \A d \in Starts : starting'[d] = "inserting" => starting[d] = "inserting"
  BY <1>1
<1>3. \A d \in Starts : starting'[d] # "idle" => d[1] \in upHosts'
  BY <1>1 DEF JobInv, LiveStarts
<1> QED
  BY <1>2, <1>3, JobsKept DEF JobInv

LEMMA JobsAbandoned ==
  ASSUME PruneTypeOK, JobInv, NEW S, Abandon(S), UNCHANGED runningRules,
         upHosts \subseteq upHosts', upHosts' \subseteq PruneHosts,
         \A c \in Starts : starting'[c] = "inserting" => starting[c] = "inserting",
         \A c \in Starts : starting'[c] # "idle" => c[1] \in upHosts'
  PROVE  JobInv'
BY SomeAbandoned, JobsKept

\* A job, or a log entry that was never written, of a gateway comes to its end.
LEMMA JobEnds ==
  ASSUME JobInv, NEW i \in Active,
         runs' = [runs EXCEPT ![i].code = "over"], runningRules' = runningRules \ {runs[i].host},
         UNCHANGED <<upHosts, starting>>
  PROVE  JobInv'
<1>1. i \in DOMAIN runs /\ \A k \in DOMAIN runs : runs[k] \in Run
  BY ElementOfSeq DEF Active, JobInv
<1>2. runs' \in [DOMAIN runs -> Run]
  BY <1>1 DEF Run
<1>3. runs' \in Seq(Run) /\ DOMAIN runs' = DOMAIN runs
  BY <1>2, EntriesReplaced DEF JobInv
<1>4. \A k \in DOMAIN runs : runs'[k].host = runs[k].host
                             /\ (k # i => runs'[k].code = runs[k].code)
                             /\ runs'[i].code = "over"
  BY <1>1 DEF Run
<1>5. Active' = Active \ {i} /\ \A k \in Active : runs'[k].host = runs[k].host
  BY <1>3, <1>4 DEF Active
<1>6. \A k \in Active \ {i} : runs[k].host # runs[i].host
  BY DEF JobInv, OneJobEach
<1>7. Counted'
  BY <1>5, <1>6 DEF JobInv, Counted
<1>8. OneJobEach'
  BY <1>5 DEF JobInv, OneJobEach
<1> QED
  BY <1>3, <1>7, <1>8 DEF JobInv, LiveStarts

LEMMA StepJobs == PruneTypeOK /\ JobInv /\ [PruneNext]_pruneVars => JobInv'
<1> SUFFICES ASSUME PruneTypeOK, JobInv, [PruneNext]_pruneVars PROVE JobInv'
  OBVIOUS
<1> USE DEF Places
<1>1. ASSUME NEW h \in PruneHosts, TickStep(h) PROVE JobInv'
  <2>0. Tick(h) \in Starts /\ Tick(h)[1] = h
    BY TicksAreStarts
  <2>1. CASE TickStarts(h)
    <3>1. starting'[Tick(h)] = "tick" /\ \A d \in Starts \ {Tick(h)} : starting'[d] = starting[d]
      BY <2>1, <2>0, OneMoves DEF TickStarts
    <3>2. \A d \in Starts : starting'[d] # "idle" => d[1] \in upHosts
      BY <2>1, <2>0, <3>1 DEF TickStarts, JobInv, LiveStarts
    <3> QED
      BY <2>1, <3>1, <3>2, JobsKept DEF TickStarts, JobInv
  <2>2. CASE AbandonStale(h)
    <3>1. /\ starting[Tick(h)] = "tick" /\ starting'[Tick(h)] = "due"
          /\ \A d \in Starts \ {Tick(h)} : starting'[d] = starting[d]
      BY <2>2, <2>0, OneMoves DEF AbandonStale
    <3>2. \A d \in Starts : starting'[d] # "idle" => d[1] \in upHosts
      BY <3>1 DEF JobInv, LiveStarts
    <3>3. \A d \in Starts : starting'[d] = "inserting" => starting[d] = "inserting"
      BY <3>1
    <3> QED
      BY <2>2, <3>2, <3>3, JobsAbandoned DEF AbandonStale, JobInv
  <2>3. CASE FindDue(h)
    BY <2>3, <2>0, JobsKeptByMove DEF FindDue
  <2>4. CASE ReadRule(h)
    BY <2>4, <2>0, JobsKeptByMove DEF ReadRule
  <2>5. CASE SetRuleNext(h)
    BY <2>5, <2>0, JobsKeptByMove DEF SetRuleNext
  <2>6. CASE BeginClaim(h)
    BY <2>6, <2>0, JobsKeptByMove DEF BeginClaim
  <2>7. CASE CommitClaim(h)
    BY <2>7, <2>0, JobsKeptByMove DEF CommitClaim, ClaimCommits
  <2>8. CASE VerifyClaim(h)
    BY <2>8, <2>0, JobsKeptByMove DEF VerifyClaim
  <2> QED
    BY <1>1, <2>1, <2>2, <2>3, <2>4, <2>5, <2>6, <2>7, <2>8 DEF TickStep
<1>2. ASSUME NEW h \in PruneHosts, RunRule(h) PROVE JobInv'
  <2> DEFINE c == <<h, "manual">>
  <2>1. c \in Starts /\ c[1] = h
    BY TicksAreStarts
  <2>2. starting'[c] = "starting" /\ \A d \in Starts \ {c} : starting'[d] = starting[d]
    BY <1>2, <2>1, OneMoves DEF RunRule
  <2>3. \A d \in Starts : starting'[d] # "idle" => d[1] \in upHosts
    BY <1>2, <2>1, <2>2 DEF RunRule, JobInv, LiveStarts
  <2> QED
    BY <1>2, <2>2, <2>3, JobsKept DEF RunRule, JobInv
<1>3. ASSUME NEW h \in PruneHosts, BootPrune(h) PROVE JobInv'
  <2>1. \A d \in Starts : starting'[d] # "idle" => d[1] \in upHosts'
    BY <1>3 DEF BootPrune, JobInv, LiveStarts
  <2>2. upHosts \subseteq upHosts' /\ upHosts' \subseteq PruneHosts
    BY <1>3 DEF BootPrune, JobInv
  <2>3. CASE UNCHANGED runs
    BY <1>3, <2>1, <2>2, <2>3, JobsKept DEF BootPrune, JobInv
  <2>4. CASE Abandon({i \in DOMAIN runs : runs[i].host = h})
    BY <1>3, <2>1, <2>2, <2>4, JobsAbandoned DEF BootPrune
  <2> QED
    BY <1>3, <2>3, <2>4 DEF BootPrune
<1>4. ASSUME NEW h \in PruneHosts, CrashPrune(h) PROVE JobInv'
  <2>1. \A k \in DOMAIN runs : runs[k] \in Run
    BY ElementOfSeq DEF JobInv
  <2>2. runs' \in [DOMAIN runs -> Run]
    BY <1>4, <2>1 DEF CrashPrune, Run
  <2>3. runs' \in Seq(Run) /\ DOMAIN runs' = DOMAIN runs
    BY <2>2, EntriesReplaced DEF JobInv
  <2>4. \A k \in DOMAIN runs : /\ runs'[k].host = runs[k].host
                               /\ runs'[k].code = IF runs[k].host = h THEN "over" ELSE runs[k].code
    BY <1>4, <2>1 DEF CrashPrune, Run
  <2>5. /\ Active' = {k \in Active : runs[k].host # h}
        /\ \A k \in Active : runs'[k].host = runs[k].host
    BY <2>3, <2>4 DEF Active
  <2>6. /\ \A c \in Starts : starting'[c] = IF c[1] = h THEN "idle" ELSE starting[c]
        /\ runningRules' = runningRules \ {h} /\ upHosts' = upHosts \ {h}
    BY <1>4 DEF CrashPrune
  <2>7. Counted'
    BY <2>5, <2>6 DEF JobInv, Counted
  <2>8. OneJobEach'
    BY <2>5 DEF JobInv, OneJobEach
  <2>9. LiveStarts'
    BY <2>6 DEF JobInv, LiveStarts
  <2> QED
    BY <2>3, <2>6, <2>7, <2>8, <2>9 DEF JobInv
<1>5. ASSUME NEW c \in Starts, StartStep(c) PROVE JobInv'
  <2>1. CASE TickFails(c)
    <3>1. \A d \in Starts : starting'[d] = IF d = c THEN "idle" ELSE starting[d]
      BY <2>1 DEF TickFails, PruneTypeOK
    <3> QED
      BY <2>1, <3>1, JobsKept DEF TickFails, JobInv, LiveStarts
  <2>2. CASE StartJob(c)
    <3>1. CASE UNCHANGED runningRules
      BY <2>2, <3>1, JobsKeptByMove DEF StartJob
    <3>2. CASE c[1] \notin runningRules /\ runningRules' = runningRules \cup {c[1]}
               /\ At(c, "starting", "inserting")
      <4>1. /\ starting[c] = "starting" /\ starting'[c] = "inserting"
            /\ \A d \in Starts \ {c} : starting'[d] = starting[d]
        BY <3>2, OneMoves
      <4>2. UNCHANGED <<upHosts, runs>>
        BY <2>2 DEF StartJob
      <4>3. Active' = Active /\ c[1] \in upHosts
        BY <4>1, <4>2 DEF Active, JobInv, LiveStarts
      <4>4. Counted'
        BY <3>2, <4>1, <4>2, <4>3 DEF JobInv, Counted
      <4>5. OneJobEach' /\ LiveStarts'
        BY <4>1, <4>2, <4>3 DEF JobInv, OneJobEach, LiveStarts
      <4> QED
        BY <3>2, <4>2, <4>3, <4>4, <4>5 DEF JobInv
    <3> QED
      BY <2>2, <3>1, <3>2 DEF StartJob
  <2>3. CASE InsertRun(c)
    <3> DEFINE entry == [host |-> c[1], started |-> clock, status |-> "running",
                         code |-> "working"]
               n == Len(runs) + 1
    <3>1. /\ starting[c] = "inserting" /\ starting'[c] = "idle"
          /\ \A d \in Starts \ {c} : starting'[d] = starting[d]
      BY <2>3, OneMoves DEF InsertRun
    <3>2. entry \in Run
      BY DEF Run, Starts, PruneTypeOK
    <3>3. /\ runs' = Append(runs, entry) /\ runs' \in Seq(Run)
          /\ DOMAIN runs = 1..Len(runs) /\ DOMAIN runs' = 1..n /\ Len(runs) \in Nat
          /\ \A k \in DOMAIN runs : runs'[k] = runs[k]
          /\ runs'[n] = entry
      BY <2>3, <3>2, AppendProperties, LenProperties DEF InsertRun, JobInv
    <3>4. Active' = Active \cup {n} /\ n \notin Active /\ runs'[n].host = c[1]
      BY <3>3 DEF Active
    <3>5. UNCHANGED <<upHosts, runningRules>> /\ \A k \in Active : runs'[k].host = runs[k].host
      BY <2>3, <3>3 DEF InsertRun, Active
    <3>6. Counted'
      BY <3>1, <3>4, <3>5 DEF JobInv, Counted
    <3>7. OneJobEach'
      BY <3>1, <3>4, <3>5 DEF JobInv, OneJobEach, Counted
    <3>8. LiveStarts'
      BY <3>1, <3>5 DEF JobInv, LiveStarts
    <3> QED
      BY <3>3, <3>5, <3>6, <3>7, <3>8 DEF JobInv
  <2>4. CASE InsertFails(c)
    BY <2>4, JobsKeptByMove DEF InsertFails
  <2> QED
    BY <1>5, <2>1, <2>2, <2>3, <2>4 DEF StartStep
<1>6. ASSUME NEW i \in 1..MaxRuns, JobStep(i) PROVE JobInv'
  <2>1. i \in DOMAIN runs /\ \A k \in DOMAIN runs : runs[k] \in Run
    BY <1>6, ElementOfSeq DEF JobStep, JobInv
  <2>2. CASE /\ runs[i].code = "working" /\ UNCHANGED <<runningRules, upHosts, starting>>
             /\ runs' = [runs EXCEPT ![i].status = "done", ![i].code = "recording"]
    <3>1. runs' \in [DOMAIN runs -> Run]
      BY <2>1, <2>2 DEF Run
    <3>2. runs' \in Seq(Run) /\ DOMAIN runs' = DOMAIN runs
      BY <3>1, EntriesReplaced DEF JobInv
    <3>0. /\ runs'[i] = [runs[i] EXCEPT !.status = "done", !.code = "recording"]
          /\ \A k \in DOMAIN runs \ {i} : runs'[k] = runs[k]
      BY <2>1, <2>2
    <3>3. \A k \in DOMAIN runs : /\ runs'[k].host = runs[k].host
                                 /\ (runs'[k].code = "over") = (runs[k].code = "over")
      BY <3>0, <2>1, <2>2 DEF Run
    <3> QED
      BY <2>2, <3>2, <3>3, JobsKept DEF JobInv, LiveStarts
  <2>3. CASE /\ i \in Active /\ JobOver(i)
             /\ runs' = [runs EXCEPT ![i].code = "over"] /\ UNCHANGED <<upHosts, starting>>
    BY <2>3, JobEnds DEF JobOver
  <2> QED
    BY <1>6, <2>1, <2>2, <2>3 DEF JobStep, FinishRun, RecordResult, Active
<1>7. CASE EnableRule \/ EditRule \/ PruneClock
  BY <1>7, JobsKept DEF EnableRule, EditRule, PruneClock, JobInv, LiveStarts
<1>8. CASE UNCHANGED pruneVars
  BY <1>8, JobsKept DEF pruneVars, JobInv, LiveStarts
<1> QED
  BY <1>1, <1>2, <1>3, <1>4, <1>5, <1>6, <1>7, <1>8 DEF PruneNext

----------------------------------------------------------------------------
(* Types and clocks *)

\* Everything of the type but where the starts are and the log.
LEMMA StepValues ==
  PruneTypeOK /\ [PruneNext]_pruneVars =>
    /\ clock' \in 0..EndOfTime /\ ruleOn' \in BOOLEAN /\ due' \in Nat /\ claimed' \in Nat
    /\ holder' \in PruneHosts \cup {Nobody} /\ tickAt' \in [PruneHosts -> Nat \cup {-1}]
<1> SUFFICES ASSUME PruneTypeOK, [PruneNext]_pruneVars
             PROVE  /\ clock' \in 0..EndOfTime /\ ruleOn' \in BOOLEAN /\ due' \in Nat
                    /\ claimed' \in Nat /\ holder' \in PruneHosts \cup {Nobody}
                    /\ tickAt' \in [PruneHosts -> Nat \cup {-1}]
  OBVIOUS
<1> USE PruneAssumption DEF PruneTypeOK, rule, NextSlot
<1>1. ASSUME NEW h \in PruneHosts, TickStep(h)
      PROVE  /\ clock' = clock /\ ruleOn' = ruleOn /\ due' \in Nat /\ claimed' \in Nat
             /\ holder' \in PruneHosts \cup {Nobody}
             /\ tickAt' \in [PruneHosts -> Nat \cup {-1}]
  BY <1>1, SMTT(60) DEF TickStep, TickStarts, AbandonStale, FindDue, ReadRule, SetRuleNext, BeginClaim,
              CommitClaim, ClaimCommits, VerifyClaim
<1>2. ASSUME NEW h \in PruneHosts, RunRule(h) \/ BootPrune(h) \/ CrashPrune(h)
      PROVE  UNCHANGED <<clock, ruleOn, due, claimed, holder, tickAt>>
  BY <1>2 DEF RunRule, BootPrune, CrashPrune
<1>3. ASSUME NEW c \in Starts, StartStep(c)
      PROVE  UNCHANGED <<clock, ruleOn, due, claimed, holder, tickAt>>
  BY <1>3 DEF StartStep, StartJob, InsertRun, InsertFails, TickFails
<1>4. ASSUME NEW i \in 1..MaxRuns, JobStep(i)
      PROVE  UNCHANGED <<clock, ruleOn, due, claimed, holder, tickAt>>
  BY <1>4 DEF JobStep, FinishRun, RecordResult
<1>5. CASE EnableRule
  BY <1>5 DEF EnableRule
<1>6. CASE EditRule
  BY <1>6 DEF EditRule
<1>7. CASE PruneClock
  BY <1>7 DEF PruneClock
<1>8. CASE UNCHANGED pruneVars
  BY <1>8 DEF pruneVars
<1> QED
  BY <1>1, <1>2, <1>3, <1>4, <1>5, <1>6, <1>7, <1>8 DEF PruneNext

LEMMA StepPruneType == PruneTypeOK /\ JobInv /\ [PruneNext]_pruneVars => PruneTypeOK'
<1> SUFFICES ASSUME PruneTypeOK, JobInv, [PruneNext]_pruneVars PROVE PruneTypeOK'
  OBVIOUS
<1>1. Moving' /\ JobInv'
  BY StepMoving, StepJobs
<1> QED
  BY <1>1, StepValues DEF Moving, Places, JobInv, PruneTypeOK

\* When a tick goes from one place to another, the next run being left alone, it
\* is scheduling only if it was, or if it starts.
LEMMA StepTimely == PruneTypeOK /\ Timely /\ [PruneNext]_pruneVars => Timely'
<1> SUFFICES ASSUME PruneTypeOK, Timely, [PruneNext]_pruneVars PROVE Timely'
  OBVIOUS
<1> USE DEF Places
<1>1. ASSUME NEW h \in PruneHosts, TickStep(h) PROVE Timely'
  <2>0. Tick(h) \in Starts /\ \A g \in PruneHosts \ {h} : Tick(g) \in Starts \ {Tick(h)}
    BY TicksAreStarts, TicksDiffer
  <2>1. CASE TickStarts(h)
    <3>1. starting'[Tick(h)] = "tick" /\ \A g \in PruneHosts \ {h} : starting'[Tick(g)] = starting[Tick(g)]
      BY <2>0, <2>1, OneMoves DEF TickStarts
    <3> QED
      BY <2>1, <3>1 DEF TickStarts, Timely, Scheduling, PruneTypeOK, rule
  <2>2. CASE AbandonStale(h) \/ FindDue(h) \/ ReadRule(h) \/ BeginClaim(h) \/ VerifyClaim(h)
    <3>1. UNCHANGED <<clock, tickAt, due>>
      BY <2>2 DEF AbandonStale, FindDue, ReadRule, BeginClaim, VerifyClaim, rule
    <3>2. \A g \in PruneHosts \ {h} : starting'[Tick(g)] = starting[Tick(g)]
      BY <2>0, <2>2, OneMoves DEF AbandonStale, FindDue, ReadRule, BeginClaim, VerifyClaim
    <3>3. starting[Tick(h)] # "idle" /\ (h \in Scheduling' => h \in Scheduling)
      BY <2>0, <2>2, <3>1, OneMoves DEF AbandonStale, FindDue, ReadRule, BeginClaim, VerifyClaim, Scheduling
    <3> QED
      BY <3>1, <3>2, <3>3 DEF Timely, Scheduling
  <2>3. CASE SetRuleNext(h) \/ CommitClaim(h)
    <3>1. UNCHANGED <<clock, tickAt>> /\ (due' = due \/ due' # 0)
      BY <2>0, <2>3, OneMoves DEF SetRuleNext, CommitClaim, ClaimCommits, NextSlot, rule, Timely
    <3>2. \A g \in PruneHosts \ {h} : starting'[Tick(g)] = starting[Tick(g)]
      BY <2>0, <2>3, OneMoves DEF SetRuleNext, CommitClaim, ClaimCommits
    <3>3. starting[Tick(h)] # "idle" /\ h \notin Scheduling'
      BY <2>0, <2>3, OneMoves DEF SetRuleNext, CommitClaim, ClaimCommits, Scheduling
    <3> QED
      BY <3>1, <3>2, <3>3 DEF Timely, Scheduling
  <2> QED
    BY <1>1, <2>1, <2>2, <2>3 DEF TickStep
<1>2. ASSUME NEW h \in PruneHosts, RunRule(h) PROVE Timely'
  <2>1. \A g \in PruneHosts : Tick(g) \in Starts \ {<<h, "manual">>}
    BY TicksAreStarts DEF Tick
  <2>2. \A g \in PruneHosts : starting'[Tick(g)] = starting[Tick(g)]
    BY <1>2, <2>1, OneMoves, TicksAreStarts DEF RunRule
  <2> QED
    BY <1>2, <2>2 DEF RunRule, Timely, Scheduling, rule
<1>3. ASSUME NEW h \in PruneHosts, BootPrune(h) PROVE Timely'
  BY <1>3 DEF BootPrune, Timely, Scheduling, rule
<1>4. ASSUME NEW h \in PruneHosts, CrashPrune(h) PROVE Timely'
  <2>1. \A g \in PruneHosts : starting'[Tick(g)] \in {starting[Tick(g)], "idle"}
    BY <1>4, TicksAreStarts DEF CrashPrune
  <2> QED
    BY <1>4, <2>1 DEF CrashPrune, Timely, Scheduling, rule
<1>5. ASSUME NEW c \in Starts, StartStep(c) PROVE Timely'
  <2>1. UNCHANGED <<clock, tickAt, due>>
    BY <1>5 DEF StartStep, StartJob, InsertRun, InsertFails, TickFails, rule
  <2>2. CASE TickFails(c)
    <3>1. \A g \in PruneHosts : starting'[Tick(g)] \in {starting[Tick(g)], "idle"}
      BY <2>2, TicksAreStarts DEF TickFails, PruneTypeOK
    <3> QED
      BY <2>1, <3>1 DEF Timely, Scheduling
  <2>3. CASE StartJob(c) \/ InsertRun(c) \/ InsertFails(c)
    <3>1. \A d \in Starts : starting'[d] = starting[d]
                            \/ (starting[d] # "idle" /\ starting'[d] \in {"inserting", "idle"})
      BY <2>3, OneMoves DEF StartJob, InsertRun, InsertFails
    <3>2. \A g \in PruneHosts : starting'[Tick(g)] = starting[Tick(g)]
            \/ (starting[Tick(g)] # "idle" /\ starting'[Tick(g)] \in {"inserting", "idle"})
      BY <3>1, TicksAreStarts
    <3>3. ASSUME NEW g \in PruneHosts, starting'[Tick(g)] # "idle"
          PROVE  starting[Tick(g)] # "idle" /\ (g \in Scheduling' => g \in Scheduling)
      BY <2>1, <3>2, <3>3 DEF Scheduling, rule
    <3> QED
      BY <2>1, <3>3 DEF Timely, Scheduling
  <2> QED
    BY <1>5, <2>2, <2>3 DEF StartStep
<1>6. ASSUME NEW i \in 1..MaxRuns, JobStep(i) PROVE Timely'
  BY <1>6 DEF JobStep, FinishRun, RecordResult, Timely, Scheduling, rule
<1>7. CASE EnableRule
  BY <1>7 DEF EnableRule, InTime, NextSlot, Timely, Scheduling, PruneTypeOK
<1>8. CASE EditRule
  BY <1>8 DEF EditRule, Timely, Scheduling
<1>9. CASE PruneClock
  BY <1>9 DEF PruneClock, Timely, Scheduling, rule, PruneTypeOK
<1>10. CASE UNCHANGED pruneVars
  BY <1>10 DEF pruneVars, Timely, Scheduling
<1> QED
  BY <1>1, <1>2, <1>3, <1>4, <1>5, <1>6, <1>7, <1>8, <1>9, <1>10 DEF PruneNext

----------------------------------------------------------------------------
(* Abandoned runs, and the theorems *)

LEMMA StepAbandoned ==
  PruneTypeOK /\ JobInv /\ Timely /\ AbandonedDead /\ [PruneNext]_pruneVars => AbandonedDead'
<1> SUFFICES ASSUME PruneTypeOK, JobInv, Timely, AbandonedDead, [PruneNext]_pruneVars
             PROVE  AbandonedDead'
  OBVIOUS
<1>0. \A k \in DOMAIN runs : runs[k] \in Run
  BY ElementOfSeq DEF JobInv
<1>1. clock' \in Nat /\ clock \in Nat /\ clock <= clock'
  <2>1. clock' = clock \/ clock' = clock + 1
    BY DEF PruneNext, pruneVars, TickStep, TickStarts, AbandonStale, FindDue, ReadRule,
           SetRuleNext, BeginClaim, CommitClaim, VerifyClaim, RunRule, BootPrune, CrashPrune,
           StartStep, StartJob, InsertRun, InsertFails, TickFails, JobStep, FinishRun,
           RecordResult, EnableRule, EditRule, PruneClock
  <2> QED
    BY <2>1 DEF PruneTypeOK
<1>2. ASSUME UNCHANGED runs PROVE AbandonedDead'
  BY <1>0, <1>1, <1>2, PruneAssumption DEF AbandonedDead, Active, Run
<1>3. ASSUME NEW S, Abandon(S), \A i \in S \cap Active : runs[i].started + StaleRun < clock
      PROVE  AbandonedDead'
  <2>1. /\ DOMAIN runs' = DOMAIN runs
        /\ \A i \in DOMAIN runs :
              /\ runs'[i].code = runs[i].code /\ runs'[i].started = runs[i].started
              /\ runs'[i].status = runs[i].status \/ i \in S
    BY <1>3, SomeAbandoned
  <2>2. Active' = Active /\ \A i \in Active : runs[i].started \in Nat
    BY <1>0, <2>1 DEF Active, Run
  <2>3. ASSUME NEW i \in Active, runs'[i].status = "abandoned"
        PROVE  runs[i].started + StaleRun < clock
    BY <1>3, <2>1, <2>3 DEF AbandonedDead, Active
  <2> QED
    BY <1>1, <2>1, <2>2, <2>3, PruneAssumption DEF AbandonedDead, Active
<1>4. ASSUME NEW h \in PruneHosts, TickStep(h) PROVE AbandonedDead'
  <2>1. CASE AbandonStale(h)
    <3> DEFINE S == {i \in DOMAIN runs : runs[i].started + StaleRun < tickAt[h]}
    <3>0. tickAt[h] \in Int /\ clock \in Nat /\ tickAt[h] <= clock /\ StaleRun \in Nat
      BY PruneAssumption DEF Timely, PruneTypeOK
    <3>1. ASSUME NEW i \in S \cap Active PROVE runs[i].started + StaleRun < clock
      <4>1. runs[i].started \in Nat
        BY <1>0 DEF Run
      <4> QED
        BY <3>0, <4>1
    <3> QED
      BY <1>3, <2>1, <3>1 DEF AbandonStale
  <2> QED
    BY <1>2, <1>4, <2>1
       DEF TickStep, TickStarts, FindDue, ReadRule, SetRuleNext, BeginClaim, CommitClaim, VerifyClaim
<1>5. ASSUME NEW h \in PruneHosts, BootPrune(h) PROVE AbandonedDead'
  <2> DEFINE S == {i \in DOMAIN runs : runs[i].host = h}
  <2>1. S \cap Active = {}
    BY <1>5 DEF BootPrune, JobInv, Counted
  <2> QED
    BY <1>2, <1>3, <1>5, <2>1 DEF BootPrune
<1>6. ASSUME NEW h \in PruneHosts, CrashPrune(h) PROVE AbandonedDead'
  <2>1. /\ DOMAIN runs' = DOMAIN runs
        /\ \A i \in DOMAIN runs : /\ runs'[i].status = runs[i].status
                                  /\ runs'[i].started = runs[i].started
                                  /\ runs'[i].code \in {runs[i].code, "over"}
    BY <1>0, <1>6 DEF CrashPrune, Run
  <2>2. Active' \subseteq Active /\ \A i \in Active : runs[i].started \in Nat
    BY <1>0, <2>1 DEF Active, Run
  <2> QED
    BY <1>1, <2>1, <2>2, PruneAssumption DEF AbandonedDead, Active
<1>7. ASSUME NEW c \in Starts, StartStep(c) PROVE AbandonedDead'
  <2>1. CASE InsertRun(c)
    <3> DEFINE entry == [host |-> c[1], started |-> clock, status |-> "running",
                         code |-> "working"]
    <3>1. entry \in Run
      BY DEF Run, Starts, PruneTypeOK
    <3>2. /\ DOMAIN runs = 1..Len(runs) /\ DOMAIN runs' = 1..(Len(runs) + 1) /\ Len(runs) \in Nat
          /\ \A k \in DOMAIN runs : runs'[k] = runs[k]
          /\ runs'[Len(runs) + 1] = entry
      BY <2>1, <3>1, AppendProperties, LenProperties DEF InsertRun, JobInv
    <3>3. Active' = Active \cup {Len(runs) + 1} /\ \A i \in Active : runs[i].started \in Nat
      BY <1>0, <3>2 DEF Active, Run
    <3> QED
      BY <1>1, <3>2, <3>3, PruneAssumption DEF AbandonedDead, Active
  <2> QED
    BY <1>2, <1>7, <2>1 DEF StartStep, StartJob, InsertFails, TickFails
<1>8. ASSUME NEW i \in 1..MaxRuns, JobStep(i) PROVE AbandonedDead'
  <2>1. i \in DOMAIN runs /\ runs[i] \in Run
    BY <1>0, <1>8 DEF JobStep
  <2>2. /\ DOMAIN runs' = DOMAIN runs
        /\ \A k \in DOMAIN runs \ {i} : runs'[k] = runs[k]
        /\ runs'[i].code = "over" \/ runs'[i].status # "abandoned"
    BY <1>8, <2>1 DEF JobStep, FinishRun, RecordResult, Run
  <2>3. /\ Active' \subseteq Active \cup {i} /\ \A k \in Active : runs[k].started \in Nat
        /\ i \in Active' => runs'[i].status # "abandoned"
    BY <1>0, <2>1, <2>2 DEF Active, Run
  <2> QED
    BY <1>1, <2>2, <2>3, PruneAssumption DEF AbandonedDead, Active
<1> QED
  BY <1>2, <1>4, <1>5, <1>6, <1>7, <1>8
     DEF PruneNext, pruneVars, RunRule, EnableRule, EditRule, PruneClock

\* The assumptions under which a slot is claimed once.
Orderly == ~Undetected /\ "stale" \notin PruneFaults

LEMMA StepSlots ==
  Orderly /\ PruneTypeOK /\ Timely /\ SlotInv /\ [PruneNext]_pruneVars => SlotInv'
<1> SUFFICES ASSUME Orderly, PruneTypeOK, Timely, SlotInv, [PruneNext]_pruneVars
             PROVE  SlotInv'
  OBVIOUS
<1> USE DEF Places
<1>0. /\ clock \in Nat /\ due \in Nat /\ claimed \in Nat /\ behind \subseteq PruneHosts
      /\ tickAt \in [PruneHosts -> Nat \cup {-1}]
  BY DEF PruneTypeOK
<1>1. ASSUME NEW h \in PruneHosts, TickStep(h) PROVE SlotInv'
  <2>0. Tick(h) \in Starts /\ \A g \in PruneHosts \ {h} : Tick(g) \in Starts \ {Tick(h)}
    BY TicksAreStarts, TicksDiffer
  <2>1. CASE TickStarts(h)
    <3>1. starting'[Tick(h)] = "tick" /\ \A g \in PruneHosts \ {h} : starting'[Tick(g)] = starting[Tick(g)]
      BY <2>0, <2>1, OneMoves DEF TickStarts
    <3>2. UNCHANGED <<clock, rule, behind>> /\ \A g \in PruneHosts \ {h} : tickAt'[g] = tickAt[g]
      BY <2>1, <1>0 DEF TickStarts
    <3> QED
      BY <3>1, <3>2 DEF SlotInv, rule
  <2>2. CASE AbandonStale(h) \/ FindDue(h) \/ VerifyClaim(h)
    <3>1. /\ starting'[Tick(h)] \notin {"claiming", "updating"}
          /\ \A g \in PruneHosts \ {h} : starting'[Tick(g)] = starting[Tick(g)]
      BY <2>0, <2>2, OneMoves DEF AbandonStale, FindDue, VerifyClaim
    <3>2. UNCHANGED <<clock, rule, behind, tickAt>>
      BY <2>2 DEF AbandonStale, FindDue, VerifyClaim
    <3> QED
      BY <3>1, <3>2 DEF SlotInv, rule
  <2>3. CASE ReadRule(h)
    <3>1. /\ starting'[Tick(h)] # "updating" /\ (due = 0 => starting'[Tick(h)] # "claiming")
          /\ \A g \in PruneHosts \ {h} : starting'[Tick(g)] = starting[Tick(g)]
      BY <2>0, <2>3, OneMoves DEF ReadRule
    <3>2. UNCHANGED <<clock, ruleOn, due, claimed, behind, tickAt>>
      BY <2>3 DEF ReadRule
    <3> QED
      BY <3>1, <3>2 DEF SlotInv
  <2>4. CASE SetRuleNext(h)
    <3>1. /\ starting[Tick(h)] = "setting" /\ starting'[Tick(h)] = "idle"
          /\ \A g \in PruneHosts \ {h} : starting'[Tick(g)] = starting[Tick(g)]
      BY <2>0, <2>4, OneMoves DEF SetRuleNext
    <3>2. UNCHANGED <<clock, claimed>> /\ due' = clock + 1
      BY <2>4, <3>1 DEF SetRuleNext, NextSlot, Timely, Scheduling
    <3>3. \A g \in PruneHosts : starting'[Tick(g)] = "updating" => g \in behind'
      BY <2>4, <3>1 DEF SetRuleNext, RuleWritten
    <3> QED
      BY <1>0, <3>2, <3>3 DEF SlotInv
  <2>5. CASE BeginClaim(h)
    <3>1. /\ starting[Tick(h)] = "claiming" /\ starting'[Tick(h)] \in {"updating", "idle"}
          /\ starting'[Tick(h)] = "updating" => ruleOn /\ due <= tickAt[h]
          /\ \A g \in PruneHosts \ {h} : starting'[Tick(g)] = starting[Tick(g)]
      BY <2>0, <2>5, OneMoves DEF BeginClaim
    <3>2. UNCHANGED <<clock, ruleOn, due, claimed, behind, tickAt>>
      BY <2>5 DEF BeginClaim, rule
    <3>3. starting'[Tick(h)] = "updating" => due \in 1..tickAt[h]
      BY <1>0, <3>1 DEF SlotInv
    <3>4. ruleOn => due # 0
      BY <3>1 DEF SlotInv
    <3> QED
      BY <3>1, <3>2, <3>3, <3>4 DEF SlotInv
  <2>6. CASE CommitClaim(h)
    <3>0. /\ starting[Tick(h)] = "updating" /\ starting'[Tick(h)] \in {"verifying", "idle"}
          /\ \A g \in PruneHosts \ {h} : starting'[Tick(g)] = starting[Tick(g)]
          /\ UNCHANGED <<clock, tickAt>>
      BY <2>0, <2>6, OneMoves DEF CommitClaim, ClaimCommits
    <3>1. CASE ClaimCommits(h)
      <4>1. h \notin behind /\ due' = tickAt[h] + 1 /\ claimed' = due
        BY <3>1 DEF ClaimCommits, Orderly, NextSlot
      <4>2. due \in 1..tickAt[h] /\ tickAt[h] \in Nat /\ tickAt[h] <= clock
        BY <3>0, <4>1 DEF SlotInv, Timely
      <4>3. \A g \in PruneHosts : starting'[Tick(g)] = "updating" => g \in behind'
        BY <3>0, <3>1 DEF ClaimCommits
      <4> QED
        BY <1>0, <3>0, <4>1, <4>2, <4>3 DEF SlotInv
    <3>2. CASE behind' = behind \ {h} /\ UNCHANGED rule
      BY <3>0, <3>2 DEF SlotInv, rule
    <3> QED
      BY <2>6, <3>1, <3>2 DEF CommitClaim
  <2> QED
    BY <1>1, <2>1, <2>2, <2>3, <2>4, <2>5, <2>6 DEF TickStep
<1>2. ASSUME NEW h \in PruneHosts, RunRule(h) PROVE SlotInv'
  <2>1. \A g \in PruneHosts : Tick(g) \in Starts \ {<<h, "manual">>}
    BY TicksAreStarts DEF Tick
  <2>2. \A g \in PruneHosts : starting'[Tick(g)] = starting[Tick(g)]
    BY <1>2, <2>1, OneMoves, TicksAreStarts DEF RunRule
  <2> QED
    BY <1>2, <2>2 DEF RunRule, SlotInv, rule
<1>3. ASSUME NEW h \in PruneHosts, BootPrune(h) PROVE SlotInv'
  BY <1>3 DEF BootPrune, SlotInv, rule
<1>4. ASSUME NEW h \in PruneHosts, CrashPrune(h) PROVE SlotInv'
  <2>1. /\ \A g \in PruneHosts \ {h} : starting'[Tick(g)] = starting[Tick(g)]
        /\ starting'[Tick(h)] = "idle"
    BY <1>4, TicksAreStarts DEF CrashPrune
  <2> QED
    BY <1>4, <2>1 DEF CrashPrune, SlotInv, rule
<1>5. ASSUME NEW c \in Starts, StartStep(c) PROVE SlotInv'
  <2>1. UNCHANGED <<clock, rule, tickAt>>
    BY <1>5 DEF StartStep, StartJob, InsertRun, InsertFails, TickFails
  <2>2. CASE TickFails(c)
    <3>1. \A g \in PruneHosts : IF Tick(g) = c THEN starting'[c] = "idle" ELSE starting'[Tick(g)] = starting[Tick(g)]
      BY <2>2, TicksAreStarts DEF TickFails, PruneTypeOK
    <3>2. \A g \in behind \ behind' : g \in PruneHosts => starting'[Tick(g)] = "idle"
      BY <2>2, <3>1, TicksAreStarts DEF TickFails
    <3> QED
      BY <1>0, <2>1, <3>1, <3>2 DEF SlotInv, rule
  <2>3. CASE StartJob(c) \/ InsertRun(c) \/ InsertFails(c)
    <3>1. \A d \in Starts : starting'[d] = starting[d] \/ starting'[d] \in {"inserting", "idle"}
      BY <2>3, OneMoves DEF StartJob, InsertRun, InsertFails
    <3>2. \A g \in PruneHosts : starting'[Tick(g)] = starting[Tick(g)]
                                \/ starting'[Tick(g)] \in {"inserting", "idle"}
      BY <3>1, TicksAreStarts
    <3>3. UNCHANGED behind
      BY <2>3 DEF StartJob, InsertRun, InsertFails
    <3> QED
      BY <2>1, <3>2, <3>3 DEF SlotInv, rule
  <2> QED
    BY <1>5, <2>2, <2>3 DEF StartStep
<1>6. ASSUME NEW i \in 1..MaxRuns, JobStep(i) PROVE SlotInv'
  BY <1>6 DEF JobStep, FinishRun, RecordResult, RuleWritten, SlotInv, rule
<1>7. CASE EnableRule
  BY <1>0, <1>7 DEF EnableRule, RuleWritten, NextSlot, SlotInv
<1>8. CASE EditRule
  BY <1>0, <1>8 DEF EditRule, RuleWritten, SlotInv, Orderly
<1>9. CASE PruneClock
  BY <1>0, <1>9 DEF PruneClock, SlotInv, rule
<1>10. CASE UNCHANGED pruneVars
  BY <1>10 DEF pruneVars, SlotInv
<1> QED
  BY <1>1, <1>2, <1>3, <1>4, <1>5, <1>6, <1>7, <1>8, <1>9, <1>10 DEF PruneNext

LEMMA InvInitially ==
  PruneInit => PruneTypeOK /\ JobInv /\ Timely /\ AbandonedDead /\ SlotInv
<1> SUFFICES ASSUME PruneInit PROVE PruneTypeOK /\ JobInv /\ Timely /\ AbandonedDead /\ SlotInv
  OBVIOUS
<1>1. PruneTypeOK
  BY TypeInitially
<1>2. Active = {}
  BY DEF PruneInit, Active
<1>3. \A h \in PruneHosts : starting[Tick(h)] = "idle"
  BY TicksAreStarts DEF PruneInit
<1>4. JobInv
  BY <1>1, <1>2 DEF PruneInit, PruneTypeOK, JobInv, LiveStarts, Counted, OneJobEach
<1>5. Timely /\ SlotInv
  BY <1>3 DEF PruneInit, Timely, Scheduling, SlotInv
<1> QED
  BY <1>1, <1>2, <1>4, <1>5 DEF AbandonedDead

\* The inductive invariant of the theorems that hold whatever goes wrong.
PruneInv == PruneTypeOK /\ JobInv /\ Timely /\ AbandonedDead

LEMMA PruneInvHolds == PruneSpec => []PruneInv
<1>1. PruneInit => PruneInv
  BY InvInitially DEF PruneInv
<1>2. PruneInv /\ [PruneNext]_pruneVars => PruneInv'
  BY StepPruneType, StepJobs, StepTimely, StepAbandoned DEF PruneInv
<1> QED
  BY <1>1, <1>2, PTL DEF PruneSpec

\* Every reachable state of the scheduler of prune rules is well typed, for any
\* gateways, faults and bounds.
THEOREM PruneTypeCorrect == PruneSpec => []PruneTypeOK
<1>1. PruneInv => PruneTypeOK
  BY DEF PruneInv
<1> QED
  BY <1>1, PruneInvHolds, PTL

\* Whatever its schedule and its administrators start at once, a gateway works on
\* the rule in one job at a time.
THEOREM OneJobAtATime == PruneSpec => []OneJobEach
<1>1. PruneInv => OneJobEach
  BY DEF PruneInv, JobInv
<1> QED
  BY <1>1, PruneInvHolds, PTL

\* The log never calls a job abandoned that is at work and not yet stale, on
\* whatever hosts gateways are restarted.
THEOREM OnlyDeadAbandoned == PruneSpec => []AbandonedDead
<1>1. PruneInv => AbandonedDead
  BY DEF PruneInv
<1> QED
  BY <1>1, PruneInvHolds, PTL

\* Only the tick of a gateway commits its claim, and only one that has not lost.
LEMMA ClaimStep ==
  ASSUME Orderly, PruneTypeOK, SlotInv, [PruneNext]_pruneVars, NEW h \in PruneHosts,
         starting[Tick(h)] = "updating", starting'[Tick(h)] = "verifying"
  PROVE  due > claimed
<1> USE DEF Places
<1>1. ClaimCommits(h)
  <2>0. Tick(h) \in Starts
    BY TicksAreStarts
  <2>1. ASSUME NEW g \in PruneHosts, TickStep(g) PROVE ClaimCommits(h)
    <3>1. CASE g = h
      BY <2>0, <2>1, <3>1, OneMoves DEF TickStep, TickStarts, AbandonStale, FindDue, ReadRule,
         SetRuleNext, BeginClaim, CommitClaim, VerifyClaim
    <3>2. CASE g # h
      <4>1. Tick(g) \in Starts /\ Tick(h) \in Starts \ {Tick(g)}
        BY <3>2, TicksAreStarts, TicksDiffer
      <4>2. starting'[Tick(h)] = starting[Tick(h)]
        BY <2>1, <4>1, OneMoves DEF TickStep, TickStarts, AbandonStale, FindDue, ReadRule,
           SetRuleNext, BeginClaim, CommitClaim, ClaimCommits, VerifyClaim
      <4> QED
        BY <4>2
    <3> QED
      BY <3>1, <3>2
  <2>2. ASSUME NEW g \in PruneHosts, RunRule(g) PROVE FALSE
    <3>1. Tick(h) \in Starts \ {<<g, "manual">>}
      BY TicksAreStarts DEF Tick
    <3> QED
      BY <2>2, <3>1, OneMoves, TicksAreStarts DEF RunRule
  <2>3. ASSUME NEW g \in PruneHosts, BootPrune(g) \/ CrashPrune(g) PROVE FALSE
    BY <2>0, <2>3 DEF BootPrune, CrashPrune
  <2>4. ASSUME NEW c \in Starts, StartStep(c) PROVE FALSE
    BY <2>0, <2>4, OneMoves DEF StartStep, StartJob, InsertRun, InsertFails, TickFails, PruneTypeOK
  <2>5. ASSUME NEW i \in 1..MaxRuns, JobStep(i) PROVE FALSE
    BY <2>5 DEF JobStep, FinishRun, RecordResult
  <2>6. CASE EnableRule \/ EditRule \/ PruneClock \/ UNCHANGED pruneVars
    BY <2>6 DEF EnableRule, EditRule, PruneClock, pruneVars
  <2> QED
    BY <2>1, <2>2, <2>3, <2>4, <2>5, <2>6 DEF PruneNext
<1>2. due \in 1..tickAt[h]
  BY <1>1 DEF ClaimCommits, Orderly, SlotInv
<1>3. tickAt[h] \in Int /\ due \in Nat /\ claimed \in Nat
  BY DEF PruneTypeOK
<1> QED
  BY <1>2, <1>3 DEF SlotInv

\* Where DuckLake rejects one of two overlapping updates and no edit stores a
\* next run that was claimed since it was read, every slot is claimed once.
THEOREM SlotClaimedOnce == Orderly => (PruneSpec => PruneSlotOnce)
<1> SUFFICES ASSUME Orderly PROVE PruneSpec => PruneSlotOnce
  OBVIOUS
<1>1. PruneInit => SlotInv
  BY InvInitially
<1>2. PruneInv /\ SlotInv /\ [PruneNext]_pruneVars => SlotInv'
  BY StepSlots DEF PruneInv
<1>3. PruneInv /\ SlotInv /\ [PruneNext]_pruneVars =>
        [\A h \in PruneHosts :
           starting[Tick(h)] = "updating" /\ starting'[Tick(h)] = "verifying"
             => due > claimed]_pruneVars
  BY ClaimStep DEF PruneInv
<1> QED
  BY <1>1, <1>2, <1>3, PruneInvHolds, PTL DEF PruneSpec, PruneSlotOnce

\* The run log of prune rules can be relied on: one job of a rule at a time on a
\* gateway, and none that is at work called abandoned.
THEOREM JobsAlwaysSafe == PruneSpec => []JobsSafe
  BY OneJobAtATime, OnlyDeadAbandoned, PTL DEF JobsSafe

----------------------------------------------------------------------------
(* Maintenance *)

USE MaintenanceAssumption DEF GatewayOf, TriggerOf, TriggerKinds

----------------------------------------------------------------------------
(* Types *)

\* NextAfter stays a time.
LEMMA NextAfterNat ==
  ASSUME NEW p \in Nat, NEW t \in Nat
  PROVE  NextAfter(p, t) \in Nat
  BY DEF NextAfter

LEMMA InitType == MaintInit => MaintTypeOK
<1> SUFFICES ASSUME MaintInit PROVE MaintTypeOK
  OBVIOUS
<1>1. nextRun \in Nat
  BY NextAfterNat, MaintenanceAssumption DEF MaintInit, Periods
<1> QED
  BY <1>1 DEF MaintInit, MaintTypeOK, Labels, Holding

LEMMA StepType == MaintTypeOK /\ [MaintNext]_mvars => MaintTypeOK'
<1> SUFFICES ASSUME MaintTypeOK, [MaintNext]_mvars PROVE MaintTypeOK'
  OBVIOUS
<1> USE MaintenanceAssumption DEF MaintTypeOK, Labels, Holding, StepTo, Leave,
    Continue, RowWritten, NoWrite, Overlapping, row, settings
<1>1. ASSUME NEW g \in Gateways, BootHost(g) PROVE MaintTypeOK'
  BY <1>1 DEF BootHost
<1>2. ASSUME NEW g \in Gateways, StartupCheck(g) PROVE MaintTypeOK'
  <2> DEFINE c == <<g, "startup">>
  <2>1. /\ c \in Activations
        /\ Continue(c, "config") \/ Leave(c)
        /\ UNCHANGED <<now, row, up, running, stale, taken>>
    BY <1>2 DEF StartupCheck
  <2> HIDE DEF c
  <2> QED
    BY <2>1
<1>3. ASSUME NEW g \in Gateways, RunNow(g) PROVE MaintTypeOK'
  BY <1>3 DEF RunNow
<1>4. ASSUME NEW g \in Gateways, TimerFires(g) PROVE MaintTypeOK'
  BY <1>4 DEF TimerFires
<1>5. ASSUME NEW g \in Gateways, TickReads(g) PROVE MaintTypeOK'
  <2>1. NextAfter(period, now) \in Nat
    BY NextAfterNat, MaintenanceAssumption DEF MaintTypeOK, Periods
  <2> QED
    <3> DEFINE c == <<g, "schedule">>
    <3>1. /\ c \in Activations
          /\ \/ /\ StepTo(c, "setting") /\ UNCHANGED at
                /\ next' = [next EXCEPT ![c] = NextAfter(period, now)]
             \/ Continue(c, "config")
             \/ Leave(c)
          /\ UNCHANGED <<now, row, up, running, stale, taken>>
      BY <1>5 DEF TickReads
    <3> HIDE DEF c
    <3> QED
      BY <2>1, <3>1
<1>6. ASSUME NEW g \in Gateways, SetNextRun(g) PROVE MaintTypeOK'
  BY <1>6 DEF SetNextRun
<1>7. ASSUME NEW c \in Activations, ReadConfig(c) PROVE MaintTypeOK'
  <2>1. NextAfter(period, now) \in Nat
    BY NextAfterNat, MaintenanceAssumption DEF MaintTypeOK, Periods
  <2> QED
    BY <1>7, <2>1 DEF ReadConfig
<1>8. ASSUME NEW c \in Activations, BeginUpdate(c) PROVE MaintTypeOK'
  BY <1>8 DEF BeginUpdate
<1>9. ASSUME NEW c \in Activations, CommitUpdate(c) PROVE MaintTypeOK'
  BY <1>9, SMTT(60) DEF CommitUpdate, ClaimRow
<1>10. ASSUME NEW c \in Activations, Verify(c) PROVE MaintTypeOK'
  BY <1>10 DEF Verify
<1>11. ASSUME NEW c \in Activations, RecordRun(c) PROVE MaintTypeOK'
  BY <1>11 DEF RecordRun
<1>12. ASSUME NEW c \in Activations, RecordFails(c) PROVE MaintTypeOK'
  BY <1>12 DEF RecordFails
<1>13. ASSUME NEW c \in Activations, CallFails(c) PROVE MaintTypeOK'
  BY <1>13 DEF CallFails
<1>14. ASSUME NEW c \in Activations, WorkEnds(c) PROVE MaintTypeOK'
  BY <1>14 DEF WorkEnds
<1>15. ASSUME NEW c \in Activations, Finish(c) PROVE MaintTypeOK'
  BY <1>15 DEF Finish, ReleaseLease
<1>16. ASSUME NEW c \in Activations, CloseJob(c) PROVE MaintTypeOK'
  BY <1>16 DEF CloseJob
<1>17. ASSUME NEW b \in BOOLEAN, NEW p \in Periods, SaveSchedule(b, p) PROVE MaintTypeOK'
  <2>1. NextAfter(p, now) \in Nat
    BY NextAfterNat, MaintenanceAssumption DEF MaintTypeOK, Periods
  <2> QED
    BY <1>17, <2>1 DEF SaveSchedule
<1>18. ASSUME NEW g \in Gateways, CrashHost(g) PROVE MaintTypeOK'
  BY <1>18 DEF CrashHost
<1>19. ASSUME ClockTick PROVE MaintTypeOK'
  BY <1>19 DEF ClockTick
<1>20. ASSUME UNCHANGED mvars PROVE MaintTypeOK'
  BY <1>20 DEF mvars
<1> QED
  BY <1>1, <1>2, <1>3, <1>4, <1>5, <1>6, <1>7, <1>8, <1>9, <1>10, <1>11, <1>12,
     <1>13, <1>14, <1>15, <1>16, <1>17, <1>18, <1>19, <1>20 DEF MaintNext, TimerStep, CallerStep

\* Every variable keeps its type: in particular the lease, the next run and
\* the locals of a claim stay times, and the token names a caller.
THEOREM MaintTypeCorrect == MaintSpec => []MaintTypeOK
  BY InitType, StepType, PTL DEF MaintSpec

----------------------------------------------------------------------------
(* Runs never overlap *)

\* DuckLake rejects the later of two overlapping claims, and a job is over
\* before its lease is.
Exclusion == Conflicts /\ "slow" \notin MaintFaults

Holders == {c \in Activations :
              step[c] \in {"verifying", "recording", "working", "finishing", "unrecorded"}}

Alive == \A c \in Activations : step[c] # "idle" => GatewayOf(c) \in up
JobsInTime == \A c \in Activations : step[c] \in Holding => at[c] <= now /\ at[c] + Lease > now
HoldersHold == \A c \in Holders : token = c /\ lease = at[c] + Lease
FreshClaims == \A c \in Activations : step[c] = "updating" /\ c \notin stale => lease <= at[c]

\* The inductive invariant.  HoldersHold says that a caller whose claim was
\* committed is named by the row until its job is over.  It stays so because a
\* claim that may still commit found the lease free (FreshClaims), while the
\* lease of a holder lies in the future (JobsInTime), and because a starting gateway
\* frees only leases of a process that is gone (Alive).
MaintInv ==
  /\ MaintTypeOK
  /\ Alive
  /\ JobsInTime
  /\ HoldersHold
  /\ FreshClaims

LEMMA MaintInvNoOverlap == MaintInv => NoOverlap
  BY DEF MaintInv, HoldersHold, Holders, NoOverlap, AtWork

LEMMA InitMaintInv == MaintInit => MaintInv
  BY InitType DEF MaintInit, MaintInv, Alive, JobsInTime, HoldersHold, Holders, FreshClaims, Holding

\* Every caller that does anything belongs to a running process.
LEMMA StepAlive == MaintTypeOK /\ Alive /\ [MaintNext]_mvars => Alive'
<1> SUFFICES ASSUME MaintTypeOK, Alive, [MaintNext]_mvars PROVE Alive'
  OBVIOUS
<1> USE DEF MaintTypeOK, Alive, StepTo, Leave, Continue
<1>1. ASSUME NEW g \in Gateways, BootHost(g) PROVE Alive'
  BY <1>1 DEF BootHost
<1>2. ASSUME NEW g \in Gateways, StartupCheck(g) PROVE Alive'
  BY <1>2 DEF StartupCheck
<1>3. ASSUME NEW g \in Gateways, RunNow(g) PROVE Alive'
  BY <1>3 DEF RunNow
<1>4. ASSUME NEW g \in Gateways, TimerFires(g) PROVE Alive'
  BY <1>4 DEF TimerFires
<1>5. ASSUME NEW g \in Gateways, TickReads(g) PROVE Alive'
  <2>1. /\ UNCHANGED up
        /\ \A c \in Activations : step'[c] # "idle" => step[c] # "idle"
    BY <1>5 DEF TickReads
  <2> QED
    BY <2>1
<1>6. ASSUME NEW g \in Gateways, SetNextRun(g) PROVE Alive'
  BY <1>6 DEF SetNextRun
<1>7. ASSUME NEW c \in Activations, CallerStep(c) PROVE Alive'
  <2>1. /\ UNCHANGED up
        /\ \A d \in Activations : step'[d] # "idle" => step[d] # "idle"
    BY <1>7 DEF CallerStep, ReadConfig, BeginUpdate, CommitUpdate, Verify, RecordRun,
                RecordFails, CallFails, WorkEnds, Finish, CloseJob
  <2> QED
    BY <2>1
<1>8. ASSUME NEW b \in BOOLEAN, NEW p \in Periods, SaveSchedule(b, p) PROVE Alive'
  BY <1>8 DEF SaveSchedule
<1>9. ASSUME NEW g \in Gateways, CrashHost(g) PROVE Alive'
  BY <1>9 DEF CrashHost
<1>10. ASSUME ClockTick \/ UNCHANGED mvars PROVE Alive'
  BY <1>10 DEF ClockTick, mvars
<1> QED
  BY <1>1, <1>2, <1>3, <1>4, <1>5, <1>6, <1>7, <1>8, <1>9, <1>10 DEF MaintNext, TimerStep

\* Nobody is between reading the time and the end of its job beyond its lease.
LEMMA StepJobsInTime == Exclusion /\ MaintTypeOK /\ JobsInTime /\ [MaintNext]_mvars => JobsInTime'
<1> SUFFICES ASSUME Exclusion, MaintTypeOK, JobsInTime, [MaintNext]_mvars PROVE JobsInTime'
  OBVIOUS
<1> USE DEF MaintTypeOK, StepTo, Leave, Continue, Holding
<1> DEFINE Kept == \A c \in Activations :
                     step'[c] \in Holding => step[c] \in Holding /\ at'[c] = at[c]
<1>1. ASSUME Kept, UNCHANGED now PROVE JobsInTime'
  BY <1>1 DEF JobsInTime
<1>2. ASSUME NEW g \in Gateways,
             BootHost(g) \/ StartupCheck(g) \/ RunNow(g) \/ TimerFires(g)
      PROVE  JobsInTime'
  <2>1. Kept /\ UNCHANGED now
    BY <1>2, SMTT(60) DEF BootHost, StartupCheck, RunNow, TimerFires
  <2> QED
    BY <1>1, <2>1
<1>3. ASSUME NEW g \in Gateways, TickReads(g) \/ SetNextRun(g) \/ CrashHost(g) PROVE JobsInTime'
  <2>1. Kept /\ UNCHANGED now
    BY <1>3, ZenonT(60) DEF TickReads, SetNextRun, CrashHost
  <2> QED
    BY <1>1, <2>1
<1>4. ASSUME NEW c \in Activations, ReadConfig(c) PROVE JobsInTime'
  BY <1>4, MaintenanceAssumption DEF ReadConfig, JobsInTime
<1>5. ASSUME NEW c \in Activations, CallerStep(c), ~ReadConfig(c) PROVE JobsInTime'
  <2>1. Kept /\ UNCHANGED now
    BY <1>5 DEF CallerStep, BeginUpdate, CommitUpdate, Verify, RecordRun,
                RecordFails, CallFails, WorkEnds, Finish, CloseJob
  <2> QED
    BY <1>1, <2>1
<1>6. ASSUME NEW b \in BOOLEAN, NEW p \in Periods, SaveSchedule(b, p) PROVE JobsInTime'
  BY <1>6 DEF SaveSchedule, JobsInTime
<1>7. ASSUME ClockTick PROVE JobsInTime'
  BY <1>7 DEF ClockTick, JobsInTime, Exclusion
<1>8. ASSUME UNCHANGED mvars PROVE JobsInTime'
  BY <1>8 DEF mvars, JobsInTime
<1> QED
  BY <1>2, <1>3, <1>4, <1>5, <1>6, <1>7, <1>8 DEF MaintNext, TimerStep

\* A committed claim stays in the row until its job is over.
LEMMA StepHoldersHold == Exclusion /\ MaintInv /\ [MaintNext]_mvars => HoldersHold'
<1> SUFFICES ASSUME Exclusion, MaintInv, [MaintNext]_mvars PROVE HoldersHold'
  OBVIOUS
<1> USE DEF MaintInv, MaintTypeOK, StepTo, Leave, Continue, Holders
<1> DEFINE Kept == \A c \in Holders' : c \in Holders /\ at'[c] = at[c]
<1>1. ASSUME Kept, UNCHANGED <<token, lease>> PROVE HoldersHold'
  BY <1>1 DEF HoldersHold
<1>2. ASSUME NEW g \in Gateways, BootHost(g) PROVE HoldersHold'
  <2>1. Kept
    BY <1>2 DEF BootHost
  <2>2. ASSUME NEW c \in Holders' PROVE token' = c /\ lease' = at'[c] + Lease
    <3>1. token = c /\ lease = at[c] + Lease /\ at'[c] = at[c]
      BY <2>1, <2>2 DEF HoldersHold
    <3>2. GatewayOf(c) # g
      BY <2>1, <2>2, <1>2 DEF Alive, BootHost
    <3> QED
      BY <1>2, <3>1, <3>2 DEF BootHost, NoWrite, row
  <2> QED
    BY <2>2 DEF HoldersHold
<1>3. ASSUME NEW g \in Gateways, StartupCheck(g) \/ RunNow(g) \/ TimerFires(g)
      PROVE  HoldersHold'
  <2>1. Kept /\ UNCHANGED <<token, lease>>
    BY <1>3 DEF StartupCheck, RunNow, TimerFires, row
  <2> QED
    BY <1>1, <2>1
<1>4. ASSUME NEW g \in Gateways, TickReads(g) \/ SetNextRun(g) \/ CrashHost(g)
      PROVE  HoldersHold'
  <2>1. Kept /\ UNCHANGED <<token, lease>>
    BY <1>4 DEF TickReads, SetNextRun, CrashHost, row
  <2> QED
    BY <1>1, <2>1
<1>5. ASSUME NEW c \in Activations, CommitUpdate(c) PROVE HoldersHold'
  <2>1. CASE c \notin stale /\ Continue(c, "verifying") /\ ClaimRow(c)
    <3>1. lease <= at[c] /\ at[c] <= now
      BY <1>5, <2>1 DEF CommitUpdate, FreshClaims, JobsInTime, Holding
    <3>2. Holders = {}
      BY <3>1 DEF HoldersHold, JobsInTime, Holding
    <3>3. Holders' \subseteq {c}
      BY <2>1, <3>2
    <3> QED
      BY <2>1, <3>3 DEF HoldersHold, ClaimRow
  <2>2. CASE Leave(c) /\ UNCHANGED <<row, taken>>
    BY <1>1, <2>2 DEF row
  <2> QED
    BY <1>5, <2>1, <2>2 DEF CommitUpdate, Exclusion
<1>6. ASSUME NEW c \in Activations, Finish(c) PROVE HoldersHold'
  <2>1. Kept /\ c \notin Holders'
    BY <1>6 DEF Finish
  <2>2. CASE token = c
    BY <2>1, <2>2 DEF HoldersHold
  <2>3. CASE token # c
    BY <1>1, <1>6, <2>1, <2>3 DEF Finish, ReleaseLease, NoWrite, row
  <2> QED
    BY <2>2, <2>3
<1>7. ASSUME NEW c \in Activations, CallerStep(c), ~CommitUpdate(c), ~Finish(c)
      PROVE  HoldersHold'
  <2>1. Kept /\ UNCHANGED <<token, lease>>
    BY <1>7 DEF CallerStep, ReadConfig, BeginUpdate, Verify, RecordRun,
                RecordFails, CallFails, WorkEnds, CloseJob, row
  <2> QED
    BY <1>1, <2>1
<1>8. ASSUME NEW b \in BOOLEAN, NEW p \in Periods, SaveSchedule(b, p) PROVE HoldersHold'
  BY <1>1, <1>8 DEF SaveSchedule
<1>9. ASSUME ClockTick \/ UNCHANGED mvars PROVE HoldersHold'
  BY <1>1, <1>9 DEF ClockTick, mvars, row
<1> QED
  BY <1>2, <1>3, <1>4, <1>5, <1>6, <1>7, <1>8, <1>9 DEF MaintNext, TimerStep

\* A claim that can still commit saw the lease as it is.
LEMMA StepFreshClaims == MaintInv /\ [MaintNext]_mvars => FreshClaims'
<1> SUFFICES ASSUME MaintInv, [MaintNext]_mvars PROVE FreshClaims'
  OBVIOUS
<1> USE DEF MaintInv, MaintTypeOK, StepTo, Leave, Continue
<1> DEFINE Kept == /\ \A c \in Activations : step'[c] = "updating" =>
                        step[c] = "updating" /\ at'[c] = at[c]
                        /\ (c \in stale => c \in stale')
<1>1. ASSUME Kept, UNCHANGED lease PROVE FreshClaims'
  BY <1>1 DEF FreshClaims
<1>2. ASSUME Kept, RowWritten PROVE FreshClaims'
  BY <1>2 DEF FreshClaims, RowWritten
<1>3. ASSUME NEW g \in Gateways, BootHost(g) PROVE FreshClaims'
  <2>1. Kept
    BY <1>3 DEF BootHost, RowWritten, NoWrite
  <2> QED
    BY <1>1, <1>2, <1>3, <2>1 DEF BootHost, NoWrite, row
<1>4. ASSUME NEW g \in Gateways, StartupCheck(g) \/ RunNow(g) \/ TimerFires(g)
      PROVE  FreshClaims'
  <2>1. Kept /\ UNCHANGED lease
    BY <1>4 DEF StartupCheck, RunNow, TimerFires, row
  <2> QED
    BY <1>1, <2>1
<1>5. ASSUME NEW g \in Gateways, TickReads(g) \/ SetNextRun(g) \/ CrashHost(g)
      PROVE  FreshClaims'
  <2>1. Kept /\ UNCHANGED lease
    BY <1>5, ZenonT(60) DEF TickReads, SetNextRun, CrashHost, RowWritten, row
  <2> QED
    BY <1>1, <2>1
<1>6. ASSUME NEW c \in Activations, BeginUpdate(c) PROVE FreshClaims'
  BY <1>6 DEF BeginUpdate, Claimable, LeaseFree, FreshClaims, row
<1>7. ASSUME NEW c \in Activations, CommitUpdate(c) PROVE FreshClaims'
  <2>1. CASE Continue(c, "verifying") /\ ClaimRow(c)
    BY <2>1 DEF ClaimRow, Overlapping, FreshClaims
  <2>2. CASE Leave(c) /\ stale' = stale \ {c} /\ UNCHANGED <<row, taken>>
    <3>1. Kept /\ UNCHANGED lease
      BY <2>2 DEF row
    <3> QED
      BY <1>1, <3>1
  <2> QED
    BY <1>7, <2>1, <2>2 DEF CommitUpdate
<1>8. ASSUME NEW c \in Activations, Finish(c) PROVE FreshClaims'
  <2>1. Kept
    BY <1>8 DEF Finish, ReleaseLease, RowWritten, NoWrite
  <2> QED
    BY <1>1, <1>2, <1>8, <2>1 DEF Finish, ReleaseLease, NoWrite, row
<1>9. ASSUME NEW c \in Activations, CallerStep(c), ~BeginUpdate(c), ~CommitUpdate(c),
             ~Finish(c)
      PROVE  FreshClaims'
  <2>1. Kept /\ UNCHANGED lease
    BY <1>9 DEF CallerStep, ReadConfig, Verify, RecordRun,
                RecordFails, CallFails, WorkEnds, CloseJob, row
  <2> QED
    BY <1>1, <2>1
<1>10. ASSUME NEW b \in BOOLEAN, NEW p \in Periods, SaveSchedule(b, p) PROVE FreshClaims'
  BY <1>1, <1>10 DEF SaveSchedule, RowWritten
<1>11. ASSUME ClockTick \/ UNCHANGED mvars PROVE FreshClaims'
  BY <1>1, <1>11 DEF ClockTick, mvars, row
<1> QED
  BY <1>3, <1>4, <1>5, <1>6, <1>7, <1>8, <1>9, <1>10, <1>11 DEF MaintNext, TimerStep

LEMMA StepMaintInv == Exclusion /\ MaintInv /\ [MaintNext]_mvars => MaintInv'
  BY StepType, StepAlive, StepJobsInTime, StepHoldersHold, StepFreshClaims DEF MaintInv

\* Maintenance runs never overlap, on any number of gateways: provided that
\* overlapping UPDATEs are not both committed and that no run outlives its lease.
THEOREM NeverOverlap == Exclusion => (MaintSpec => []NoOverlap)
<1> SUFFICES ASSUME Exclusion PROVE MaintSpec => []NoOverlap
  OBVIOUS
<1>1. MaintInit => MaintInv
  BY InitMaintInv
<1>2. MaintInv /\ [MaintNext]_mvars => MaintInv'
  BY StepMaintInv
<1>3. MaintInv => NoOverlap
  BY MaintInvNoOverlap
<1> QED
  BY <1>1, <1>2, <1>3, PTL DEF MaintSpec

----------------------------------------------------------------------------
(* Leases and flags *)

\* A step that gives the lease back is the end of the job that held it or the
\* start of its gateway.
LEMMA ReleaseStep ==
  ASSUME MaintTypeOK, Alive, [MaintNext]_mvars, lease # 0, lease' = 0
  PROVE  token \notin AtWork \cup AtWork'
<1> USE DEF MaintTypeOK, StepTo, Leave, Continue, AtWork
<1>1. ASSUME NEW g \in Gateways, BootHost(g) PROVE token \notin AtWork \cup AtWork'
  <2>1. GatewayOf(token) = g /\ g \notin up
    BY <1>1 DEF BootHost, NoWrite, row
  <2> QED
    BY <1>1, <2>1 DEF BootHost, Alive
<1>2. ASSUME NEW c \in Activations, Finish(c) PROVE token \notin AtWork \cup AtWork'
  BY <1>2 DEF Finish, ReleaseLease, NoWrite, row
<1>3. ASSUME NEW c \in Activations, CommitUpdate(c) PROVE FALSE
  BY <1>3, MaintenanceAssumption DEF CommitUpdate, ClaimRow, row
<1>4. ASSUME NEW c \in Activations, CallerStep(c), ~Finish(c), ~CommitUpdate(c)
      PROVE  FALSE
  BY <1>4 DEF CallerStep, ReadConfig, BeginUpdate, Verify, RecordRun, RecordFails,
              CallFails, WorkEnds, CloseJob, row
<1>5. ASSUME NEW g \in Gateways,
             \/ StartupCheck(g) \/ RunNow(g) \/ TimerFires(g) \/ TickReads(g)
             \/ SetNextRun(g) \/ CrashHost(g)
      PROVE  FALSE
  BY <1>5 DEF StartupCheck, RunNow, TimerFires, TickReads, SetNextRun, CrashHost, row
<1>6. ASSUME NEW b \in BOOLEAN, NEW p \in Periods, SaveSchedule(b, p) PROVE FALSE
  BY <1>6 DEF SaveSchedule
<1>7. ASSUME ClockTick \/ UNCHANGED mvars PROVE FALSE
  BY <1>7 DEF ClockTick, mvars, row
<1> QED
  BY <1>1, <1>2, <1>3, <1>4, <1>5, <1>6, <1>7 DEF MaintNext, TimerStep

\* Nobody frees the lease of a job that is at work, whatever crashes or fails,
\* however long jobs take and whatever DuckLake does to overlapping UPDATEs.
THEOREM LeaseKept == MaintSpec => LeaseReleasedByHolder
<1>1. MaintInit => MaintTypeOK /\ Alive
  BY InitMaintInv DEF MaintInv
<1>2. MaintTypeOK /\ Alive /\ [MaintNext]_mvars => (MaintTypeOK /\ Alive)'
  BY StepType, StepAlive
<1>3. MaintTypeOK /\ Alive /\ [MaintNext]_mvars
        => [lease # 0 /\ lease' = 0 => token \notin AtWork \cup AtWork']_mvars
  BY ReleaseStep
<1> QED
  BY <1>1, <1>2, <1>3, PTL DEF MaintSpec, LeaseReleasedByHolder

Jobs == {c \in Activations : step[c] \in {"recording", "working", "finishing", "closing"}}

\* A job is left only with the flag of its gateway cleared.
LEMMA StepFlag == MaintTypeOK /\ Alive /\ FlagNotStuck /\ [MaintNext]_mvars => FlagNotStuck'
<1> SUFFICES ASSUME MaintTypeOK, Alive, FlagNotStuck, [MaintNext]_mvars PROVE FlagNotStuck'
  OBVIOUS
<1> USE DEF MaintTypeOK, StepTo, Leave, Continue
<1>1. ASSUME running' \subseteq running,
             \A c \in Jobs : c \in Jobs' \/ GatewayOf(c) \notin running'
      PROVE  FlagNotStuck'
  BY <1>1 DEF FlagNotStuck, Jobs
<1>2. ASSUME NEW g \in Gateways, BootHost(g) PROVE FlagNotStuck'
  BY <1>1, <1>2 DEF BootHost, Jobs, Alive
<1>3. ASSUME NEW g \in Gateways, StartupCheck(g) \/ RunNow(g) \/ TimerFires(g)
      PROVE  FlagNotStuck'
  BY <1>1, <1>3 DEF StartupCheck, RunNow, TimerFires, Jobs
<1>4. ASSUME NEW g \in Gateways, TickReads(g) \/ SetNextRun(g) PROVE FlagNotStuck'
  <2>1. UNCHANGED running /\ Jobs \subseteq Jobs'
    BY <1>4 DEF TickReads, SetNextRun, Jobs
  <2> QED
    BY <1>1, <2>1
<1>5. ASSUME NEW g \in Gateways, CrashHost(g) PROVE FlagNotStuck'
  BY <1>1, <1>5 DEF CrashHost, Jobs
<1>6. ASSUME NEW c \in Activations, Verify(c) PROVE FlagNotStuck'
  <2>1. CASE Continue(c, "recording") /\ running' = running \cup {GatewayOf(c)}
    <3>1. Jobs' = Jobs \cup {c}
      BY <1>6, <2>1 DEF Verify, Jobs
    <3> QED
      BY <2>1, <3>1 DEF FlagNotStuck, Jobs
  <2>2. CASE Leave(c) /\ UNCHANGED running
    BY <1>1, <1>6, <2>2 DEF Verify, Jobs
  <2> QED
    BY <1>6, <2>1, <2>2 DEF Verify
<1>7. ASSUME NEW c \in Activations, RecordFails(c) \/ CloseJob(c) PROVE FlagNotStuck'
  BY <1>1, <1>7 DEF RecordFails, CloseJob, Jobs
<1>8. ASSUME NEW c \in Activations, Finish(c) PROVE FlagNotStuck'
  BY <1>1, <1>8 DEF Finish, Jobs
<1>9. ASSUME NEW c \in Activations, CallerStep(c), ~Verify(c), ~RecordFails(c),
             ~CloseJob(c), ~Finish(c)
      PROVE  FlagNotStuck'
  <2>1. UNCHANGED running /\ Jobs \subseteq Jobs'
    BY <1>9 DEF CallerStep, ReadConfig, BeginUpdate, CommitUpdate, RecordRun, CallFails,
                WorkEnds, Jobs
  <2> QED
    BY <1>1, <2>1
<1>10. ASSUME NEW b \in BOOLEAN, NEW p \in Periods, SaveSchedule(b, p) PROVE FlagNotStuck'
  BY <1>1, <1>10 DEF SaveSchedule, Jobs
<1>11. ASSUME ClockTick \/ UNCHANGED mvars PROVE FlagNotStuck'
  BY <1>1, <1>11 DEF ClockTick, mvars, Jobs
<1> QED
  BY <1>2, <1>3, <1>4, <1>5, <1>6, <1>7, <1>8, <1>9, <1>10, <1>11 DEF MaintNext, TimerStep, CallerStep

\* A gateway never keeps its running flag set when no job of it is left.
THEOREM FlagClears == MaintSpec => []FlagNotStuck
<1>1. MaintInit => MaintTypeOK /\ Alive /\ FlagNotStuck
  BY InitMaintInv DEF MaintInit, MaintInv, FlagNotStuck
<1>2. MaintTypeOK /\ Alive /\ FlagNotStuck /\ [MaintNext]_mvars => (MaintTypeOK /\ Alive /\ FlagNotStuck)'
  BY StepType, StepAlive, StepFlag
<1> QED
  BY <1>1, <1>2, PTL DEF MaintSpec

\* What the scheduler of maintenance keeps safe: no two runs at once, no flag of a
\* gateway left up, no lease taken from a job at work.
THEOREM SchedulingSafe == Exclusion => (MaintSpec => MaintSafe)
<1> SUFFICES ASSUME Exclusion PROVE MaintSpec => MaintSafe
  OBVIOUS
<1>1. MaintSpec => []NoOverlap
  BY NeverOverlap
<1> QED
  BY <1>1, FlagClears, LeaseKept, PTL DEF MaintSafe

----------------------------------------------------------------------------
(* Each slot is claimed once *)

\* DuckLake rejects the later of two overlapping claims, nobody starts a run by
\* hand or at start-up, which would store the next run as it was read, and a
\* schedule that never comes is not replaced by one that does.
Regular ==
  /\ Conflicts /\ NeverIsFinal
  /\ \A c \in Activations : TriggerOf(c) = "schedule"

\* The slot that is stored was not claimed yet, a claim that can still commit saw
\* it due, and what it will store comes later.
MaintSlots ==
  /\ taken <= now
  /\ enabled => nextRun # 0
  /\ nextRun # 0 => nextRun > taken
  /\ \A c \in Activations :
       /\ step[c] # "setting"
       /\ step[c] \in {"claiming", "updating"} => at[c] <= now /\ next[c] > at[c]
       /\ step[c] = "updating" /\ c \notin stale => Due(at[c])

\* It holds until a schedule is saved that never comes.
SlotsInv == period # 0 => MaintSlots

\* The next run of a schedule that comes again is later.
LEMMA NextAfterLater ==
  ASSUME NEW p \in Nat, p # 0, NEW t \in Nat
  PROVE  NextAfter(p, t) \in Nat /\ NextAfter(p, t) > t
<1>1. t = p * (t \div p) + (t % p) /\ t % p < p /\ t \div p \in Nat
  OBVIOUS
<1> DEFINE q == t \div p
<1>2. (q + 1) * p = p * q + p /\ p * q \in Nat
  <2>1. q \in Nat
    BY <1>1
  <2> HIDE DEF q
  <2> QED
    BY <2>1
<1> QED
  BY <1>1, <1>2 DEF NextAfter

LEMMA InitSlots == MaintInit => SlotsInv
<1> SUFFICES ASSUME MaintInit PROVE MaintSlots
  BY DEF SlotsInv
<1>1. period \in Nat /\ period # 0
  BY DEF MaintInit, Periods
<1>2. NextAfter(period, 0) > 0
  BY <1>1, NextAfterLater
<1> QED
  BY <1>2 DEF MaintInit, MaintSlots

LEMMA StepMaintSlots ==
  Regular /\ MaintTypeOK /\ SlotsInv /\ [MaintNext]_mvars => SlotsInv'
<1> SUFFICES ASSUME Regular, MaintTypeOK, SlotsInv, [MaintNext]_mvars, period' # 0
             PROVE  MaintSlots'
  BY DEF SlotsInv
<1> USE DEF MaintTypeOK, StepTo, Leave, Continue
<1>1. period # 0 /\ MaintSlots
  <2>1. ASSUME NEW b \in BOOLEAN, NEW p \in Periods, SaveSchedule(b, p) PROVE period # 0
    BY <2>1 DEF SaveSchedule, Regular
  <2>2. ASSUME ~\E b \in BOOLEAN, p \in Periods : SaveSchedule(b, p) PROVE period' = period
    <3>1. ASSUME NEW g \in Gateways, BootHost(g) \/ TimerStep(g) \/ RunNow(g) \/ CrashHost(g)
          PROVE  period' = period
      BY <3>1 DEF BootHost, TimerStep, StartupCheck, TimerFires, TickReads, SetNextRun,
         RunNow, CrashHost, NoWrite, row, settings
    <3>2. ASSUME NEW c \in Activations, CallerStep(c) PROVE period' = period
      BY <3>2 DEF CallerStep, ReadConfig, BeginUpdate, CommitUpdate, ClaimRow, Verify, RecordRun,
         RecordFails, CallFails, WorkEnds, Finish, ReleaseLease, CloseJob, NoWrite, row, settings
    <3>3. ASSUME ClockTick \/ UNCHANGED mvars PROVE period' = period
      BY <3>3 DEF ClockTick, mvars, row
    <3> QED
      BY <2>2, <3>1, <3>2, <3>3 DEF MaintNext
  <2> QED
    BY <2>1, <2>2 DEF SlotsInv
<1> DEFINE Kept == \A c \in Activations :
       /\ step'[c] = "setting" => step[c] = "setting"
       /\ step'[c] \in {"claiming", "updating"} =>
            step[c] \in {"claiming", "updating"} /\ at'[c] = at[c] /\ next'[c] = next[c]
       /\ step'[c] = "updating" =>
            step[c] = "updating" /\ (c \in stale => c \in stale')
<1>2. ASSUME Kept, UNCHANGED <<now, enabled, nextRun, taken>> PROVE MaintSlots'
  BY <1>1, <1>2 DEF MaintSlots, Due
<1> HIDE DEF Kept
<1>3. ASSUME NEW g \in Gateways, BootHost(g) PROVE MaintSlots'
  <2>1. UNCHANGED <<now, enabled, nextRun, taken, at, next>>
    BY <1>3 DEF BootHost, NoWrite, row, settings
  <2>2. Kept
    BY <1>3, <2>1 DEF BootHost, RowWritten, NoWrite, Kept
  <2> QED
    BY <1>2, <2>1, <2>2
<1>4. ASSUME NEW g \in Gateways, StartupCheck(g) \/ RunNow(g) \/ TimerFires(g) PROVE MaintSlots'
  <2>1. Kept /\ UNCHANGED <<now, enabled, nextRun, taken>>
    BY <1>4, ZenonT(60) DEF StartupCheck, RunNow, TimerFires, row, Kept
  <2> QED
    BY <1>2, <2>1
<1>5. ASSUME NEW g \in Gateways, TickReads(g) PROVE MaintSlots'
  <2>1. ~(enabled /\ nextRun = 0)
    BY <1>1 DEF MaintSlots
  <2>2. Kept /\ UNCHANGED <<now, enabled, nextRun, taken>>
    BY <1>5, <2>1, ZenonT(60) DEF TickReads, row, Kept
  <2> QED
    BY <1>2, <2>2
<1>6. ASSUME NEW g \in Gateways, SetNextRun(g) PROVE FALSE
  BY <1>1, <1>6 DEF SetNextRun, MaintSlots
<1>7. ASSUME NEW g \in Gateways, CrashHost(g) PROVE MaintSlots'
  <2>1. Kept /\ UNCHANGED <<now, enabled, nextRun, taken>>
    BY <1>7 DEF CrashHost, row, Kept
  <2> QED
    BY <1>2, <2>1
<1>8. ASSUME NEW c \in Activations, ReadConfig(c) PROVE MaintSlots'
  <2>1. TriggerOf(c) = "schedule" /\ period \in Nat
    BY DEF Regular, Periods
  <2>2. NextAfter(period, now) \in Nat /\ NextAfter(period, now) > now
    BY <1>1, <2>1, NextAfterLater
  <2>3. /\ step' = [step EXCEPT ![c] = "claiming"]
        /\ at' = [at EXCEPT ![c] = now]
        /\ next' = [next EXCEPT ![c] = NextAfter(period, now)]
        /\ UNCHANGED <<now, enabled, nextRun, taken, stale>>
    BY <1>8, <2>1 DEF ReadConfig, row
  <2> QED
    BY <1>1, <2>2, <2>3 DEF MaintSlots, Due
<1>9. ASSUME NEW c \in Activations, BeginUpdate(c) PROVE MaintSlots'
  <2>1. CASE Claimable(c) /\ Continue(c, "updating")
    <3>1. Due(at[c])
      BY <2>1 DEF Claimable, Regular
    <3> QED
      BY <1>1, <1>9, <2>1, <3>1 DEF BeginUpdate, MaintSlots, Due, row
  <2>2. CASE Leave(c)
    <3>1. Kept /\ UNCHANGED <<now, enabled, nextRun, taken>>
      BY <1>9, <2>2 DEF BeginUpdate, row, Kept
    <3> QED
      BY <1>2, <3>1
  <2> QED
    BY <1>9, <2>1, <2>2 DEF BeginUpdate
<1>10. ASSUME NEW c \in Activations, CommitUpdate(c) PROVE MaintSlots'
  <2>1. CASE c \notin stale /\ Continue(c, "verifying") /\ ClaimRow(c)
    <3>1. step[c] = "updating" /\ UNCHANGED <<now, at, next, enabled>>
      BY <1>10, <2>1 DEF CommitUpdate, ClaimRow, settings
    <3>2. nextRun # 0 /\ nextRun <= at[c] /\ at[c] <= now /\ next[c] > at[c]
      BY <1>1, <2>1, <3>1 DEF MaintSlots, Due
    <3>3. taken' = nextRun /\ nextRun' = next[c]
      BY <2>1, <3>2 DEF ClaimRow, Regular
    <3>4. taken' <= now' /\ nextRun' > taken' /\ nextRun' # 0
      BY <3>1, <3>2, <3>3
    <3>5. step' = [step EXCEPT ![c] = "verifying"] /\ Overlapping(c) \subseteq stale'
      BY <2>1 DEF ClaimRow
    <3>6. ASSUME NEW e \in Activations
          PROVE  /\ step'[e] # "setting"
                 /\ step'[e] \in {"claiming", "updating"} => at'[e] <= now' /\ next'[e] > at'[e]
                 /\ step'[e] = "updating" => e \in stale'
      BY <1>1, <3>1, <3>5 DEF MaintSlots, Overlapping
    <3> QED
      BY <3>4, <3>6 DEF MaintSlots
  <2>2. CASE Leave(c) /\ stale' = stale \ {c} /\ UNCHANGED <<row, taken>>
    <3>1. Kept /\ UNCHANGED <<now, enabled, nextRun, taken>>
      BY <1>10, <2>2 DEF CommitUpdate, row, Kept
    <3> QED
      BY <1>2, <3>1
  <2> QED
    BY <1>10, <2>1, <2>2 DEF CommitUpdate, Regular
<1>11. ASSUME NEW c \in Activations, Finish(c) PROVE MaintSlots'
  <2>1. UNCHANGED <<now, enabled, nextRun, taken>>
    BY <1>11 DEF Finish, ReleaseLease, NoWrite, row, settings
  <2>2. Kept
    BY <1>11 DEF Finish, ReleaseLease, RowWritten, NoWrite, Kept
  <2> QED
    BY <1>2, <2>1, <2>2
<1>12. ASSUME NEW c \in Activations, CallerStep(c), ~ReadConfig(c), ~BeginUpdate(c),
              ~CommitUpdate(c), ~Finish(c)
       PROVE  MaintSlots'
  <2>1. Kept /\ UNCHANGED <<now, enabled, nextRun, taken>>
    BY <1>12 DEF CallerStep, Verify, RecordRun, RecordFails, CallFails, WorkEnds, CloseJob,
       row, Kept
  <2> QED
    BY <1>2, <2>1
<1>13. ASSUME NEW b \in BOOLEAN, NEW p \in Periods, SaveSchedule(b, p) PROVE MaintSlots'
  <2>1. /\ period' = p /\ enabled' = b /\ nextRun' = (IF b THEN NextAfter(p, now) ELSE 0)
        /\ stale' = stale \cup {c \in Activations : step[c] = "updating"}
        /\ UNCHANGED <<now, taken, step, at, next>>
    BY <1>13 DEF SaveSchedule, RowWritten
  <2>2. NextAfter(p, now) \in Nat /\ NextAfter(p, now) > now
    <3>1. p \in Nat /\ p # 0
      BY <2>1 DEF Periods
    <3> QED
      BY <3>1, NextAfterLater
  <2>3. enabled' => nextRun' # 0
    BY <2>1, <2>2
  <2>4. taken' <= now' /\ (nextRun' # 0 => nextRun' > taken')
    BY <1>1, <2>1, <2>2 DEF MaintSlots
  <2> QED
    BY <1>1, <2>1, <2>3, <2>4 DEF MaintSlots
<1>14. ASSUME ClockTick PROVE MaintSlots'
  BY <1>1, <1>14 DEF ClockTick, MaintSlots, Due, row
<1>15. ASSUME UNCHANGED mvars PROVE MaintSlots'
  BY <1>1, <1>15 DEF mvars, MaintSlots, Due, row
<1> QED
  BY <1>3, <1>4, <1>5, <1>6, <1>7, <1>8, <1>9, <1>10, <1>11, <1>12, <1>13, <1>14, <1>15
     DEF MaintNext, TimerStep

\* While the schedule comes again, a slot of maintenance is claimed once, by any
\* number of gateways and whatever crashes, fails or outlives its lease.
THEOREM SlotsOfMaintenance == Regular => (MaintSpec => SlotOnce)
<1> SUFFICES ASSUME Regular PROVE MaintSpec => SlotOnce
  OBVIOUS
<1>1. MaintTypeOK /\ SlotsInv /\ [MaintNext]_mvars => SlotsInv'
  BY StepMaintSlots
<1>2. MaintTypeOK /\ SlotsInv =>
        [\A c \in Activations :
           (/\ TriggerOf(c) = "schedule" /\ period # 0 /\ nextRun # 0
            /\ step[c] = "updating" /\ step'[c] = "verifying")
           => nextRun > taken]_mvars
  BY DEF SlotsInv, MaintSlots
<1> QED
  BY <1>1, <1>2, InitSlots, MaintTypeCorrect, PTL DEF MaintSpec, SlotOnce

\* MaintSlots are claimed once by both schedulers: the property of the run console.
THEOREM SlotsAlwaysOnce == Regular /\ Orderly => (SchedulesSpec => SlotsOnce)
<1> SUFFICES ASSUME Regular, Orderly PROVE SchedulesSpec => SlotsOnce
  OBVIOUS
<1>1. MaintSpec => SlotOnce
  BY SlotsOfMaintenance
<1>2. PruneSpec => PruneSlotOnce
  BY SlotClaimedOnce
<1> QED
  BY <1>1, <1>2, PTL DEF SchedulesSpec, SlotsOnce

----------------------------------------------------------------------------
(* Settings shared by gateways (ConsoleSettings)                           *)

Overrides == (SUBSET Keys) \cup {NoValue}
ChangeSteps == {"none", "delete", "insert", "removed", "promote"}
HostStages == {"down", "loaded", "promoted", "secret", "deleted", "inserted", "up"}

SettingsTyped ==
  /\ stored \subseteq SUBSET Keys /\ active \subseteq Keys
  /\ secrets \subseteq SettingHosts
  /\ memory \in [SettingHosts -> Overrides]
  /\ fetched \in [SettingHosts -> SUBSET Overrides]
  /\ stage \in [SettingHosts -> HostStages]
  /\ secret \in [SettingHosts -> SettingHosts \cup {NoValue}]
  /\ change \in [SettingHosts -> [step : ChangeSteps, to : Overrides, before : SUBSET Keys]]
  /\ \A h \in SettingHosts : change[h].step = "insert" => change[h].to # NoValue

\* Only a gateway that is up changes settings, and reads them anew.
OnlyUp ==
  \A h \in SettingHosts : /\ change[h].step # "none" => h \in AdminHosts /\ stage[h] = "up"
                          /\ fetched[h] # {} => stage[h] = "up"

Promoted(h) == stage[h] \notin {"down", "loaded"}

\* Between changes: one list is stored, the administrator's gateway a and those
\* that will promote it hold it, and its keys are active once one has.
BetweenChanges(a) ==
  change[a].step = "none" =>
    \E v \in Overrides :
      /\ StoredValues = {v} /\ fetched[a] \subseteq {v}
      /\ stage[a] # "down" => memory[a] = v
      /\ \A h \in SettingHosts : stage[h] = "loaded" => memory[h] = v
      /\ active \subseteq ListAt(v)
      /\ (\E h \in SettingHosts : Promoted(h)) => active = ListAt(v)

\* In a change: nobody starts meanwhile, no answer of a refresh is awaited, and
\* each step finds what the one before left.
InChange(a) ==
  change[a].step # "none" =>
    /\ \A h \in SettingHosts : stage[h] # "loaded"
    /\ fetched[a] = {}
    /\ change[a].step = "insert" => stored = {}
    /\ change[a].step \in {"removed", "promote"} =>
         StoredValues = {change[a].to} /\ memory[a] = change[a].to
    /\ active = IF change[a].step = "promote"
                THEN change[a].before \cap ListAt(change[a].to) ELSE change[a].before

\* The inductive invariant of KeysInStep.
SettingsInv(a) == SettingsTyped /\ OnlyUp /\ (clean => BetweenChanges(a) /\ InChange(a))

\* What a list is, and what is read of the table.
LEMMA ListsOfKeys ==
  /\ EnvKeys \in SUBSET Keys /\ NoValue \in Overrides
  /\ \A m \in Overrides : ListAt(m) \in SUBSET Keys
  /\ \A m \in Overrides : m # NoValue => m \in SUBSET Keys
  /\ SettingsTyped => StoredValues \subseteq Overrides
  /\ NoChange \in [step : ChangeSteps, to : Overrides, before : SUBSET Keys]
  /\ NoChange.step = "none"
<1>1. EnvKeys \in SUBSET Keys /\ EnvKeys \in Overrides /\ NoValue \in Overrides
  <2>1. EnvKeys \in SUBSET Keys
    BY SettingsAssumption, ZenonT(30)
  <2> QED
    BY <2>1, ZenonT(30) DEF Overrides
<1>2. \A m \in Overrides : ListAt(m) \in SUBSET Keys /\ (m # NoValue => m \in SUBSET Keys)
  <2> TAKE m \in Overrides
  <2>1. m # NoValue => m \in SUBSET Keys
    BY ZenonT(30) DEF Overrides
  <2> QED
    BY <1>1, <2>1, ZenonT(30) DEF ListAt
<1>3. SettingsTyped => StoredValues \subseteq Overrides
  BY <1>1 DEF StoredValues, SettingsTyped, Overrides
<1> QED
  BY <1>1, <1>2, <1>3 DEF NoChange, ChangeSteps

LEMMA SettingsInitTyped == SettingsInit => SettingsTyped /\ OnlyUp
<1> SUFFICES ASSUME SettingsInit PROVE SettingsTyped /\ OnlyUp
  OBVIOUS
<1>1. /\ change \in [SettingHosts -> [step : ChangeSteps, to : Overrides, before : SUBSET Keys]]
      /\ \A h \in SettingHosts : change[h].step = "none"
  BY ListsOfKeys DEF SettingsInit
<1>2. /\ memory \in [SettingHosts -> Overrides]
      /\ secret \in [SettingHosts -> SettingHosts \cup {NoValue}]
  BY ListsOfKeys DEF SettingsInit
<1>3. fetched \in [SettingHosts -> SUBSET Overrides] /\ stage \in [SettingHosts -> HostStages]
  BY DEF SettingsInit, HostStages
<1>4. stored \subseteq SUBSET Keys /\ active \subseteq Keys /\ secrets \subseteq SettingHosts
  BY DEF SettingsInit
<1> QED
  BY <1>1, <1>2, <1>3, <1>4 DEF SettingsInit, SettingsTyped, OnlyUp

LEMMA SettingsInitially ==
  ASSUME NEW a, AdminHosts = {a}, SettingsInit
  PROVE  SettingsInv(a)
<1>1. SettingsTyped /\ OnlyUp
  BY SettingsInitTyped
<1>2. a \in SettingHosts
  BY SettingsAssumption
<1>3. StoredValues = {NoValue}
  BY DEF SettingsInit, StoredValues
<1>4. change[a].step = "none" /\ fetched[a] = {} /\ memory[a] = NoValue
  BY <1>2 DEF SettingsInit, NoChange
<1>5. /\ \A h \in SettingHosts : stage[h] # "loaded" /\ ~Promoted(h)
      /\ active \subseteq ListAt(NoValue)
  BY DEF SettingsInit, Promoted
<1>6. BetweenChanges(a) /\ InChange(a)
  BY <1>3, <1>4, <1>5, ListsOfKeys DEF BetweenChanges, InChange
<1> QED
  BY <1>1, <1>6 DEF SettingsInv

\* A step of a gateway keeps what it is made of.
LEMMA SettingsStayTyped ==
  ASSUME SettingsTyped, OnlyUp, NEW h \in SettingHosts,
         \/ StartupStep(h) \/ RefreshStep(h) \/ ChangeStep(h)
         \/ \E to \in (SUBSET Keys) \cup {NoValue} : StartChange(h, to)
         \/ Restart(h) \/ ChangeFails(h)
  PROVE  SettingsTyped' /\ OnlyUp'
<1> USE ListsOfKeys DEF SettingsTyped, OnlyUp, HostStages, ChangeSteps
<1>1. CASE LoadOverrides(h)
  BY <1>1 DEF LoadOverrides
<1>2. CASE BootPromotes(h)
  BY <1>2 DEF BootPromotes
<1>3. CASE ReadSecret(h)
  BY <1>3, SMTT(60) DEF ReadSecret
<1>4. CASE DeleteSecret(h)
  BY <1>4 DEF DeleteSecret
<1>5. CASE InsertSecret(h)
  BY <1>5 DEF InsertSecret
<1>6. CASE RereadSecret(h)
  BY <1>6 DEF RereadSecret
<1>7. CASE Refresh(h)
  BY <1>7 DEF Refresh
<1>8. CASE ApplyRefresh(h)
  <2>1. PICK v \in Overrides : memory' = [memory EXCEPT ![h] = v]
    BY <1>8 DEF ApplyRefresh
  <2> QED
    BY <1>8, <2>1 DEF ApplyRefresh
<1>9. CASE DeleteSetting(h)
  <2>1. memory' \in [SettingHosts -> Overrides]
    BY <1>9 DEF DeleteSetting
  <2>2. PICK s \in {"removed", "insert"} :
          change' = [change EXCEPT ![h].step = s] /\ (s = "insert" => change[h].to # NoValue)
    BY <1>9 DEF DeleteSetting, Moves
  <2>3. /\ change' \in [SettingHosts -> [step : ChangeSteps, to : Overrides, before : SUBSET Keys]]
        /\ \A g \in SettingHosts : g # h => change'[g] = change[g]
        /\ change'[h].step = s /\ change'[h].to = change[h].to
    BY <2>2, SMTT(60)
  <2> QED
    BY <1>9, <2>1, <2>2, <2>3, SMTT(60) DEF DeleteSetting
<1>10. CASE InsertSetting(h)
  <2>1. change[h].to \in SUBSET Keys
    BY <1>10 DEF InsertSetting
  <2>2. stored' \subseteq SUBSET Keys /\ memory' \in [SettingHosts -> Overrides]
    BY <1>10, <2>1 DEF InsertSetting
  <2>3. /\ change' \in [SettingHosts -> [step : ChangeSteps, to : Overrides, before : SUBSET Keys]]
        /\ \A g \in SettingHosts : g # h => change'[g] = change[g]
        /\ change'[h].step = "removed"
    <3>1. change' = [change EXCEPT ![h].step = "removed"]
      BY <1>10 DEF InsertSetting, Moves
    <3> QED
      BY <3>1
  <2>4. /\ UNCHANGED <<active, secrets, fetched, stage, secret>>
        /\ change[h].step = "insert"
    BY <1>10 DEF InsertSetting
  <2> QED
    BY <2>2, <2>3, <2>4, ZenonT(60)
<1>11. CASE DeactivateRemoved(h)
  BY <1>11 DEF DeactivateRemoved, Moves
<1>12. CASE PromoteListed(h)
  <2>1. ListAt(change[h].to) \in SUBSET Keys
    OBVIOUS
  <2>2. /\ change' \in [SettingHosts -> [step : ChangeSteps, to : Overrides, before : SUBSET Keys]]
        /\ \A g \in SettingHosts : g # h => change'[g] = change[g]
        /\ change'[h].step = "none"
    BY <1>12 DEF PromoteListed
  <2> QED
    BY <1>12, <2>1, <2>2 DEF PromoteListed
<1>13. CASE \E to \in (SUBSET Keys) \cup {NoValue} : StartChange(h, to)
  <2>1. PICK to \in Overrides : StartChange(h, to)
    BY <1>13 DEF Overrides
  <2>2. ListAt(memory[h]) \in SUBSET Keys
    OBVIOUS
  <2>3. /\ change' \in [SettingHosts -> [step : ChangeSteps, to : Overrides, before : SUBSET Keys]]
        /\ \A g \in SettingHosts : g # h => change'[g] = change[g]
        /\ change'[h].step = "delete"
    BY <2>1, <2>2 DEF StartChange
  <2> QED
    BY <2>1, <2>3 DEF StartChange
<1>14. CASE Restart(h)
  BY <1>14 DEF Restart
<1>15. CASE ChangeFails(h)
  BY <1>15 DEF ChangeFails
<1> QED
  BY <1>1, <1>2, <1>3, <1>4, <1>5, <1>6, <1>7, <1>8, <1>9, <1>10, <1>11, <1>12, <1>13, <1>14, <1>15
  DEF StartupStep, RefreshStep, ChangeStep

\* A step that leaves the table, the rows and the change alone, and whatever
\* the administrator's gateway and those starting hold.
LEMMA StepKept ==
  ASSUME NEW a, BetweenChanges(a), InChange(a), UNCHANGED <<stored, active>>,
         change'[a].step = change[a].step,
         change[a].step # "none" => change'[a] = change[a] /\ memory'[a] = memory[a],
         fetched'[a] \subseteq fetched[a],
         stage'[a] # "down" => stage[a] # "down" /\ memory'[a] = memory[a],
         \A h \in SettingHosts :
           /\ stage'[h] = "loaded" => stage[h] = "loaded" /\ memory'[h] = memory[h]
           /\ Promoted(h)' => Promoted(h)
  PROVE  BetweenChanges(a)' /\ InChange(a)'
<1>1. StoredValues' = StoredValues
  BY DEF StoredValues
<1>2. ASSUME change[a].step = "none" PROVE BetweenChanges(a)'
  <2>1. PICK v \in Overrides :
          /\ StoredValues = {v} /\ fetched[a] \subseteq {v}
          /\ stage[a] # "down" => memory[a] = v
          /\ \A g \in SettingHosts : stage[g] = "loaded" => memory[g] = v
          /\ active \subseteq ListAt(v)
          /\ (\E g \in SettingHosts : Promoted(g)) => active = ListAt(v)
    BY <1>2 DEF BetweenChanges
  <2>2. /\ fetched'[a] \subseteq {v}
        /\ stage'[a] # "down" => memory'[a] = v
        /\ \A g \in SettingHosts : stage'[g] = "loaded" => memory'[g] = v
    BY <2>1
  <2>3. (\E g \in SettingHosts : Promoted(g)') => active' = ListAt(v)
    BY <2>1
  <2> QED
    BY <1>1, <2>1, <2>2, <2>3 DEF BetweenChanges
<1>3. ASSUME change[a].step # "none" PROVE InChange(a)'
  BY <1>1, <1>3 DEF InChange
<1> QED
  BY <1>2, <1>3 DEF BetweenChanges, InChange

\* And, as long as nothing failed or overlapped, the keys in step.
LEMMA StartsKeepStep ==
  ASSUME NEW a, AdminHosts = {a}, SettingsInv(a), clean, NEW h \in SettingHosts,
         StartupStep(h), clean'
  PROVE  BetweenChanges(a)' /\ InChange(a)'
<1> USE DEF SettingsInv, SettingsTyped, HostStages
<1>0. a \in SettingHosts
  BY SettingsAssumption
<1>1. BetweenChanges(a) /\ InChange(a)
  OBVIOUS
<1>2. CASE LoadOverrides(h)
  <2>1. change[a].step = "none" /\ UNCHANGED <<stored, active, fetched, change>>
    BY <1>0, <1>2 DEF LoadOverrides, Changing
  <2>2. PICK v \in Overrides :
          /\ StoredValues = {v} /\ fetched[a] \subseteq {v}
          /\ stage[a] # "down" => memory[a] = v
          /\ \A g \in SettingHosts : stage[g] = "loaded" => memory[g] = v
          /\ active \subseteq ListAt(v)
          /\ (\E g \in SettingHosts : Promoted(g)) => active = ListAt(v)
    BY <1>1, <2>1 DEF BetweenChanges
  <2>3. memory' = [memory EXCEPT ![h] = v] /\ stage' = [stage EXCEPT ![h] = "loaded"]
    BY <1>2, <2>2 DEF LoadOverrides
  <2>4. stage'[a] # "down" => memory'[a] = v
    BY <1>0, <2>2, <2>3
  <2>5. \A g \in SettingHosts : /\ stage'[g] = "loaded" => memory'[g] = v
                                /\ Promoted(g)' => Promoted(g)
    BY <2>2, <2>3 DEF Promoted
  <2> QED
    BY <2>1, <2>2, <2>4, <2>5 DEF BetweenChanges, InChange, StoredValues, ListAt
<1>3. CASE BootPromotes(h)
  <2>1. change[a].step = "none" /\ UNCHANGED <<stored, memory, fetched, change>>
    BY <1>1, <1>3 DEF BootPromotes, InChange
  <2>2. PICK v \in Overrides :
          /\ StoredValues = {v} /\ fetched[a] \subseteq {v}
          /\ stage[a] # "down" => memory[a] = v
          /\ \A g \in SettingHosts : stage[g] = "loaded" => memory[g] = v
          /\ active \subseteq ListAt(v)
    BY <1>1, <2>1 DEF BetweenChanges
  <2>3. active' = ListAt(v) /\ stage' = [stage EXCEPT ![h] = "promoted"]
    BY <1>3, <2>2 DEF BootPromotes
  <2>4. stage'[a] # "down" => memory'[a] = v
    BY <1>0, <1>3, <2>1, <2>2, <2>3 DEF BootPromotes
  <2>5. \A g \in SettingHosts : stage'[g] = "loaded" => memory'[g] = v
    BY <2>1, <2>2, <2>3
  <2> QED
    BY <2>1, <2>2, <2>3, <2>4, <2>5 DEF BetweenChanges, InChange, StoredValues, ListAt
<1>4. CASE ReadSecret(h) \/ DeleteSecret(h) \/ InsertSecret(h) \/ RereadSecret(h)
  <2>1. /\ UNCHANGED <<stored, active, memory, fetched, change>>
        /\ \A g \in SettingHosts : g # h => stage'[g] = stage[g]
        /\ Promoted(h) /\ Promoted(h)'
    BY <1>4 DEF ReadSecret, DeleteSecret, InsertSecret, RereadSecret, Promoted
  <2>2. \A g \in SettingHosts : /\ Promoted(g)' <=> Promoted(g)
                                /\ (stage'[g] = "loaded") = (stage[g] = "loaded")
                                /\ (stage'[g] = "down") = (stage[g] = "down")
    BY <2>1 DEF Promoted
  <2> QED
    BY <1>0, <1>1, <2>1, <2>2, StepKept
<1> QED
  BY <1>2, <1>3, <1>4 DEF StartupStep

LEMMA RefreshesKeepStep ==
  ASSUME NEW a, AdminHosts = {a}, SettingsInv(a), clean, NEW h \in SettingHosts,
         RefreshStep(h), clean'
  PROVE  BetweenChanges(a)' /\ InChange(a)'
<1> USE DEF SettingsInv, SettingsTyped
<1>0. a \in SettingHosts
  BY SettingsAssumption
<1>1. UNCHANGED <<stored, active, stage, change>> /\ BetweenChanges(a) /\ InChange(a)
  BY DEF RefreshStep, Refresh, ApplyRefresh
<1>2. change[a].step # "none" => fetched'[a] = {} /\ memory'[a] = memory[a]
  BY <1>0, <1>1 DEF RefreshStep, Refresh, ApplyRefresh, InChange
<1>3. InChange(a)'
  BY <1>1, <1>2 DEF InChange, StoredValues, ListAt
<1>4. ASSUME change[a].step = "none" PROVE BetweenChanges(a)'
  <2>1. PICK v \in Overrides :
          /\ StoredValues = {v} /\ fetched[a] \subseteq {v}
          /\ stage[a] # "down" => memory[a] = v
          /\ \A g \in SettingHosts : stage[g] = "loaded" => memory[g] = v
          /\ active \subseteq ListAt(v)
          /\ (\E g \in SettingHosts : Promoted(g)) => active = ListAt(v)
    BY <1>1, <1>4 DEF BetweenChanges
  <2>2. fetched'[a] \subseteq {v} /\ (stage[a] # "down" => memory'[a] = v)
    <3>1. CASE Refresh(h)
      BY <1>0, <2>1, <3>1 DEF Refresh
    <3>2. CASE ApplyRefresh(h)
      BY <1>0, <2>1, <3>2 DEF ApplyRefresh
    <3> QED
      BY <3>1, <3>2 DEF RefreshStep
  <2>3. \A g \in SettingHosts : stage[g] = "loaded" => memory'[g] = v
    BY <2>1 DEF RefreshStep, Refresh, ApplyRefresh, OnlyUp
  <2> QED
    BY <1>1, <2>1, <2>2, <2>3 DEF BetweenChanges, StoredValues, ListAt, Promoted
<1> QED
  BY <1>1, <1>3, <1>4 DEF BetweenChanges

LEMMA ChangesKeepStep ==
  ASSUME NEW a, AdminHosts = {a}, SettingsInv(a), clean, NEW h \in SettingHosts,
         \/ ChangeStep(h) \/ ChangeFails(h)
         \/ \E to \in (SUBSET Keys) \cup {NoValue} : StartChange(h, to),
         clean'
  PROVE  BetweenChanges(a)' /\ InChange(a)'
<1> USE DEF SettingsInv, SettingsTyped, ChangeSteps
<1>0. a \in SettingHosts /\ h = a
  BY SettingsAssumption
  DEF OnlyUp, ChangeStep, DeleteSetting, InsertSetting, DeactivateRemoved, PromoteListed, ChangeFails, StartChange
<1>1. BetweenChanges(a) /\ InChange(a) /\ UNCHANGED stage
  BY DEF ChangeStep, DeleteSetting, InsertSetting, DeactivateRemoved, PromoteListed, ChangeFails, StartChange
<1>2. ASSUME NEW to \in Overrides, StartChange(a, to)
      PROVE  BetweenChanges(a)' /\ InChange(a)'
  <2>1. PICK v \in Overrides :
          /\ StoredValues = {v} /\ (stage[a] # "down" => memory[a] = v)
          /\ (\E g \in SettingHosts : Promoted(g)) => active = ListAt(v)
    BY <1>1, <1>2 DEF BetweenChanges, StartChange
  <2>2. active = ListAt(memory[a])
    BY <1>0, <1>2, <2>1 DEF StartChange, Promoted
  <2>3. change'[a] = [step |-> "delete", to |-> to, before |-> ListAt(memory[a])]
    BY <1>0, <1>2 DEF StartChange
  <2>4. /\ \A g \in SettingHosts : stage[g] # "loaded"
        /\ fetched[a] = {} /\ UNCHANGED <<active, fetched>>
    BY <1>2 DEF StartChange
  <2> QED
    BY <1>1, <2>2, <2>3, <2>4 DEF BetweenChanges, InChange
<1>3. CASE DeleteSetting(a)
  <2>1. /\ stored' = {} /\ StoredValues' = {NoValue} /\ UNCHANGED <<active, fetched>>
        /\ \/ /\ change[a].to = NoValue
              /\ change'[a] = [change[a] EXCEPT !.step = "removed"] /\ memory'[a] = NoValue
           \/ change'[a] = [change[a] EXCEPT !.step = "insert"]
    BY <1>0, <1>3 DEF DeleteSetting, Moves, StoredValues
  <2>2. change'[a].to = change[a].to /\ change'[a].before = change[a].before
    BY <1>0, <2>1
  <2> QED
    BY <1>0, <1>1, <1>3, <2>1, <2>2 DEF DeleteSetting, BetweenChanges, InChange
<1>4. CASE InsertSetting(a)
  <2>1. /\ stored = {} /\ stored' = {change[a].to} /\ UNCHANGED <<active, fetched>>
        /\ change'[a] = [change[a] EXCEPT !.step = "removed"] /\ memory'[a] = change[a].to
    BY <1>0, <1>1, <1>4 DEF InsertSetting, Moves, InChange
  <2>2. change'[a].to = change[a].to /\ change'[a].before = change[a].before
    BY <1>0, <2>1
  <2> QED
    BY <1>0, <1>1, <1>4, <2>1, <2>2 DEF InsertSetting, BetweenChanges, InChange, StoredValues
<1>5. CASE DeactivateRemoved(a)
  <2>1. /\ UNCHANGED <<stored, memory, fetched>>
        /\ change'[a] = [change[a] EXCEPT !.step = "promote"]
        /\ active' = active \ (change[a].before \ ListAt(change[a].to))
    BY <1>0, <1>5 DEF DeactivateRemoved, Moves
  <2>2. change'[a].to = change[a].to /\ change'[a].before = change[a].before
    BY <1>0, <2>1
  <2>3. active' = change[a].before \cap ListAt(change[a].to)
    BY <1>1, <1>5, <2>1 DEF DeactivateRemoved, InChange
  <2> QED
    BY <1>0, <1>1, <1>5, <2>1, <2>2, <2>3 DEF DeactivateRemoved, BetweenChanges, InChange, StoredValues, ListAt
<1>6. CASE PromoteListed(a)
  <2>1. /\ UNCHANGED <<stored, memory, fetched>> /\ change'[a].step = "none"
        /\ active' = ListAt(change[a].to)
    BY <1>0, <1>1, <1>6 DEF PromoteListed, NoChange, InChange
  <2>2. /\ change[a].to \in Overrides /\ StoredValues = {change[a].to}
        /\ memory[a] = change[a].to /\ fetched[a] = {}
        /\ \A g \in SettingHosts : stage[g] # "loaded"
    BY <1>0, <1>1, <1>6 DEF PromoteListed, InChange
  <2> QED
    BY <1>1, <2>1, <2>2 DEF BetweenChanges, InChange, StoredValues, ListAt
<1>7. ~ChangeFails(h)
  BY DEF ChangeFails
<1>8. Overrides = (SUBSET Keys) \cup {NoValue}
  BY DEF Overrides
<1> QED
  BY <1>0, <1>2, <1>3, <1>4, <1>5, <1>6, <1>7, <1>8 DEF ChangeStep

LEMMA RestartsKeepStep ==
  ASSUME NEW a, AdminHosts = {a}, SettingsInv(a), clean, NEW h \in SettingHosts, Restart(h), clean'
  PROVE  BetweenChanges(a)' /\ InChange(a)'
<1> USE DEF SettingsInv, SettingsTyped
<1>0. a \in SettingHosts
  BY SettingsAssumption
<1>1. /\ BetweenChanges(a) /\ InChange(a) /\ UNCHANGED <<stored, active>>
      /\ stage' = [stage EXCEPT ![h] = "down"] /\ fetched' = [fetched EXCEPT ![h] = {}]
      /\ memory' = [memory EXCEPT ![h] = NoValue] /\ change' = [change EXCEPT ![h] = NoChange]
      /\ change[h].step = "none"
  BY DEF Restart
<1>2. /\ change'[a].step = change[a].step
      /\ change[a].step # "none" => h # a /\ change'[a] = change[a] /\ memory'[a] = memory[a]
  BY <1>0, <1>1 DEF NoChange
<1>3. \A g \in SettingHosts : /\ stage'[g] = "loaded" => stage[g] = "loaded" /\ memory'[g] = memory[g]
                              /\ Promoted(g)' => Promoted(g)
  BY <1>1 DEF Promoted
<1>4. /\ fetched'[a] \subseteq fetched[a]
      /\ stage'[a] # "down" => stage[a] # "down" /\ memory'[a] = memory[a]
  BY <1>0, <1>1
<1> QED
  BY <1>1, <1>2, <1>3, <1>4, StepKept

\* Every step keeps the invariant.
LEMMA SettingsSteps ==
  ASSUME NEW a, AdminHosts = {a}, SettingsInv(a), [SettingsNext]_cvars
  PROVE  SettingsInv(a)'
<1>1. ASSUME NEW h \in SettingHosts,
             \/ StartupStep(h) \/ RefreshStep(h) \/ ChangeStep(h)
             \/ \E to \in (SUBSET Keys) \cup {NoValue} : StartChange(h, to)
             \/ Restart(h) \/ ChangeFails(h)
      PROVE  SettingsInv(a)'
  <2>1. SettingsTyped' /\ OnlyUp'
    BY <1>1, SettingsStayTyped DEF SettingsInv
  <2>2. clean' => clean
    BY <1>1 DEF StartupStep, LoadOverrides, BootPromotes, ReadSecret, DeleteSecret, InsertSecret,
                RereadSecret, RefreshStep, Refresh, ApplyRefresh, ChangeStep, DeleteSetting, InsertSetting,
                DeactivateRemoved, PromoteListed, StartChange, Restart, ChangeFails
  <2>3. clean' => BetweenChanges(a)' /\ InChange(a)'
    BY <1>1, <2>2, StartsKeepStep, RefreshesKeepStep, ChangesKeepStep, RestartsKeepStep
  <2> QED
    BY <2>1, <2>3 DEF SettingsInv
<1>2. CASE UNCHANGED cvars
  BY <1>2 DEF cvars, SettingsInv, SettingsTyped, OnlyUp, BetweenChanges, InChange, StoredValues, ListAt,
              Promoted
<1> QED
  BY <1>1, <1>2 DEF SettingsNext

LEMMA SettingsStepTyped ==
  SettingsTyped /\ OnlyUp /\ [SettingsNext]_cvars => SettingsTyped' /\ OnlyUp'
<1>1. SettingsTyped /\ OnlyUp /\ SettingsNext => SettingsTyped' /\ OnlyUp'
  BY SettingsStayTyped DEF SettingsNext
<1>2. SettingsTyped /\ OnlyUp /\ UNCHANGED cvars => SettingsTyped' /\ OnlyUp'
  BY DEF cvars, SettingsTyped, OnlyUp
<1> QED
  BY <1>1, <1>2

LEMMA SettingsTells == SettingsTyped => SettingsTypeOK
<1>1. DOMAIN Stages = 1..7
  BY DEF Stages
<1>2. ASSUME NEW s \in HostStages PROVE \E i \in DOMAIN Stages : s = Stages[i]
  <2>1. s \in {Stages[1], Stages[2], Stages[3], Stages[4], Stages[5], Stages[6], Stages[7]}
    BY DEF HostStages, Stages
  <2> QED
    BY <1>1, <2>1
<1>3. SettingsTyped => \A h \in SettingHosts : memory[h] = NoValue \/ memory[h] \in SUBSET Keys
  BY ListsOfKeys DEF SettingsTyped
<1> QED
  BY <1>2, <1>3 DEF SettingsTyped, SettingsTypeOK

\* Settings are what the model says they are, whoever changes them where.
THEOREM SettingsTypeCorrect == SettingsSpec => []SettingsTypeOK
  BY SettingsInitTyped, SettingsStepTyped, SettingsTells, PTL DEF SettingsSpec

\* As long as the list is changed on one gateway, its changes run to their end
\* and no start or refresh overlaps them, a key is an active superuser exactly
\* if it is on the stored list, however many gateways start, stop and refresh.
THEOREM KeysAlwaysInStep ==
  ASSUME NEW a, AdminHosts = {a}
  PROVE  SettingsSpec => []KeysInStep
<1>1. SettingsInit => SettingsInv(a)
  BY SettingsInitially
<1>2. SettingsInv(a) /\ [SettingsNext]_cvars => SettingsInv(a)'
  BY SettingsSteps
<1>3. SettingsInv(a) => KeysInStep
  <2> SUFFICES ASSUME SettingsInv(a), clean, Changing = {},
                      \A h \in SettingHosts : stage[h] \notin {"down", "loaded"}
               PROVE  \A v \in StoredValues : active = ListAt(v)
    BY DEF KeysInStep
  <2>1. a \in SettingHosts /\ change[a].step = "none"
    BY SettingsAssumption DEF Changing
  <2> QED
    BY <2>1 DEF SettingsInv, BetweenChanges, Promoted
<1> QED
  BY <1>1, <1>2, <1>3, PTL DEF SettingsSpec

----------------------------------------------------------------------------
(* Exports beside imports (Transfers) *)

ExportStages == {"idle", "rejected", "open", "count", "copy", "send", "done", "failed"}
ImportStages == {"idle", "plan", "write", "insert", "done", "refused"}
SlotHolders == {e \in Exports : Underway(e)}
Lakes == [LakeTables -> Nat]
Views == [LakeTables -> Nat \cup {-1}]   \* -1: not among the tables asked for

TransfersTyped ==
  /\ lake \in Lakes /\ lake \in pasts /\ pasts \subseteq Lakes
  /\ concurrency \in Slots
  /\ transferStage \in [Exports -> ExportStages]
  /\ counted \in [Exports -> Views] /\ sent \in [Exports -> Views]
  /\ askOf \in ImportAsks
  /\ importStage \in [Imports -> ImportStages]
  /\ base \in [Imports -> Nat]

\* What an export describes is part of one state of the lake,
OneState(e) == \E p \in pasts : \A t \in LakeTables : counted[e][t] \in {-1, p[t]}

\* and it has sent nothing before it described it, and nothing else since.
SentAsCounted(e) ==
  /\ \A t \in LakeTables : sent[e][t] \in {-1, counted[e][t]}
  /\ transferStage[e] \in {"idle", "open", "count"} => \A t \in LakeTables : sent[e][t] = -1
  /\ transferStage[e] = "done" => sent[e] = counted[e]

SlotsCounted == activeExports = Cardinality(SlotHolders)

TempsHeld ==
  /\ temp \subseteq Exports \cup Imports
  /\ \A e \in Exports \cap temp : Underway(e)
  /\ \A i \in Imports \cap temp : Loads(i)

\* The inductive invariant of TransfersWhole.
TransfersInv ==
  /\ TransfersTyped /\ SlotsCounted /\ TempsHeld
  /\ \A e \in Exports : OneState(e) /\ SentAsCounted(e)

\* A slot is counted once for its holder: taken, kept and given back.
LEMMA SlotsTaken ==
  ASSUME TransfersTyped, SlotsCounted, NEW e \in Exports, NEW s \in ExportStages,
         transferStage' = [transferStage EXCEPT ![e] = s]
  PROVE  /\ transferStage' \in [Exports -> ExportStages]
         /\ \A d \in Exports : d # e => (Underway(d)' <=> Underway(d))
         /\ Underway(e)' <=> s \notin {"idle", "done", "failed", "rejected"}
         /\ Underway(e)' /\ ~Underway(e) => Cardinality(SlotHolders') = activeExports + 1
         /\ ~Underway(e)' /\ Underway(e) => Cardinality(SlotHolders') = activeExports - 1
         /\ (Underway(e)' <=> Underway(e)) => Cardinality(SlotHolders') = activeExports
<1>1. transferStage' \in [Exports -> ExportStages]
  BY DEF TransfersTyped
<1>2. \A d \in Exports : d # e => (Underway(d)' <=> Underway(d))
  BY DEF TransfersTyped, Underway
<1>3. Underway(e)' <=> s \notin {"idle", "done", "failed", "rejected"}
  BY DEF TransfersTyped, Underway
<1>4. IsFiniteSet(SlotHolders) /\ Cardinality(SlotHolders) \in Nat
  BY TransfersAssumption, FS_Subset, FS_CardinalityType DEF SlotHolders
<1>5. CASE Underway(e)' /\ ~Underway(e)
  <2>1. SlotHolders' = SlotHolders \cup {e} /\ e \notin SlotHolders
    BY <1>2, <1>5 DEF SlotHolders
  <2> QED
    BY <1>1, <1>2, <1>3, <1>4, <1>5, <2>1, FS_AddElement DEF SlotsCounted
<1>6. CASE ~Underway(e)' /\ Underway(e)
  <2>1. SlotHolders' = SlotHolders \ {e} /\ e \in SlotHolders
    BY <1>2, <1>6 DEF SlotHolders
  <2> QED
    BY <1>1, <1>2, <1>3, <1>4, <1>6, <2>1, FS_RemoveElement DEF SlotsCounted
<1>7. CASE Underway(e)' <=> Underway(e)
  <2>1. SlotHolders' = SlotHolders
    BY <1>2, <1>7 DEF SlotHolders
  <2> QED
    BY <1>1, <1>2, <1>3, <1>7, <2>1 DEF SlotsCounted
<1> QED
  BY <1>5, <1>6, <1>7

\* What the rest of an export's step does not change.
LEMMA OtherExports ==
  ASSUME TransfersInv, NEW e \in Exports, pasts' = pasts,
         \A d \in Exports : d # e => /\ transferStage'[d] = transferStage[d]
                                     /\ counted'[d] = counted[d] /\ sent'[d] = sent[d],
         OneState(e)', SentAsCounted(e)'
  PROVE  \A d \in Exports : OneState(d)' /\ SentAsCounted(d)'
<1> SUFFICES ASSUME NEW d \in Exports, d # e PROVE OneState(d)' /\ SentAsCounted(d)'
  OBVIOUS
<1>1. OneState(d) /\ SentAsCounted(d)
  BY DEF TransfersInv
<1> QED
  BY <1>1 DEF OneState, SentAsCounted

THEOREM TransfersInitially == TransfersInit => TransfersInv
<1> SUFFICES ASSUME TransfersInit PROVE TransfersInv
  OBVIOUS
<1>1. lake \in Lakes
  BY TransfersAssumption DEF TransfersInit, Lakes
<1>2. counted \in [Exports -> Views] /\ sent \in [Exports -> Views]
  BY DEF TransfersInit, Views
<1>3. TransfersTyped
  BY <1>1, <1>2 DEF TransfersInit, TransfersTyped, ExportStages, ImportStages
<1>4. SlotHolders = {}
  BY DEF TransfersInit, SlotHolders, Underway
<1>5. SlotsCounted
  BY <1>4, FS_EmptySet DEF TransfersInit, SlotsCounted
<1>6. TempsHeld
  BY DEF TransfersInit, TempsHeld
<1>7. ASSUME NEW e \in Exports PROVE OneState(e) /\ SentAsCounted(e)
  BY <1>7 DEF TransfersInit, OneState, SentAsCounted
<1> QED
  BY <1>3, <1>5, <1>6, <1>7 DEF TransfersInv

\* A step of an export that gives its slot and its temp file back.
LEMMA EndsExport ==
  ASSUME TransfersInv, NEW e \in Exports, Underway(e), GiveBack(e),
         NEW s \in {"done", "failed"}, Step(e, s), UNCHANGED importVars,
         UNCHANGED <<lake, pasts, concurrency, counted, sent>>,
         s = "done" => sent[e] = counted[e]
  PROVE  TransfersInv'
<1>1. /\ transferStage' \in [Exports -> ExportStages]
      /\ \A d \in Exports : d # e => (Underway(d)' <=> Underway(d))
      /\ Cardinality(SlotHolders') = activeExports - 1
  BY SlotsTaken DEF Step, TransfersInv, ExportStages
<1>2. TransfersTyped'
  BY <1>1 DEF TransfersInv, TransfersTyped, importVars
<1>3. SlotsCounted'
  BY <1>1 DEF GiveBack, SlotsCounted
<1>4. TempsHeld'
  BY <1>1 DEF TransfersInv, TempsHeld, GiveBack, Loads, importVars
<1>5. OneState(e)' /\ SentAsCounted(e)'
  BY DEF TransfersInv, TransfersTyped, OneState, SentAsCounted, Step
<1>6. \A d \in Exports : d # e => transferStage'[d] = transferStage[d]
  BY DEF Step, TransfersInv, TransfersTyped
<1>7. \A d \in Exports : OneState(d)' /\ SentAsCounted(d)'
  BY <1>5, <1>6, OtherExports
<1> QED
  BY <1>2, <1>3, <1>4, <1>7 DEF TransfersInv

\* A step of an export that keeps its slot, or takes one, or never gets one.
LEMMA ExportGoesOn ==
  ASSUME TransfersInv, NEW e \in Exports, NEW s \in ExportStages, Step(e, s),
         UNCHANGED importVars, UNCHANGED <<lake, pasts, concurrency>>,
         counted' \in [Exports -> Views], sent' \in [Exports -> Views],
         \A d \in Exports : d # e => counted'[d] = counted[d] /\ sent'[d] = sent[d],
         OneState(e)', SentAsCounted(e)',
         temp' = temp \/ (temp' = temp \cup {e} /\ s \in {"copy", "send"}),
         Underway(e) => s \in {"open", "count", "copy", "send"},
         activeExports' = IF s \in {"open", "count", "copy", "send"} /\ ~Underway(e)
                          THEN activeExports + 1 ELSE activeExports
  PROVE  TransfersInv'
<1>1. /\ transferStage' \in [Exports -> ExportStages]
      /\ \A d \in Exports : d # e => (Underway(d)' <=> Underway(d))
      /\ Underway(e)' <=> s \in {"open", "count", "copy", "send"}
      /\ Cardinality(SlotHolders') = activeExports'
  BY SlotsTaken DEF Step, TransfersInv, ExportStages
<1>2. TransfersTyped'
  BY <1>1 DEF TransfersInv, TransfersTyped, importVars
<1>3. SlotsCounted'
  BY <1>1 DEF SlotsCounted
<1>4. TempsHeld'
  <2>1. \A d \in Exports \cap temp' : Underway(d)'
    BY <1>1 DEF TransfersInv, TempsHeld
  <2>2. \A i \in Imports \cap temp' : i \in temp
    BY TransfersAssumption
  <2> QED
    BY <2>1, <2>2 DEF TransfersInv, TempsHeld, Loads, importVars
<1>5. \A d \in Exports : d # e => transferStage'[d] = transferStage[d]
  BY DEF Step, TransfersInv, TransfersTyped
<1>6. \A d \in Exports : OneState(d)' /\ SentAsCounted(d)'
  BY <1>5, OtherExports
<1> QED
  BY <1>2, <1>3, <1>4, <1>6 DEF TransfersInv

\* An export's steps.
LEMMA ExportKeeps ==
  ASSUME TransfersInv, NEW e \in Exports, ExportStep(e)
  PROVE  TransfersInv'
<1> USE DEF ExportStages
<1>1. OneState(e) /\ SentAsCounted(e)
  BY DEF TransfersInv
<1>2. TransfersTyped
  BY DEF TransfersInv
<1>3. CASE Admit(e)
  <2>1. PICK s \in {"rejected", "open"} :
          /\ Step(e, s)
          /\ activeExports' = IF s = "open" THEN activeExports + 1 ELSE activeExports
    BY <1>3 DEF Admit
  <2>2. OneState(e)' /\ SentAsCounted(e)'
    BY <1>1, <1>2, <1>3, <2>1 DEF Admit, Step, OneState, SentAsCounted, TransfersTyped
  <2> QED
    BY <1>2, <1>3, <2>1, <2>2, ExportGoesOn DEF ExportStep, Admit, TransfersTyped, Underway
<1>4. CASE OpenConnection(e)
  <2>1. OneState(e)' /\ SentAsCounted(e)'
    BY <1>1, <1>2, <1>4 DEF OpenConnection, Step, OneState, SentAsCounted, TransfersTyped
  <2> QED
    BY <1>2, <1>4, <2>1, ExportGoesOn DEF ExportStep, OpenConnection, TransfersTyped, Underway
<1>5. CASE CountTables(e)
  <2>1. PICK T \in SUBSET LakeTables :
          counted' = [counted EXCEPT ![e] = [t \in LakeTables |-> IF t \in T THEN lake[t] ELSE -1]]
    BY <1>5 DEF CountTables, Wanted
  <2>2. PICK s \in {"copy", "send"} : Step(e, s)
    BY <1>5 DEF CountTables
  <2>3. /\ counted' \in [Exports -> Views]
        /\ counted'[e] = [t \in LakeTables |-> IF t \in T THEN lake[t] ELSE -1]
    BY <1>2, <2>1 DEF TransfersTyped, Views, Lakes
  <2>4. OneState(e)'
    BY <1>2, <1>5, <2>3 DEF CountTables, OneState, TransfersTyped
  <2>5. SentAsCounted(e)'
    BY <1>1, <1>2, <1>5, <2>2, <2>3 DEF CountTables, Step, SentAsCounted, TransfersTyped
  <2> QED
    BY <1>2, <1>5, <2>1, <2>2, <2>3, <2>4, <2>5, ExportGoesOn
    DEF ExportStep, CountTables, TransfersTyped, Underway
<1>6. CASE CopyToParquet(e)
  <2>1. OneState(e)' /\ SentAsCounted(e)'
    BY <1>1, <1>2, <1>6 DEF CopyToParquet, Step, OneState, SentAsCounted, TransfersTyped
  <2> QED
    BY <1>2, <1>6, <2>1, ExportGoesOn DEF ExportStep, CopyToParquet, TransfersTyped, Underway
<1>7. CASE SendTable(e)
  <2>1. PICK t \in LakeTables : sent' = [sent EXCEPT ![e][t] = counted[e][t]]
    BY <1>7 DEF SendTable, Reads
  <2>2. sent' \in [Exports -> Views]
    BY <1>2, <2>1 DEF TransfersTyped, Views
  <2>3. \A u \in LakeTables : sent'[e][u] = IF u = t THEN counted[e][t] ELSE sent[e][u]
    BY <1>2, <2>1 DEF TransfersTyped, Views
  <2>4. OneState(e)'
    BY <1>1, <1>7 DEF SendTable, OneState
  <2>5. SentAsCounted(e)'
    BY <1>1, <1>7, <2>3 DEF SendTable, SentAsCounted
  <2>6. Step(e, "send")
    BY <1>2, <1>7 DEF SendTable, Step, TransfersTyped
  <2>7. \A d \in Exports : d # e => sent'[d] = sent[d]
    BY <1>2, <2>1 DEF TransfersTyped
  <2> QED
    BY <1>2, <1>7, <2>2, <2>4, <2>5, <2>6, <2>7, ExportGoesOn DEF ExportStep, SendTable, TransfersTyped, Underway
<1>8. CASE CommitExport(e)
  <2>1. \A t \in LakeTables : sent[e][t] = counted[e][t]
    BY <1>1, <1>8 DEF CommitExport, SentAsCounted
  <2>2. sent[e] = counted[e]
    BY <1>2, <2>1 DEF TransfersTyped, Views
  <2> QED
    BY <1>8, <2>2, EndsExport DEF ExportStep, CommitExport, Underway
<1>9. CASE ExportFails(e)
  BY <1>9, EndsExport DEF ExportStep, ExportFails
<1>10. CASE NothingToCount(e)
  BY <1>10, EndsExport DEF ExportStep, NothingToCount, Underway
<1>11. CASE WriteRejects(e)
  BY <1>11, EndsExport DEF ExportStep, WriteRejects, Underway
<1>12. CASE ExportClientLeaves(e) \/ TimeoutDestroys(e)
  <2>1. UNCHANGED <<lake, pasts, concurrency, activeExports, transferStage, counted, sent, temp, importVars>>
    BY <1>12 DEF ExportStep, ExportClientLeaves, TimeoutDestroys
  <2> QED
    BY <2>1 DEF TransfersInv, TransfersTyped, SlotsCounted, SlotHolders, TempsHeld, OneState,
                SentAsCounted, Underway, Loads, importVars
<1> QED
  BY <1>3, <1>4, <1>5, <1>6, <1>7, <1>8, <1>9, <1>10, <1>11, <1>12 DEF ExportStep, EngineStep

\* What a step of an import has to keep.
LEMMA ImportGoesOn ==
  ASSUME TransfersInv, NEW i \in Imports, NEW s \in ImportStages, To(i, s),
         UNCHANGED <<concurrency, exportVars>>, askOf' = askOf,
         lake' \in Lakes, pasts' = pasts \cup {lake'}, base' \in [Imports -> Nat],
         \/ temp' = temp \ {i}
         \/ (temp' = temp \cup {i} \/ temp' = temp) /\ s \in {"plan", "write", "insert"}
  PROVE  TransfersInv'
<1>1. TransfersTyped'
  BY DEF TransfersInv, TransfersTyped, To, exportVars
<1>2. SlotsCounted'
  BY DEF TransfersInv, SlotsCounted, SlotHolders, Underway, exportVars
<1>3. TempsHeld'
  <2>1. \A e \in Exports \cap temp' : Underway(e)'
    BY TransfersAssumption DEF TransfersInv, TempsHeld, Underway, exportVars
  <2>2. ASSUME NEW j \in Imports \cap temp' PROVE Loads(j)'
    <3>1. CASE j = i
      BY <2>2, <3>1 DEF TransfersInv, TransfersTyped, To, Loads
    <3>2. CASE j # i
      BY <2>2, <3>2 DEF TransfersInv, TransfersTyped, TempsHeld, To, Loads
    <3> QED
      BY <3>1, <3>2
  <2> QED
    BY <2>1, <2>2 DEF TransfersInv, TempsHeld
<1>4. ASSUME NEW e \in Exports PROVE OneState(e)' /\ SentAsCounted(e)'
  BY DEF TransfersInv, OneState, SentAsCounted, exportVars
<1> QED
  BY <1>1, <1>2, <1>3, <1>4 DEF TransfersInv

LEMMA ImportKeeps ==
  ASSUME TransfersInv, NEW i \in Imports, ImportStep(i)
  PROVE  TransfersInv'
<1> USE DEF ImportStages
<1>1. /\ lake \in Lakes /\ pasts = pasts \cup {lake} /\ base \in [Imports -> Nat]
      /\ Table(i) \in LakeTables
      /\ UNCHANGED <<concurrency, exportVars>>
  BY TransfersAssumption DEF TransfersInv, TransfersTyped, ImportStep, Table
<1>2. \A v \in Nat : Commit(i, v) => lake' \in Lakes /\ pasts' = pasts \cup {lake'}
  BY <1>1 DEF Commit, Lakes
<1>3. CASE Spool(i)
  BY <1>1, <1>3, ImportGoesOn DEF Spool
<1>4. CASE PlanImport(i)
  <2>1. PICK s \in {"refused", "write"} :
          To(i, s) /\ temp' = IF s = "refused" THEN temp \ {i} ELSE temp
    BY <1>4 DEF PlanImport
  <2> QED
    BY <1>1, <1>4, <2>1, ImportGoesOn DEF PlanImport
<1>5. CASE WriteRows(i)
  <2>1. lake[Table(i)] + 1 \in Nat
    BY <1>1 DEF Lakes
  <2>2. lake' \in Lakes /\ pasts' = pasts \cup {lake'}
    BY <1>1, <1>2, <1>5, <2>1 DEF WriteRows
  <2>3. PICK s \in {"refused", "done"} : To(i, s)
    BY <1>5 DEF WriteRows
  <2> QED
    BY <1>1, <1>5, <2>2, <2>3, ImportGoesOn DEF WriteRows
<1>6. CASE DeleteOld(i)
  <2>1. lake[Table(i)] \in Nat
    BY <1>1 DEF Lakes
  <2>2. lake' \in Lakes /\ pasts' = pasts \cup {lake'}
    BY <1>2, <1>6, <2>1 DEF DeleteOld, AfterDelete
  <2>3. base' \in [Imports -> Nat]
    BY <1>1, <1>6, <2>1 DEF DeleteOld
  <2> QED
    BY <1>1, <1>6, <2>2, <2>3, ImportGoesOn DEF DeleteOld
<1>7. CASE InsertNew(i)
  <2>1. base[i] + 1 \in Nat
    BY <1>1
  <2>2. lake' \in Lakes /\ pasts' = pasts \cup {lake'}
    BY <1>1, <1>2, <1>7, <2>1 DEF InsertNew
  <2>3. PICK s \in {"refused", "done"} : To(i, s)
    BY <1>7 DEF InsertNew
  <2> QED
    BY <1>1, <1>7, <2>2, <2>3, ImportGoesOn DEF InsertNew
<1>8. CASE ImportFails(i)
  BY <1>1, <1>8, ImportGoesOn DEF ImportFails
<1> QED
  BY <1>3, <1>4, <1>5, <1>6, <1>7, <1>8 DEF ImportStep

\* Every step keeps the invariant.
THEOREM TransfersStep == TransfersInv /\ [TransfersNext]_tvars => TransfersInv'
<1> SUFFICES ASSUME TransfersInv, [TransfersNext]_tvars PROVE TransfersInv'
  OBVIOUS
<1>1. CASE \E e \in Exports : ExportStep(e)
  BY <1>1, ExportKeeps
<1>2. CASE \E i \in Imports : ImportStep(i)
  BY <1>2, ImportKeeps
<1>3. CASE ChangeConcurrency \/ UNCHANGED tvars
  <2>1. /\ UNCHANGED <<lake, pasts, exportVars, temp, importVars>>
        /\ concurrency' \in Slots
    BY <1>3 DEF ChangeConcurrency, tvars, exportVars, importVars, TransfersInv, TransfersTyped
  <2> QED
    BY <2>1 DEF TransfersInv, TransfersTyped, SlotsCounted, SlotHolders, TempsHeld, OneState,
                SentAsCounted, Underway, Loads, exportVars, importVars
<1> QED
  BY <1>1, <1>2, <1>3 DEF TransfersNext

LEMMA TransfersTell == TransfersInv => TransfersTypeOK /\ TransfersWhole
<1> SUFFICES ASSUME TransfersInv PROVE TransfersTypeOK /\ TransfersWhole
  OBVIOUS
<1>1. activeExports \in 0..Cardinality(Exports)
  BY TransfersAssumption, FS_Subset, FS_CardinalityType DEF TransfersInv, SlotsCounted, SlotHolders
<1>2. TransfersTypeOK
  BY <1>1 DEF TransfersTypeOK, TransfersInv, TransfersTyped, TempsHeld, Lakes, ExportStages, ImportStages
<1>3. ASSUME NEW e \in Exports, transferStage[e] = "done"
      PROVE  /\ sent[e] = counted[e]
             /\ \E p \in pasts : \A t \in LakeTables :
                  sent[e][t] # -1 => sent[e][t] = p[t] /\ p[t] # Emptied
  <2>1. sent[e] = counted[e]
    BY <1>3 DEF TransfersInv, SentAsCounted
  <2>2. PICK p \in pasts : \A t \in LakeTables : counted[e][t] \in {-1, p[t]}
    BY DEF TransfersInv, OneState
  <2>3. \A t \in LakeTables : p[t] \in Nat
    BY DEF TransfersInv, TransfersTyped, Lakes
  <2> QED
    BY <2>1, <2>2, <2>3 DEF Emptied
<1> QED
  BY <1>2, <1>3 DEF TransfersWhole, TransfersInv, SlotsCounted, SlotHolders, TempsHeld

\* For any exports, imports and limits, changed at any time: an export that
\* ends well sent what it described, which is one state the lake was in,
\* whatever was imported meanwhile; slots are counted for their holders; and
\* no request that is over leaves a temp file.
THEOREM TransfersAlwaysWhole == TransfersSpec => [](TransfersTypeOK /\ TransfersWhole)
  BY TransfersInitially, TransfersStep, TransfersTell, PTL DEF TransfersSpec

-----------------------------------------------------------------------------
(* The parts of the console together (MCConsole) *)

\* A behaviour of the run console is one of every part: its own moves, the
\* others stay as they began.
LEMMA PartsBegin ==
  ConsoleInit => /\ part \in {"maintenance", "prune", "settings", "transfers"}
                 /\ MaintInit /\ PruneInit /\ SettingsInit /\ TransfersInit
BY DEF ConsoleInit, MaintRests, PruneRests, TransfersRest

LEMMA PartsMove ==
  [ConsoleNext]_consolevars =>
    /\ part' = part
    /\ [MaintNext]_mvars /\ [PruneNext]_pruneVars /\ [SettingsNext]_cvars /\ [TransfersNext]_tvars
BY DEF ConsoleNext, consolevars

\* Every state of the run console is well typed (TypesOK), and what the run
\* checks of jobs, exports and imports holds for any values of the constants
\* (src/console/maintenance.js, src/console/retention.js, src/console/store.js,
\* src/export.js, src/console/data.js).
THEOREM ConsoleAlwaysSafe ==
  ConsoleSpec => [](TypesOK /\ JobsSafe /\ TransfersWhole)
<1> DEFINE Parted == part \in {"maintenance", "prune", "settings", "transfers"}
<1>1. ConsoleSpec => /\ Parted /\ [][part' = part]_part
                     /\ MaintInit /\ [][MaintNext]_mvars
                     /\ PruneInit /\ [][PruneNext]_pruneVars
                     /\ SettingsInit /\ [][SettingsNext]_cvars
                     /\ TransfersInit /\ [][TransfersNext]_tvars
  BY PartsBegin, PartsMove, PTL DEF ConsoleSpec
<1>2. Parted /\ [][part' = part]_part => []Parted
  <2>1. Parted /\ [part' = part]_part => Parted'
    OBVIOUS
  <2> QED
    BY <2>1, PTL
<1>3. MaintInit /\ [][MaintNext]_mvars => []MaintTypeOK
  BY MaintTypeCorrect DEF MaintSpec
<1>4. PruneInit /\ [][PruneNext]_pruneVars => [](PruneTypeOK /\ JobsSafe)
  BY PruneTypeCorrect, JobsAlwaysSafe, PTL DEF PruneSpec
<1>5. SettingsInit /\ [][SettingsNext]_cvars => []SettingsTypeOK
  BY SettingsInitTyped, SettingsStepTyped, SettingsTells, PTL
<1>6. TransfersInit /\ [][TransfersNext]_tvars => [](TransfersTypeOK /\ TransfersWhole)
  BY TransfersInitially, TransfersStep, TransfersTell, PTL
<1>7. Parted /\ MaintTypeOK /\ PruneTypeOK /\ SettingsTypeOK /\ TransfersTypeOK => TypesOK
  BY DEF TypesOK
<1> QED
  BY <1>1, <1>2, <1>3, <1>4, <1>5, <1>6, <1>7, PTL
=============================================================================
