----------------------------- MODULE PruneRules -----------------------------
(***************************************************************************)
(* The scheduler of prune rules (src/console/retention.js) and the claims  *)
(* and the run log it keeps in src/console/store.js: several gateways      *)
(* share one rule, an administrator edits and runs it, and jobs outlive    *)
(* neither their process nor a log that forgets them.                      *)
(*                                                                         *)
(* The rule's schedule comes at every unit of time.  What a job deletes is *)
(* RecordBlobs' matter.  A claim token is random, so the tick that stored  *)
(* it stands for it.  Times are absolute; 0 is SQL NULL.                   *)
(***************************************************************************)
EXTENDS Integers, Sequences, FiniteSets

CONSTANTS
  PruneHosts,    \* gateways, one process per host
  PruneFaults,   \* what may go wrong, see PruneFaultKinds
  StaleRun,      \* STALE_RUN_MS
  Nobody,
  QuietAfter,    \* bound: no fault and no edit after this time
  MaxRuns,       \* bound: jobs started
  EndOfTime      \* bound: the clock stops here

\* "crash": processes die and are started again; "dbError": a database call
\* throws; "insert": the call that logs a started job throws; "stale": an edit
\* stores a next run that was claimed since the edit read it; "undetected":
\* overlapping UPDATEs both commit, which claimRule's comment expects.
PruneFaultKinds == {"crash", "dbError", "insert", "stale", "undetected"}

Undetected == "undetected" \in PruneFaults

ASSUME PruneAssumption ==
  /\ PruneFaults \subseteq PruneFaultKinds
  /\ StaleRun \in Nat /\ QuietAfter \in Nat /\ MaxRuns \in Nat /\ EndOfTime \in Nat
  /\ Nobody \notin PruneHosts

VARIABLES
  clock,         \* Date.now()
  ruleOn,        \* the rule: enabled,
  due,           \*   next_run_ms,
  holder,        \*   the host whose current tick wrote claim_token
  upHosts,       \* gateways whose scheduler is started
  runningRules,  \* gateways that count the rule as running
  starting,      \* where each tick and each manual start is
  tickAt,        \* "now" of each gateway's last tick, or -1
  behind,        \* ticks whose UPDATE overlaps a later commit
  runs,          \* jobs: their row of _console_prune_runs, and their code
  claimed        \* history: the last due time that was claimed

pruneVars == <<clock, ruleOn, due, holder, upHosts, runningRules,
               starting, tickAt, behind, runs, claimed>>

rule == <<ruleOn, due, holder, claimed>>

Starts == PruneHosts \X {"schedule", "manual"}
Tick(h) == <<h, "schedule">>

\* Mutant: the last instant of the schedule.
LastSlot(t) == t - 1

\* The next instant of the schedule.
NextSlot(t) == t + 1

PruneInit ==
  /\ clock = 0
  /\ ruleOn = TRUE /\ due \in {0, 1} /\ holder = Nobody
  /\ upHosts = {} /\ runningRules = {}
  /\ starting = [c \in Starts |-> "idle"]
  /\ tickAt = [h \in PruneHosts |-> -1]
  /\ behind = {}
  /\ runs = <<>>
  /\ claimed = 0

At(c, from, to) == starting[c] = from /\ starting' = [starting EXCEPT ![c] = to]

MayGoWrong(kind) == kind \in PruneFaults /\ clock <= QuietAfter

\* The rule's row is written: claims that took their snapshot before are late.
RuleWritten == behind' = behind \cup {h \in PruneHosts : starting[Tick(h)] = "updating"}

\* Bound: there is room for one more job.
Room ==
  Len(runs) + Cardinality({c \in Starts : starting[c] \notin {"idle", "tick", "due", "setting"}})
    < MaxRuns

\* Those of the jobs in S that the log has as running are called abandoned.
Abandon(S) ==
  runs' = [i \in DOMAIN runs |-> IF i \in S /\ runs[i].status = "running"
                                 THEN [runs[i] EXCEPT !.status = "abandoned"] ELSE runs[i]]

----------------------------------------------------------------------------
(* The tick *)

\* The timer fires, once in every unit of time and host, while no tick is in progress.
TickStarts(h) ==
  /\ h \in upHosts /\ tickAt[h] < clock
  /\ At(Tick(h), "idle", "tick")
  /\ tickAt' = [tickAt EXCEPT ![h] = clock]
  /\ UNCHANGED <<clock, rule, upHosts, runningRules, behind, runs>>

\* Mutant: runs of processes that died are left to their hosts.
AbandonNone(h) ==
  /\ At(Tick(h), "tick", "due")
  /\ UNCHANGED <<clock, rule, upHosts, runningRules, tickAt, behind, runs>>

\* abandonStaleRuns, of all gateways.
AbandonStale(h) ==
  /\ At(Tick(h), "tick", "due")
  /\ Abandon({i \in DOMAIN runs : runs[i].started + StaleRun < tickAt[h]})
  /\ UNCHANGED <<clock, rule, upHosts, runningRules, tickAt, behind>>

\* dueRuleIds; a rule that runs here is passed over.
FindDue(h) ==
  /\ \/ /\ ruleOn /\ due <= tickAt[h] /\ h \notin runningRules /\ Room
        /\ At(Tick(h), "due", "read")
     \/ /\ ~(ruleOn /\ due <= tickAt[h] /\ h \notin runningRules /\ Room)
        /\ At(Tick(h), "due", "idle")
  /\ UNCHANGED <<clock, rule, upHosts, runningRules, tickAt, behind, runs>>

\* getPruneRule: a rule that was never scheduled is, any other is claimed.
\* The token is new, so one that this host stored before is nobody's.
ReadRule(h) ==
  /\ At(Tick(h), "read", IF due = 0 THEN "setting" ELSE "claiming")
  /\ holder' = IF holder = h THEN Nobody ELSE holder
  /\ UNCHANGED <<clock, ruleOn, due, claimed, upHosts, runningRules, tickAt,
                 behind, runs>>

\* setRuleNextRun, whatever the row says by now: a slot that another gateway
\* scheduled and claimed meanwhile would be stored again.
SetRuleNext(h) ==
  /\ At(Tick(h), "setting", "idle")
  /\ due' = NextSlot(tickAt[h]) /\ RuleWritten
  /\ UNCHANGED <<clock, ruleOn, holder, claimed, upHosts, runningRules, tickAt, runs>>

\* claimRule: the UPDATE takes its snapshot and finds the rule due, or not.
BeginClaim(h) ==
  /\ At(Tick(h), "claiming", IF ruleOn /\ due <= tickAt[h] THEN "updating" ELSE "idle")
  /\ UNCHANGED <<clock, rule, upHosts, runningRules, tickAt, behind, runs>>

\* Mutant: the due time is left for the end of the job.
ClaimKeepingDue(h) ==
  /\ h \notin behind \/ Undetected
  /\ At(Tick(h), "updating", "verifying")
  /\ holder' = h /\ claimed' = due
  /\ behind' = {g \in PruneHosts \ {h} : g \in behind \/ starting[Tick(g)] = "updating"}
  /\ UNCHANGED <<ruleOn, due>>

\* The UPDATE commits ...
ClaimCommits(h) ==
  /\ h \notin behind \/ Undetected
  /\ At(Tick(h), "updating", "verifying")
  /\ holder' = h /\ due' = NextSlot(tickAt[h]) /\ claimed' = due
  /\ behind' = {g \in PruneHosts \ {h} : g \in behind \/ starting[Tick(g)] = "updating"}
  /\ UNCHANGED ruleOn

\* ... or conflicts with a commit since its snapshot.
CommitClaim(h) ==
  /\ \/ ClaimCommits(h)
     \/ /\ h \in behind /\ ~Undetected
        /\ At(Tick(h), "updating", "idle")
        /\ behind' = behind \ {h}
        /\ UNCHANGED rule
  /\ UNCHANGED <<clock, upHosts, runningRules, tickAt, runs>>

\* The token is read back.
VerifyClaim(h) ==
  /\ At(Tick(h), "verifying", IF holder = h THEN "starting" ELSE "idle")
  /\ UNCHANGED <<clock, rule, upHosts, runningRules, tickAt, behind, runs>>

\* A database call of the tick, or the first one of startJob, throws.
TickFails(c) ==
  /\ MayGoWrong("dbError")
  /\ starting[c] \notin {"idle", "inserting"}
  /\ starting' = [starting EXCEPT ![c] = "idle"]
  /\ behind' = IF c = Tick(c[1]) THEN behind \ {c[1]} ELSE behind
  /\ UNCHANGED <<clock, rule, upHosts, runningRules, tickAt, runs>>

----------------------------------------------------------------------------
(* Jobs *)

\* POST /retention/rules/:id/run.
RunRule(h) ==
  /\ h \in upHosts /\ Room
  /\ At(<<h, "manual">>, "idle", "starting")
  /\ UNCHANGED <<clock, rule, upHosts, runningRules, tickAt, behind, runs>>

\* Mutant: whether the rule runs here is not looked at again.
StartJobUnchecked(c) ==
  /\ runningRules' = runningRules \cup {c[1]}
  /\ At(c, "starting", "inserting")
  /\ UNCHANGED <<clock, rule, upHosts, tickAt, behind, runs>>

\* startJob reads the rule and refuses one that is running here.
StartJob(c) ==
  /\ \/ /\ c[1] \notin runningRules
        /\ runningRules' = runningRules \cup {c[1]}
        /\ At(c, "starting", "inserting")
     \/ /\ c[1] \in runningRules
        /\ At(c, "starting", "idle")
        /\ UNCHANGED runningRules
  /\ UNCHANGED <<clock, rule, upHosts, tickAt, behind, runs>>

\* insertRun; runJob goes on in the background.
InsertRun(c) ==
  /\ At(c, "inserting", "idle")
  /\ runs' = Append(runs, [host |-> c[1], started |-> clock, status |-> "running",
                           code |-> "working"])
  /\ UNCHANGED <<clock, rule, upHosts, runningRules, tickAt, behind>>

\* insertRun throws, outside of what clears runningRules.
InsertFails(c) ==
  /\ MayGoWrong("insert")
  /\ At(c, "inserting", "idle")
  /\ UNCHANGED <<clock, rule, upHosts, runningRules, tickAt, behind, runs>>

\* The .finally of runJob.
JobOver(i) == runningRules' = runningRules \ {runs[i].host}

\* The tables are done, one way or another; finishRun records it, also over
\* "abandoned".  Where it throws, the job is over.
FinishRun(i) ==
  /\ runs[i].code = "working"
  /\ \/ /\ runs' = [runs EXCEPT ![i].status = "done", ![i].code = "recording"]
        /\ UNCHANGED runningRules
     \/ /\ MayGoWrong("dbError")
        /\ runs' = [runs EXCEPT ![i].code = "over"]
        /\ JobOver(i)
  /\ UNCHANGED <<clock, rule, upHosts, starting, tickAt, behind>>

\* recordRuleResult and the audit entry.
RecordResult(i) ==
  /\ runs[i].code = "recording"
  /\ RuleWritten \/ (MayGoWrong("dbError") /\ UNCHANGED behind)
  /\ runs' = [runs EXCEPT ![i].code = "over"]
  /\ JobOver(i)
  /\ UNCHANGED <<clock, rule, upHosts, starting, tickAt>>

----------------------------------------------------------------------------
(* Administrator, processes, clock *)

\* Ticks that will find, or have found, that the rule has no next run.
Scheduling == {h \in PruneHosts : \/ starting[Tick(h)] = "setting"
                                  \/ due = 0 /\ starting[Tick(h)] \in {"tick", "due", "read"}}

\* Bound: no tick that may yet find so began in an earlier unit of time.
InTime == \A h \in PruneHosts : starting[Tick(h)] \in {"tick", "due", "read"} => tickAt[h] = clock

\* PATCH /retention/rules/:id.
EnableRule ==
  /\ clock <= QuietAfter
  /\ ruleOn' \in BOOLEAN
  /\ ruleOn' \/ InTime
  /\ due' = (IF ruleOn' THEN NextSlot(clock) ELSE 0) /\ RuleWritten
  /\ UNCHANGED <<clock, holder, claimed, upHosts, runningRules, starting, tickAt, runs>>

\* PUT /retention/rules/:id writes an enabled rule back with the next run it
\* read; when "stale", that one was claimed since.
EditRule ==
  /\ clock <= QuietAfter /\ ruleOn /\ due # 0
  /\ due' \in {due} \cup (IF "stale" \in PruneFaults THEN {claimed} \ {0} ELSE {})
  /\ RuleWritten
  /\ UNCHANGED <<clock, ruleOn, holder, claimed, upHosts, runningRules, starting, tickAt, runs>>

\* Mutant: the runs of every host are taken for a dead process's.
BootAbandoningAll(h) ==
  /\ h \notin upHosts
  /\ upHosts' = upHosts \cup {h}
  /\ Abandon(DOMAIN runs)
  /\ UNCHANGED <<clock, rule, runningRules, starting, tickAt, behind>>

\* startPruneScheduler: runs logged by this host are a dead process's; an
\* error of the UPDATE is ignored.
BootPrune(h) ==
  /\ h \notin upHosts
  /\ upHosts' = upHosts \cup {h}
  /\ \/ Abandon({i \in DOMAIN runs : runs[i].host = h})
     \/ MayGoWrong("dbError") /\ UNCHANGED runs
  /\ UNCHANGED <<clock, rule, runningRules, starting, tickAt, behind>>

CrashPrune(h) ==
  /\ MayGoWrong("crash")
  /\ h \in upHosts
  /\ upHosts' = upHosts \ {h}
  /\ runningRules' = runningRules \ {h}
  /\ starting' = [c \in Starts |-> IF c[1] = h THEN "idle" ELSE starting[c]]
  /\ behind' = behind \ {h}
  /\ runs' = [i \in DOMAIN runs |-> IF runs[i].host = h
                                    THEN [runs[i] EXCEPT !.code = "over"] ELSE runs[i]]
  /\ UNCHANGED <<clock, rule, tickAt>>

\* Bound: a slot is stored in the unit of time its tick began in, see SetRuleNext.
PruneClock ==
  /\ clock < EndOfTime
  /\ Scheduling = {}
  /\ clock' = clock + 1
  /\ UNCHANGED <<rule, upHosts, runningRules, starting, tickAt, behind, runs>>

TickStep(h) ==
  \/ TickStarts(h) \/ AbandonStale(h) \/ FindDue(h) \/ ReadRule(h) \/ SetRuleNext(h)
  \/ BeginClaim(h) \/ CommitClaim(h) \/ VerifyClaim(h)

StartStep(c) == StartJob(c) \/ InsertRun(c) \/ InsertFails(c) \/ TickFails(c)

JobStep(i) == i \in DOMAIN runs /\ (FinishRun(i) \/ RecordResult(i))

PruneNext ==
  \/ \E h \in PruneHosts : TickStep(h) \/ RunRule(h) \/ BootPrune(h) \/ CrashPrune(h)
  \/ \E c \in Starts : StartStep(c)
  \/ \E i \in 1..MaxRuns : JobStep(i)
  \/ EnableRule \/ EditRule \/ PruneClock

PruneSpec == PruneInit /\ [][PruneNext]_pruneVars

\* A supervisor starts gateways again, timers fire, database calls return, jobs
\* end, and time passes however often a rule is being scheduled.
PruneFairness ==
  /\ \A h \in PruneHosts : WF_pruneVars(BootPrune(h)) /\ WF_pruneVars(TickStep(h))
  /\ \A c \in Starts : WF_pruneVars(StartStep(c))
  /\ \A i \in 1..MaxRuns : WF_pruneVars(JobStep(i))
  /\ SF_pruneVars(PruneClock)

FairPruneSpec == PruneSpec /\ PruneFairness

----------------------------------------------------------------------------
(* Properties *)

\* An entry of the run log, and where its job is.
Run == [host : PruneHosts, started : Nat, status : {"running", "done", "abandoned"},
        code : {"working", "recording", "over"}]

PruneTypeOK ==
  /\ clock \in 0..EndOfTime
  /\ ruleOn \in BOOLEAN /\ due \in Nat /\ holder \in PruneHosts \cup {Nobody}
  /\ upHosts \subseteq PruneHosts /\ runningRules \subseteq upHosts
  /\ starting \in [Starts -> {"idle", "tick", "due", "read", "setting", "claiming", "updating",
                              "verifying", "starting", "inserting"}]
  /\ tickAt \in [PruneHosts -> Nat \cup {-1}] /\ claimed \in Nat
  /\ behind \subseteq {h \in PruneHosts : starting[Tick(h)] = "updating"}
  /\ runs \in Seq(Run)

Active == {i \in DOMAIN runs : runs[i].code # "over"}

\* "Only one instance runs it": each due time is claimed once, although a claim
\* is an UPDATE and a re-read, and gateways, edits and results write the same row.
PruneSlotOnce ==
  [][\A h \in PruneHosts :
       starting[Tick(h)] = "updating" /\ starting'[Tick(h)] = "verifying"
         => due > claimed]_pruneVars

\* A gateway never works on a rule twice at once, whether its schedule or an
\* administrator starts the jobs.
OneJobEach ==
  \A i, j \in Active : runs[i].host = runs[j].host => i = j

\* A run is called abandoned only when its process is gone, or it is older than
\* any job is expected to last.
AbandonedDead ==
  \A i \in Active : runs[i].status = "abandoned" => runs[i].started + StaleRun < clock

\* A gateway works on a rule once at a time, and the log calls no job abandoned
\* that is at work: together they make the log worth reading.
JobsSafe == OneJobEach /\ AbandonedDead

\* No run stays "running" in the log for ever, whether its process died or its
\* result could not be stored.
Unsettled(i) == i \in DOMAIN runs /\ runs[i].status = "running"
RunsSettle == \A i \in 1..MaxRuns : []<>~Unsettled(i)

\* While a gateway counts the rule as running, and refuses to start it as
\* "already running on this gateway", some job of it is at work or being started.
RunningIsRunning ==
  \A h \in runningRules :
     \/ \E i \in Active : runs[i].host = h
     \/ \E c \in Starts : c[1] = h /\ starting[c] = "inserting"
=============================================================================
