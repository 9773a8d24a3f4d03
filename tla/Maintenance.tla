---------------------------- MODULE Maintenance ----------------------------
(***************************************************************************)
(* Scheduled lake maintenance (src/console/maintenance.js) and the claim,  *)
(* lease and settings functions it uses in src/console/store.js: several   *)
(* gateways share the single row of _console_maintenance and must agree on *)
(* who runs a due job.                                                     *)
(*                                                                         *)
(* A caller is one activation of startMaintenance: the scheduler tick, the *)
(* startup run or a "Run now" of one gateway.  The claim token is random,  *)
(* so the caller stands for it.  Times are absolute; 0 is SQL NULL.  What  *)
(* maintenance does to the lake is left out: only that a job is at work.   *)
(***************************************************************************)
EXTENDS Integers

CONSTANTS
  Gateways,      \* instances, one process per host
  Activations,   \* the triggers that occur at each gateway, see TriggerKinds
  Families,      \* the schedules that may be saved, as periods; 0 is a valid
                 \* one that never comes, as "0 0 30 2 *".  Bound: a schedule
                 \* is replaced by one of its family
  Lease,         \* LEASE_MS
  StartupSkip,   \* STARTUP_SKIP_MS
  Conflicts,     \* does DuckLake reject the later of two overlapping UPDATEs?
  NeverIsFinal,  \* bound: a schedule that never comes is not replaced by one
                 \* that does, see SaveSchedule
  MaintFaults,        \* what may go wrong, see MaintFaultKinds
  NoCaller,
  LastFault,     \* bound: no crash, error or settings change after this time
  MaxTime        \* bound: the clock stops here

TriggerKinds == {"schedule", "startup", "manual"}

\* "slow": a job outlives its lease; "crash": processes die and are started
\* again; "dbError": a database call of this module throws.
MaintFaultKinds == {"slow", "crash", "dbError"}

Periods == UNION Families

GatewayOf(c) == c[1]
TriggerOf(c) == c[2]

ASSUME MaintenanceAssumption ==
  /\ Activations \subseteq Gateways \X TriggerKinds
  /\ Families \subseteq SUBSET Nat
  /\ Lease \in Nat \ {0}
  /\ StartupSkip \in Nat
  /\ Conflicts \in BOOLEAN
  /\ NeverIsFinal \in BOOLEAN
  /\ MaintFaults \subseteq MaintFaultKinds
  /\ NoCaller \notin Activations
  /\ LastFault \in Nat
  /\ MaxTime \in Nat

VARIABLES
  now,       \* Date.now()
  enabled,   \* the row of _console_maintenance: column by column
  period,    \* schedule
  nextRun,   \* next_run_ms
  lease,     \* lease_until_ms
  token,     \* claim_token
  lastRun,   \* last_run_ms
  up,        \* gateways whose scheduler is started
  running,   \* gateways whose "running" flag is set
  step,        \* where each caller is
  at,        \* "now" of startMaintenance, while it or its job goes on
  next,      \* the next run its claim will store
  stale,     \* callers whose UPDATE overlaps a later commit
  taken      \* history: the last due time a scheduled run was claimed for

settings == <<enabled, period>>
row == <<enabled, period, nextRun, lease, token, lastRun>>
mvars == <<now, row, up, running, step, at, next, stale, taken>>

----------------------------------------------------------------------------
(* The row *)

\* computeNext: the first instant of the schedule after t, or NULL.
NextAfter(p, t) == IF p = 0 THEN 0 ELSE ((t \div p) + 1) * p

\* Mutant: a lease never lapses, it is free only when given back.
LeaseFreeWhenGivenBack(t) == lease = 0

LeaseFree(t) == lease <= t

\* The WHERE clause of claimMaintenance.
Due(t) == enabled /\ nextRun <= t

\* Mutant: force skips the lease as well as the schedule.
ClaimableByForce(c) ==
  TriggerOf(c) # "schedule" \/ (LeaseFree(at[c]) /\ Due(at[c]))

Claimable(c) == LeaseFree(at[c]) /\ (TriggerOf(c) # "schedule" \/ Due(at[c]))

StepTo(c, label) == step' = [step EXCEPT ![c] = label]

\* The activation is over and its locals are gone.
Leave(c) ==
  /\ StepTo(c, "idle")
  /\ at' = [at EXCEPT ![c] = 0]
  /\ next' = [next EXCEPT ![c] = 0]

Continue(c, label) == StepTo(c, label) /\ UNCHANGED <<at, next>>

\* A commit to the row: every claim that took its snapshot before is stale.
RowWritten == stale' = stale \cup {c \in Activations : step[c] = "updating"}

NoWrite == UNCHANGED <<row, stale>>

MaintInit ==
  /\ now = 0
  /\ enabled = TRUE
  /\ period \in Periods \ {0}
  /\ nextRun = NextAfter(period, 0)
  /\ lease = 0
  /\ token = NoCaller
  /\ lastRun = 0
  /\ up = {}
  /\ running = {}
  /\ step = [c \in Activations |-> "idle"]
  /\ at = [c \in Activations |-> 0]
  /\ next = [c \in Activations |-> 0]
  /\ stale = {}
  /\ taken = 0

----------------------------------------------------------------------------
(* Starting a gateway *)

\* Mutant: every lease is released, not only this host's.
BootReleasingAll(g) ==
  /\ g \notin up
  /\ up' = up \cup {g}
  /\ lease' = 0 /\ RowWritten
  /\ step' = [c \in Activations |-> IF c = <<g, "startup">> THEN "booting" ELSE step[c]]
  /\ UNCHANGED <<now, settings, nextRun, token, lastRun, running, at, next, taken>>

\* startMaintenanceScheduler: a lease held under this host name belongs to a
\* process that is gone; an error of this UPDATE is ignored.
BootHost(g) ==
  /\ g \notin up
  /\ up' = up \cup {g}
  /\ IF lease # 0 /\ token # NoCaller /\ GatewayOf(token) = g
     THEN \/ lease' = 0 /\ RowWritten
             /\ UNCHANGED <<settings, nextRun, token, lastRun>>
          \/ "dbError" \in MaintFaults /\ now <= LastFault /\ NoWrite
     ELSE NoWrite
  /\ step' = [c \in Activations |-> IF c = <<g, "startup">> THEN "booting" ELSE step[c]]
  /\ UNCHANGED <<now, running, at, next, taken>>

\* The startup run is skipped when the job is off or a run finished recently.
StartupCheck(g) ==
  LET c == <<g, "startup">> IN
  /\ c \in Activations
  /\ step[c] = "booting"
  /\ IF /\ enabled
        /\ lastRun = 0 \/ now - lastRun >= StartupSkip
        /\ g \notin running
     THEN Continue(c, "config") ELSE Leave(c)
  /\ UNCHANGED <<now, row, up, running, stale, taken>>

----------------------------------------------------------------------------
(* Activations *)

\* POST /console/api/maintenance/run while nothing runs on this gateway.
RunNow(g) ==
  LET c == <<g, "manual">> IN
  /\ c \in Activations
  /\ g \in up \ running
  /\ step[c] = "idle"
  /\ Continue(c, "config")
  /\ UNCHANGED <<now, row, up, running, stale, taken>>

\* The interval timer fires; the tick returns at once if one is in progress
\* or a job runs here.
TimerFires(g) ==
  LET c == <<g, "schedule">> IN
  /\ c \in Activations
  /\ g \in up \ running
  /\ step[c] = "idle"
  /\ Continue(c, "tick")
  /\ UNCHANGED <<now, row, up, running, stale, taken>>

\* tick reads the settings and goes on when the run is due and no lease is
\* held, or when the next run is missing and has to be computed.
TickReads(g) ==
  LET c == <<g, "schedule">>
      missing == enabled /\ nextRun = 0
      due == /\ enabled /\ nextRun # 0
             /\ nextRun <= now /\ LeaseFree(now) /\ g \notin running
  IN
  /\ c \in Activations
  /\ step[c] = "tick"
  /\ \/ /\ missing
        /\ StepTo(c, "setting")
        /\ next' = [next EXCEPT ![c] = NextAfter(period, now)]
        /\ UNCHANGED at
     \/ due /\ Continue(c, "config")
     \/ ~missing /\ ~due /\ Leave(c)
  /\ UNCHANGED <<now, row, up, running, stale, taken>>

\* setMaintenanceNextRun, unconditionally, with what the tick computed.
SetNextRun(g) ==
  LET c == <<g, "schedule">> IN
  /\ c \in Activations
  /\ step[c] = "setting"
  /\ nextRun' = next[c] /\ RowWritten
  /\ Leave(c)
  /\ UNCHANGED <<now, settings, lease, token, lastRun, up, running, taken>>

\* Mutant: the stored next run is kept, whatever the trigger.
ReadConfigKeepingNext(c) ==
  /\ step[c] = "config"
  /\ StepTo(c, "claiming")
  /\ at' = [at EXCEPT ![c] = now]
  /\ next' = [next EXCEPT ![c] = nextRun]
  /\ UNCHANGED <<now, row, up, running, stale, taken>>

\* startMaintenance reads the settings; "now" and the next run to store are
\* fixed here.
ReadConfig(c) ==
  /\ step[c] = "config"
  /\ StepTo(c, "claiming")
  /\ at' = [at EXCEPT ![c] = now]
  /\ next' = [next EXCEPT ![c] = IF TriggerOf(c) = "schedule"
                                 THEN NextAfter(period, now) ELSE nextRun]
  /\ UNCHANGED <<now, row, up, running, stale, taken>>

\* claimMaintenance: the UPDATE takes its snapshot and finds its row, or not.
\* When it does not, the token re-read afterwards is another caller's.
BeginUpdate(c) ==
  /\ step[c] = "claiming"
  /\ IF Claimable(c) THEN Continue(c, "updating") ELSE Leave(c)
  /\ UNCHANGED <<now, row, up, running, stale, taken>>

\* The other claims whose UPDATE is under way.
Overlapping(c) == {d \in Activations \ {c} : step[d] = "updating"}

\* Mutant: the lease is set before the claim's time, not after it.
ClaimRowLeasePast(c) ==
  /\ token' = c /\ nextRun' = next[c] /\ lease' = at[c] - Lease
  /\ stale' = (stale \ {c}) \cup Overlapping(c)
  /\ UNCHANGED <<settings, lastRun, taken>>

\* The UPDATE commits: token, next run and lease are stored together.
ClaimRow(c) ==
  /\ token' = c /\ nextRun' = next[c] /\ lease' = at[c] + Lease
  /\ UNCHANGED <<settings, lastRun>>
  /\ stale' = (stale \ {c}) \cup Overlapping(c)
  /\ taken' = IF TriggerOf(c) = "schedule" /\ nextRun # 0
              THEN nextRun ELSE taken

\* A commit that overlapped another one is rejected as a transaction conflict,
\* or, without conflict detection, overwrites it.
CommitUpdate(c) ==
  /\ step[c] = "updating"
  /\ \/ /\ ~Conflicts \/ c \notin stale
        /\ Continue(c, "verifying")
        /\ ClaimRow(c)
     \/ /\ Conflicts /\ c \in stale
        /\ Leave(c)
        /\ stale' = stale \ {c}
        /\ UNCHANGED <<row, taken>>
  /\ UNCHANGED <<now, up, running>>

\* The token is read back; its holder sets the running flag and records the run.
Verify(c) ==
  /\ step[c] = "verifying"
  /\ IF token = c
     THEN Continue(c, "recording") /\ running' = running \cup {GatewayOf(c)}
     ELSE Leave(c) /\ UNCHANGED running
  /\ UNCHANGED <<now, row, up, stale, taken>>

\* insertRun; the job then runs in the background.
RecordRun(c) ==
  /\ step[c] = "recording"
  /\ Continue(c, "working")
  /\ UNCHANGED <<now, row, up, running, stale, taken>>

\* Mutant: the claim is given back but the flag stays set.
RecordFailsFlagSet(c) ==
  /\ "dbError" \in MaintFaults /\ now <= LastFault
  /\ step[c] = "recording"
  /\ Continue(c, "unrecorded")
  /\ UNCHANGED <<now, row, up, running, stale, taken>>

\* insertRun throws: the flag is cleared and the claim is given back.
RecordFails(c) ==
  /\ "dbError" \in MaintFaults /\ now <= LastFault
  /\ step[c] = "recording"
  /\ running' = running \ {GatewayOf(c)}
  /\ Continue(c, "unrecorded")
  /\ UNCHANGED <<now, row, up, stale, taken>>

\* A read or the claim's UPDATE throws.
CallFails(c) ==
  /\ "dbError" \in MaintFaults /\ now <= LastFault
  /\ step[c] \in {"booting", "tick", "setting", "config", "claiming", "updating", "verifying"}
  /\ Leave(c)
  /\ stale' = stale \ {c}
  /\ UNCHANGED <<now, row, up, running, taken>>

\* runMaintenance returns or throws: the job is over.
WorkEnds(c) ==
  /\ step[c] = "working"
  /\ Continue(c, "finishing")
  /\ UNCHANGED <<now, row, up, running, stale, taken>>

\* The UPDATE of finishMaintenance: only the holder of the token gives the
\* lease back.
ReleaseLease(c) ==
  \/ /\ token = c
     /\ lease' = 0 /\ lastRun' = now /\ RowWritten
     /\ UNCHANGED <<settings, nextRun, token>>
  \/ token # c /\ NoWrite

\* finishMaintenance; its errors are logged only.
Finish(c) ==
  /\ step[c] \in {"finishing", "unrecorded"}
  /\ \/ ReleaseLease(c)
     \/ "dbError" \in MaintFaults /\ now <= LastFault /\ NoWrite
  /\ IF step[c] = "finishing" THEN Continue(c, "closing") ELSE Leave(c)
  /\ UNCHANGED <<now, up, running, taken>>

\* The audit entry is written and the flag cleared, whoever set it last.
CloseJob(c) ==
  /\ step[c] = "closing"
  /\ running' = running \ {GatewayOf(c)}
  /\ Leave(c)
  /\ UNCHANGED <<now, row, up, stale, taken>>

----------------------------------------------------------------------------
(* Administrator, processes, clock *)

\* saveMaintenanceConfig.  Without NeverIsFinal a tick that found next_run_ms
\* missing can store its slot after another gateway has claimed it, and the
\* slot is run twice: setMaintenanceNextRun does not look at the row.
SaveSchedule(on, p) ==
  /\ now <= LastFault
  /\ up # {}
  /\ settings # <<on, p>>
  /\ \E F \in Families : {period, p} \subseteq F
  /\ NeverIsFinal /\ period = 0 => p = 0
  /\ enabled' = on /\ period' = p
  /\ nextRun' = (IF on THEN NextAfter(p, now) ELSE 0) /\ RowWritten
  /\ UNCHANGED <<now, lease, token, lastRun, up, running, step, at, next, taken>>

CrashHost(g) ==
  /\ "crash" \in MaintFaults /\ now <= LastFault
  /\ g \in up
  /\ up' = up \ {g}
  /\ running' = running \ {g}
  /\ step' = [c \in Activations |-> IF GatewayOf(c) = g THEN "idle" ELSE step[c]]
  /\ at' = [c \in Activations |-> IF GatewayOf(c) = g THEN 0 ELSE at[c]]
  /\ next' = [c \in Activations |-> IF GatewayOf(c) = g THEN 0 ELSE next[c]]
  /\ stale' = {c \in stale : GatewayOf(c) # g}
  /\ UNCHANGED <<now, row, taken>>

\* Activations between reading "now" and the end of their job.
Holding == {"claiming", "updating", "verifying", "recording", "working",
            "finishing", "unrecorded"}

\* The clock.  Unless "slow", a job is over before its lease is.
ClockTick ==
  /\ now < MaxTime
  /\ "slow" \in MaintFaults
       \/ \A c \in Activations : step[c] \in Holding => at[c] + Lease > now + 1
  /\ now' = now + 1
  /\ UNCHANGED <<row, up, running, step, at, next, stale, taken>>

CallerStep(c) ==
  \/ ReadConfig(c) \/ BeginUpdate(c) \/ CommitUpdate(c) \/ Verify(c)
  \/ RecordRun(c) \/ RecordFails(c) \/ CallFails(c) \/ WorkEnds(c) \/ Finish(c)
  \/ CloseJob(c)

TimerStep(g) == StartupCheck(g) \/ TimerFires(g) \/ TickReads(g) \/ SetNextRun(g)

MaintNext ==
  \/ \E g \in Gateways : BootHost(g) \/ TimerStep(g) \/ RunNow(g) \/ CrashHost(g)
  \/ \E c \in Activations : CallerStep(c)
  \/ \E on \in BOOLEAN, p \in Periods : SaveSchedule(on, p)
  \/ ClockTick

\* A supervisor restarts gateways, timers fire, database calls return, jobs end
\* and time passes.  Administrators, crashes and errors are not obliged.
MaintFairness ==
  /\ \A g \in Gateways : WF_mvars(BootHost(g)) /\ WF_mvars(TimerStep(g))
  /\ \A c \in Activations : WF_mvars(CallerStep(c))
  /\ WF_mvars(ClockTick)

MaintSpec == MaintInit /\ [][MaintNext]_mvars
FairMaintSpec == MaintSpec /\ MaintFairness

----------------------------------------------------------------------------
(* Properties *)

Labels == Holding \cup {"idle", "booting", "tick", "setting", "config", "closing"}

MaintTypeOK ==
  /\ now \in Nat
  /\ enabled \in BOOLEAN /\ period \in Periods
  /\ nextRun \in Nat /\ lease \in Nat /\ lastRun \in Nat
  /\ token \in Activations \cup {NoCaller}
  /\ up \subseteq Gateways
  /\ running \subseteq Gateways
  /\ step \in [Activations -> Labels]
  /\ at \in [Activations -> Nat]
  /\ next \in [Activations -> Nat]
  /\ stale \subseteq Activations
  /\ taken \in Nat

\* Activations that won the claim and whose job is not over.
AtWork == {c \in Activations : step[c] \in {"recording", "working"}}

\* "Runs never overlap": no two maintenance jobs are at work at once, on any
\* gateways, although a claim is an UPDATE and a separate re-read.
NoOverlap == \A c, d \in AtWork : c = d

\* A lease is given back only by the job that holds it, or after the process
\* that held it died: nobody frees the lease of a job that is still at work,
\* a job that outlived its own lease included.
LeaseReleasedByHolder ==
  [][lease # 0 /\ lease' = 0 => token \notin AtWork \cup AtWork']_mvars

\* The running flag of a gateway does not stick: it is set only while a job of
\* that gateway is recorded, at work or closed, whatever fails or dies in
\* between.  A flag that stuck would keep the gateway from ever running again.
FlagNotStuck ==
  running \subseteq {GatewayOf(c) : c \in {d \in Activations :
                        step[d] \in {"recording", "working", "finishing", "closing"}}}

\* The three together: jobs never overlap, no gateway is barred from running
\* one, and a lease is given up by its holder or after its death.
MaintSafe == [](NoOverlap /\ FlagNotStuck) /\ LeaseReleasedByHolder

\* "Exactly one instance runs it": as long as the schedule comes again, a
\* scheduled claim takes a slot later than every slot claimed before, so no due
\* slot is run twice.  Once a schedule that never comes is saved, it may be: a
\* claim that read the old one finds next_run_ms NULL, which counts as due, and
\* stores a slot that another gateway has claimed meanwhile.
SlotOnce ==
  [][\A c \in Activations :
       (/\ TriggerOf(c) = "schedule" /\ period # 0 /\ nextRun # 0
        /\ step[c] = "updating" /\ step'[c] = "verifying")
       => nextRun > taken]_mvars

\* A due job is picked up: its slot does not stay due for ever, whatever
\* crashed or failed before, unless the administrator turns the job off or
\* gives it a schedule that never comes.
DueRuns == []<>(~enabled \/ nextRun = 0 \/ nextRun > now)
============================================================================
