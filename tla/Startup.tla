------------------------------ MODULE Startup ------------------------------
(***************************************************************************)
(* The start of gateways that share one lake (src/index.js): STARTUP_STEPS *)
(* run one after the other, each again when it loses a commit race         *)
(* (src/conflict.js), and from the first again when one fails; a gateway   *)
(* that runs out of attempts exits, and its supervisor starts a new one.   *)
(*                                                                         *)
(* A step is the sequence of its statements that can conflict, each named  *)
(* by what it writes: a table or column it creates IF NOT EXISTS, or a     *)
(* user's row that bootstrapRbac updates on every start.  The last step is *)
(* initConsole, which starts the timers of the schedulers after its tables.*)
(* External: DuckLake refuses the commit of a statement when another one   *)
(* committed a write of the same thing after it began.                     *)
(*                                                                         *)
(* Each start also opens the lake with the storage settings it has or      *)
(* tries (StorageSwitch).  The two share no state.                         *)
(***************************************************************************)
EXTENDS StorageSwitch, Integers, Sequences, FiniteSets

CONSTANTS
  StartHosts,
  StartSteps,      \* sequence of sequences of what is written
  Rewritten,       \* what a start writes though it is there
  StepTries,       \* 8: attempts of retryOnConflict
  SequenceTries,   \* STARTUP_ATTEMPTS
  MaxStartFaults   \* bound: failing queries and crashes

ASSUME StartAssumption ==
  /\ StartSteps \in Seq(Seq(UNION {{s[i] : i \in DOMAIN s} : s \in {StartSteps[n] : n \in DOMAIN StartSteps}}))
  /\ Len(StartSteps) > 0 /\ StepTries \in Nat \ {0} /\ SequenceTries \in Nat \ {0}
  /\ MaxStartFaults \in Nat
  /\ Rewritten \subseteq UNION {{s[i] : i \in DOMAIN s} : s \in {StartSteps[n] : n \in DOMAIN StartSteps}}

VARIABLES
  inLake,      \* what has been created
  run,         \* host -> [state, attempt, step, tries, next, txn]
  timers,      \* host -> [refresh, prune, maintenance]: timers of its process
  queryFaults, \* queries that failed
  deaths

startVars == <<inLake, run, timers, queryFaults, deaths>>

ConsoleStep == Len(StartSteps)
NoTimer == [pending |-> 0, ticking |-> 0]
NoTimers == [refresh |-> 0, prune |-> NoTimer, maintenance |-> NoTimer]
AtStep(attempt, step) == [state |-> "starting", attempt |-> attempt, step |-> step,
                          tries |-> 1, next |-> 1, txn |-> "none"]
Starting == AtStep(1, 1)

StartInit ==
  /\ inLake = {} /\ queryFaults = 0 /\ deaths = 0
  /\ run = [h \in StartHosts |-> Starting] /\ timers = [h \in StartHosts |-> NoTimers]

-----------------------------------------------------------------------------
(* Statements                                                              *)

Running(h) == run[h].state = "starting"
Statements(h) == StartSteps[run[h].step]
HasStatement(h) == Running(h) /\ run[h].next <= Len(Statements(h))
Written(h) == Statements(h)[run[h].next]

\* CREATE ... IF NOT EXISTS does nothing to what exists.
Begins(h) ==
  /\ HasStatement(h) /\ run[h].txn = "none"
  /\ run' = IF Written(h) \in inLake \ Rewritten
            THEN [run EXCEPT ![h].next = @ + 1]
            ELSE [run EXCEPT ![h].txn = "open"]
  /\ UNCHANGED <<inLake, timers, queryFaults, deaths>>

\* The others that are writing the same thing will be refused.
OvertakenBy(h, g) == g # h /\ run[g].txn # "none" /\ Written(g) = Written(h)

PastStatement(r) == [r EXCEPT !.next = @ + 1, !.txn = "none"]

CommitsStatement(h) ==
  /\ run[h].txn = "open"
  /\ inLake' = inLake \cup {Written(h)}
  /\ run' = [g \in StartHosts |->
               CASE g = h -> PastStatement(run[g])
                 [] OvertakenBy(h, g) -> [run[g] EXCEPT !.txn = "overtaken"]
                 [] OTHER -> run[g]]
  /\ UNCHANGED <<timers, queryFaults, deaths>>

-----------------------------------------------------------------------------
(* Attempts                                                                *)

\* The whole sequence again, or process.exit(1).
GivesUp(r) ==
  IF r.attempt < SequenceTries THEN AtStep(r.attempt + 1, 1)
                               ELSE [r EXCEPT !.state = "failed", !.txn = "none"]

\* The step again, from its first statement.
Again(r) == [r EXCEPT !.next = 1, !.txn = "none"]

\* retryOnConflict.
RetryStep(r) == IF r.tries < StepTries THEN [Again(r) EXCEPT !.tries = @ + 1] ELSE GivesUp(r)

AfterAttempt(h, r) ==
  /\ run' = [run EXCEPT ![h] = r]
  /\ timers' = IF r.state = "failed" THEN [timers EXCEPT ![h] = NoTimers] ELSE timers

ConflictsAtCommit(h) ==
  /\ run[h].txn = "overtaken" /\ AfterAttempt(h, RetryStep(run[h]))
  /\ UNCHANGED <<inLake, queryFaults, deaths>>

\* A query of a step fails for another reason.
QueryOfStepFails(h) ==
  /\ Running(h) /\ queryFaults + deaths < MaxStartFaults
  /\ queryFaults' = queryFaults + 1 /\ AfterAttempt(h, GivesUp(run[h]))
  /\ UNCHANGED <<inLake, deaths>>

-----------------------------------------------------------------------------
(* Timers of the console's schedulers                                      *)

\* setInterval unless this process has done so.
StartRefresh(n) == IF n = 0 THEN 1 ELSE n

OneLess(n) == IF n = 0 THEN 0 ELSE n - 1

\* Mutant: the interval already running is kept.
RearmKeeping(t) == [pending |-> OneLess(t.pending) + 1, ticking |-> t.ticking]

\* clearInterval(timer), clearTimeout(startTimer), and a new startTimer: each
\* variable knows the last one only.
Rearm(t) == [pending |-> OneLess(t.pending) + 1, ticking |-> OneLess(t.ticking)]

\* The first tick, and the interval of the others.
FirstTick(h, job) ==
  /\ timers[h][job].pending > 0
  /\ timers' = [timers EXCEPT ![h][job] = [pending |-> @.pending - 1, ticking |-> @.ticking + 1]]
  /\ UNCHANGED <<inLake, run, queryFaults, deaths>>

\* initConsole, its tables being there, starts the refresh and startPruneScheduler;
\* startMaintenanceScheduler reads its row, which may fail, before it starts.
ConsoleTimers(t) == [t EXCEPT !.refresh = StartRefresh(@), !.prune = Rearm(@)]

ArmsPrune(h) ==
  /\ Running(h) /\ run[h].step = ConsoleStep /\ run[h].next = Len(Statements(h)) + 1
  /\ timers' = [timers EXCEPT ![h] = ConsoleTimers(@)]
  /\ run' = [run EXCEPT ![h].next = @ + 1]
  /\ UNCHANGED <<inLake, queryFaults, deaths>>

ArmsMaintenance(h) ==
  /\ Running(h) /\ run[h].step = ConsoleStep /\ run[h].next = Len(Statements(h)) + 2
  /\ timers' = [timers EXCEPT ![h].maintenance = Rearm(@)]
  /\ run' = [run EXCEPT ![h].state = "ready"]
  /\ UNCHANGED <<inLake, queryFaults, deaths>>

-----------------------------------------------------------------------------

StepEnds(h) ==
  /\ Running(h) /\ run[h].step # ConsoleStep /\ run[h].next = Len(Statements(h)) + 1
  /\ run' = [run EXCEPT ![h] = AtStep(@.attempt, @.step + 1)]
  /\ UNCHANGED <<inLake, timers, queryFaults, deaths>>

StartCrash(h) ==
  /\ run[h].state \in {"starting", "ready"} /\ queryFaults + deaths < MaxStartFaults
  /\ deaths' = deaths + 1
  /\ run' = [run EXCEPT ![h] = [@ EXCEPT !.state = "dead", !.txn = "none"]]
  /\ timers' = [timers EXCEPT ![h] = NoTimers]
  /\ UNCHANGED <<inLake, queryFaults>>

SupervisorStarts(h) ==
  /\ run[h].state \in {"failed", "dead"} /\ run' = [run EXCEPT ![h] = Starting]
  /\ UNCHANGED <<inLake, timers, queryFaults, deaths>>

HostStep(h) ==
  Begins(h) \/ CommitsStatement(h) \/ ConflictsAtCommit(h) \/ StepEnds(h)
    \/ ArmsPrune(h) \/ ArmsMaintenance(h) \/ SupervisorStarts(h)

StartNext ==
  \E h \in StartHosts :
    \/ HostStep(h) \/ QueryOfStepFails(h) \/ StartCrash(h)
    \/ \E job \in {"prune", "maintenance"} : FirstTick(h, job)

\* Queries return, and the supervisor restarts a gateway that exited.
StartFairness == \A h \in StartHosts : WF_startVars(HostStep(h))

StartSpec == StartInit /\ [][StartNext]_startVars /\ StartFairness

-----------------------------------------------------------------------------

Schedules(t) == t.pending + t.ticking

StartTypeOK ==
  /\ run \in [StartHosts -> [state : {"starting", "ready", "failed", "dead"},
                             attempt : 1..SequenceTries, step : DOMAIN StartSteps,
                             tries : 1..StepTries, next : Nat \ {0},
                             txn : {"none", "open", "overtaken"}]]
  /\ queryFaults \in Nat /\ deaths \in Nat /\ queryFaults + deaths <= MaxStartFaults

\* However often initConsole is run again, a process has each scheduler's timer
\* at most once, and a ready one has them all (console/index.js:124).
TimersOnce ==
  \A h \in StartHosts :
    /\ timers[h].refresh <= 1
    /\ \A job \in {"prune", "maintenance"} :
         /\ Schedules(timers[h][job]) <= 1
         /\ run[h].state = "ready" => Schedules(timers[h][job]) = 1

\* Gateways that start at once do not make each other exit, as long as no query
\* fails and none dies: what loses a commit race "is simply run again"
\* (index.js:1904), and the attempts are enough.
RacesAreSurvived ==
  \A h \in StartHosts : run[h].state = "failed" => queryFaults + deaths > 0

\* All gateways get ready.
GetReady == []<>(\A h \in StartHosts : run[h].state = "ready")

-----------------------------------------------------------------------------
(* Starts and the storage settings                                         *)

StartsSpec == StorageSpec /\ StartSpec

\* Settings that are left for good worked, open the lake and find its files
\* (StorageSwitch), and starts keep to one timer each.
StartsSafe == StorageSafe /\ TimersOnce
=============================================================================
