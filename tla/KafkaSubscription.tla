-------------------------- MODULE KafkaSubscription -------------------------
(***************************************************************************)
(* GET /kafka-subscribe/:topicName (src/index.js): a start-up of many      *)
(* awaited calls to Kafka, then live messages and a dump of the table's    *)
(* rows on one event stream, while the client may leave at any moment.     *)
(*                                                                         *)
(* "step" is the call that is awaited; an action is its return and the     *)
(* code up to the next await.  External: kafkajs' disconnect() of a client *)
(* whose connect() is under way closes it.                                 *)
(***************************************************************************)
EXTENDS Integers

CONSTANTS
  MaxPolls,    \* 30: polls for the topic's metadata
  HistoricRows \* bound: rows of the table to dump

ASSUME SubAssumption == MaxPolls \in Nat \ {0} /\ HistoricRows \in Nat

VARIABLES
  step,      \* of the start-up
  polls,
  admin,     \* Kafka clients: "none", "open" or "closed",
  consumer,
  adminRef,  \*   and whether the handler's variable still holds them
  consumerRef,
  left,      \* the client is gone: cancelled, and res.destroyed
  cleanup,   \* "no", "closing" (awaiting the admin's disconnect) or "done"
  dump,      \* writeHistoricRowsToSSE: rows left, or -1 when none runs
  blocked    \* writers waiting for "drain" or "close"

subvars == <<step, polls, admin, consumer, adminRef, consumerRef, left, cleanup,
             dump, blocked>>

SubInit ==
  /\ step = "adminConnect" /\ admin = "open" /\ adminRef = TRUE
  /\ consumer = "none" /\ consumerRef = FALSE
  /\ polls = 0 /\ left = FALSE /\ cleanup = "no" /\ dump = -1 /\ blocked = {}

Pending == step \in {"adminConnect", "createTopics", "poll", "sleep", "adminClose",
                     "consumerConnect", "subscribe", "run"}

\* Mutant: the start-up forgets to look.
NotCancelled == left /\ step # "adminClose"

\* "if (cancelled) return cleanup()": the close event has already cleaned up.
Cancelled == left

NextStep == [adminConnect |-> "createTopics", createTopics |-> "poll", sleep |-> "poll",
             consumerConnect |-> "subscribe", subscribe |-> "run"]

(***************************************************************************)
(* Start-up                                                                *)
(***************************************************************************)
StartupStops ==
  /\ Pending /\ step \notin {"poll", "run"} /\ Cancelled
  /\ step' = "ended"
  /\ IF step = "adminClose" THEN admin' = "closed" /\ adminRef' = FALSE
     ELSE UNCHANGED <<admin, adminRef>>
  /\ UNCHANGED <<polls, consumer, consumerRef, left, cleanup, dump, blocked>>

StartupGoesOn ==
  /\ step \in DOMAIN NextStep /\ ~Cancelled
  /\ step' = NextStep[step]
  /\ UNCHANGED <<polls, admin, consumer, adminRef, consumerRef, left, cleanup, dump, blocked>>

\* The topic has a leader, or the last poll failed: the admin is disconnected.
\* A poll that fails, also for want of an admin, is tried again after a second.
PollReturns ==
  /\ step = "poll"
  /\ polls' = polls + 1
  /\ \/ adminRef /\ step' = "adminClose"
     \/ polls' < MaxPolls /\ step' = "sleep"
     \/ polls' = MaxPolls /\ step' = "adminClose"
  /\ UNCHANGED <<admin, consumer, adminRef, consumerRef, left, cleanup, dump, blocked>>

AdminClosed ==
  /\ step = "adminClose" /\ ~Cancelled
  /\ admin' = "closed" /\ adminRef' = FALSE
  /\ consumer' = "open" /\ consumerRef' = TRUE
  /\ step' = "consumerConnect"
  /\ UNCHANGED <<polls, left, cleanup, dump, blocked>>

\* consumer.run() returns: eachMessage streams, and the dump starts beside it.
RunReturns ==
  /\ step = "run"
  /\ step' = "streaming" /\ dump' = HistoricRows
  /\ UNCHANGED <<polls, admin, consumer, adminRef, consumerRef, left, cleanup, blocked>>

\* A call rejects: an error event, the end of the response, and cleanup().
StartupFails ==
  /\ Pending /\ step \notin {"poll", "sleep", "adminClose"}
  /\ step' = "ended"
  /\ IF cleanup = "no"
     THEN /\ admin' = IF adminRef THEN "closed" ELSE admin
          /\ consumer' = IF consumerRef THEN "closed" ELSE consumer
          /\ adminRef' = FALSE /\ consumerRef' = FALSE
          /\ cleanup' = "done" /\ left' = TRUE
     ELSE UNCHANGED <<admin, consumer, adminRef, consumerRef, cleanup, left>>
  /\ UNCHANGED <<polls, dump, blocked>>

(***************************************************************************)
(* The client and the stream                                               *)
(***************************************************************************)
\* "close": cleanup() up to its first await; what waits for "drain" goes on.
ClientLeaves ==
  /\ ~left /\ left' = TRUE
  /\ blocked' = {}
  /\ IF cleanup = "no"
     THEN /\ cleanup' = "closing"
          /\ admin' = IF adminRef THEN "closed" ELSE admin
          /\ adminRef' = FALSE
     ELSE UNCHANGED <<admin, adminRef, cleanup>>
  /\ UNCHANGED <<step, polls, consumer, consumerRef, dump>>

CleanupEnds ==
  /\ cleanup = "closing" /\ cleanup' = "done"
  /\ consumer' = IF consumerRef THEN "closed" ELSE consumer
  /\ consumerRef' = FALSE
  /\ UNCHANGED <<step, polls, admin, adminRef, left, dump, blocked>>

\* eachMessage and the dump write to one response; a full one blocks them.
\* A writer that finds the client gone returns.
StreamMessage ==
  /\ step = "streaming" /\ consumer = "open" /\ "live" \notin blocked /\ ~left
  /\ blocked' \in {blocked, blocked \cup {"live"}}
  /\ UNCHANGED <<step, polls, admin, consumer, adminRef, consumerRef, left, cleanup, dump>>

DumpRow ==
  /\ dump >= 0 /\ "dump" \notin blocked
  /\ IF left \/ dump = 0
     THEN dump' = -1 /\ UNCHANGED blocked
     ELSE dump' = dump - 1 /\ blocked' \in {blocked, blocked \cup {"dump"}}
  /\ UNCHANGED <<step, polls, admin, consumer, adminRef, consumerRef, left, cleanup>>

Drain ==
  /\ blocked # {} /\ blocked' = {}
  /\ UNCHANGED <<step, polls, admin, consumer, adminRef, consumerRef, left, cleanup, dump>>

Startup == StartupStops \/ StartupGoesOn \/ PollReturns \/ AdminClosed \/ RunReturns
             \/ StartupFails

SubNext == Startup \/ ClientLeaves \/ CleanupEnds \/ StreamMessage \/ DumpRow \/ Drain

SubFairness == /\ WF_subvars(Startup) /\ WF_subvars(CleanupEnds) /\ WF_subvars(DumpRow)

SubSpec == SubInit /\ [][SubNext]_subvars /\ SubFairness

-----------------------------------------------------------------------------
SubTypeOK ==
  /\ step \in {"adminConnect", "createTopics", "poll", "sleep", "adminClose",
               "consumerConnect", "subscribe", "run", "streaming", "ended"}
  /\ polls \in 0..MaxPolls
  /\ admin \in {"none", "open", "closed"} /\ consumer \in {"none", "open", "closed"}
  /\ cleanup \in {"no", "closing", "done"}
  /\ dump \in -1..HistoricRows
  /\ blocked \subseteq {"live", "dump"}

\* Wherever in the start-up a client leaves, once the cleanup is over no admin
\* and no consumer is connected for it or will be, and no writer waits for it
\* (src/index.js, GET /kafka-subscribe: the comment on disconnect hardening).
NoOrphans ==
  /\ cleanup = "done" => admin # "open" /\ consumer # "open"
  /\ left => blocked = {}

\* A client that left is cleaned up after, and its start-up and dump end.
LeavingEnds ==
  left ~> (cleanup = "done" /\ step \in {"ended", "streaming"} /\ dump = -1)
=============================================================================
