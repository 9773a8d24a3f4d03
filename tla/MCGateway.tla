----------------------------- MODULE MCGateway -----------------------------
(***************************************************************************)
(* Parts of a gateway that share no state, for TLC.  Each behaviour is one *)
(* of one part; the variables of the other parts stay as they began.       *)
(***************************************************************************)
EXTENDS PrimaryPool, UserGate, Startup, MCIngestRequests, KafkaConsumer, KafkaSubscription

CONSTANTS
  env, other, bad, p1, p2,            \* storage settings and data paths
  Writers, None, IngestFaults         \* of KeyedIngest

VARIABLES
  part,   \* the part this behaviour is about
  exists, table, hasX, declared, merges, at, req, key, seesX, writesX, snapshot,
  attempt, counts, answer, effect     \* of KeyedIngest; "at" is its pc

I == INSTANCE KeyedIngest WITH
       pc <- at, Asks <- Mixed, Attempts <- 2, First <- OneRow, FirstKey <- None,
       Faults <- IngestFaults

MCPathOf == [s \in Settings |-> IF s = other THEN p2 ELSE p1]

ingest == <<exists, table, hasX, declared, merges, at, req, key, seesX, writesX,
            snapshot, attempt, counts, answer, effect>>

\* Kafka and the start of gateways.
kafka == <<kvars, subvars, startVars>>

allvars == <<part, vars, gvars, svars, ingest, kafka>>

\* Four of the eleven steps: three that create tables, the bootstrap's two rows
\* among them, and the setting overrides, which are only read.
MCStartSteps == << <<"rbac">>, << >>, <<"u1", "u2">>, <<"users", "runs">> >>

\* At most one message is not a row of a client.
MCKinds ==
  {f \in [Offsets -> {"row", "republished", "broken"}] :
     Cardinality({o \in Offsets : f[o] # "row"}) <= 1}

\* One initial state of each part, for the behaviours about another.
GateRests == GateInit /\ limit = 1
StorageRests == StorageInit /\ userFiles /\ systemAt = [c \in Catalogs |-> NoFiles]
IngestRests == I!Init /\ req = [w \in Writers |-> CHOOSE r \in Mixed[w] : TRUE]

KafkaRests == KafkaInit /\ kind = [o \in Offsets |-> "row"] /\ SubInit /\ StartInit

MCInit ==
  \/ part = "pool" /\ Init /\ GateRests /\ StorageRests /\ IngestRests /\ KafkaRests
  \/ part = "gate" /\ Init /\ GateInit /\ StorageRests /\ IngestRests /\ KafkaRests
  \/ part = "storage" /\ Init /\ GateRests /\ StorageInit /\ IngestRests /\ KafkaRests
  \/ part = "ingest" /\ Init /\ GateRests /\ StorageRests /\ I!Init /\ KafkaRests
  \/ part = "consumer" /\ Init /\ GateRests /\ StorageRests /\ IngestRests
     /\ KafkaInit /\ SubInit /\ StartInit
  \/ part \in {"subscription", "start"} /\ Init /\ GateRests /\ StorageRests /\ IngestRests /\ KafkaRests

MCNext ==
  \/ part = "pool" /\ Next /\ UNCHANGED <<part, gvars, svars, ingest, kafka>>
  \/ part = "gate" /\ GateNext /\ UNCHANGED <<part, vars, svars, ingest, kafka>>
  \/ part = "storage" /\ StorageNext /\ UNCHANGED <<part, vars, gvars, ingest, kafka>>
  \/ part = "ingest" /\ I!Next /\ UNCHANGED <<part, vars, gvars, svars, kafka>>
  \/ part = "consumer" /\ KafkaNext
     /\ UNCHANGED <<part, vars, gvars, svars, ingest, subvars, startVars>>
  \/ part = "subscription" /\ SubNext
     /\ UNCHANGED <<part, vars, gvars, svars, ingest, kvars, startVars>>
  \/ part = "start" /\ StartNext
     /\ UNCHANGED <<part, vars, gvars, svars, ingest, kvars, subvars>>

\* Each part's own fairness, in the behaviours that are about it.
MCFairness ==
  /\ \A c \in Callers : /\ WF_vars(part = "pool" /\ Call(c))
                        /\ WF_vars(part = "pool" /\ Answer(c))
                        /\ WF_vars(part = "pool" /\ Resume(c))
  /\ WF_vars(part = "pool" /\ \E n \in attaching : Attach(n))
  /\ \A c \in Clients : WF_gvars(part = "gate" /\ Serve(c))
  /\ WF_svars(part = "storage" /\ ProcessStep)
  /\ WF_svars(part = "storage" /\ Boot)
  /\ WF_svars(part = "storage" /\ phase = "exiting" /\ Exit)
  /\ \A w \in Writers : WF_ingest(part = "ingest" /\ I!Ingest(w))
  /\ WF_kvars(part = "consumer" /\ HandleMessage)
  /\ WF_kvars(part = "consumer" /\ TimerFires)
  /\ WF_kvars(part = "consumer" /\ \E f \in flights : FlushEnds(f))
  /\ WF_subvars(part = "subscription" /\ Startup)
  /\ WF_subvars(part = "subscription" /\ CleanupEnds)
  /\ WF_subvars(part = "subscription" /\ DumpRow)
  /\ \A h \in StartHosts : WF_startVars(part = "start" /\ HostStep(h))

MCSpec == MCInit /\ [][MCNext]_allvars /\ MCFairness

\* The type invariants of all the parts.
TypesOK ==
  TypeOK /\ GateTypeOK /\ StorageTypeOK /\ KafkaTypeOK /\ SubTypeOK
    /\ StartTypeOK

\* Every queued user query gets its slot (UserGate), every ingest request is
\* answered: retries end, and none waits for ever for another (KeyedIngest);
\* every message of a client is written, unless its write failed or the process
\* died with it (KafkaConsumer); and a subscription whose client left is cleaned
\* up after, its start-up and its dump end (KafkaSubscription).
EveryoneServed ==
  /\ Served /\ LeavingEnds
  /\ \A w \in Writers : (part = "ingest") ~> (answer[w] # None)
  /\ \A o \in Offsets : (part = "consumer" /\ kind[o] = "row") ~> (o \in Stored \cup dropped)

AllReady == IF part = "storage" THEN phase = "ready"
                                ELSE \A h \in StartHosts : run[h].state = "ready"

\* Whatever is saved, tried and reverted, the gateway is ready again
\* (StorageSwitch); gateways that start at once all get ready, and none exits
\* on commit races alone (Startup).
ReadyAgain ==
  /\ [](part = "start" => RacesAreSurvived)
  /\ (part \in {"storage", "start"} /\ ~AllReady) ~> AllReady
============================================================================
