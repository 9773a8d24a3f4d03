---------------------------- MODULE KafkaConsumer ---------------------------
(***************************************************************************)
(* The background consumer (src/kafka-consumer.js): messages of one topic  *)
(* wait in a batch, which is written when it is full or when its timer     *)
(* fires.  kafkajs hands over one message at a time and commits the offset *)
(* of those whose handler has returned, so what waits in a batch may be    *)
(* committed before it is written.                                         *)
(***************************************************************************)
EXTENDS Integers, Sequences, FiniteSets

CONSTANTS
  MaxOffset,     \* bound: messages 1..MaxOffset
  Batch,         \* BATCH_SIZE
  Kinds,         \* what each message may be: functions from the offsets
  MaxWriteFaults,\* bound: failing writes
  MaxCrashes     \* bound: crashes

ASSUME KafkaAssumption == MaxOffset \in Nat /\ Batch \in Nat \ {0}

Offsets == 1..MaxOffset

VARIABLES
  kind,       \* "row", "republished" (the gateway's own header) or "broken" (no JSON)
  next,       \* the next message to hand over
  commit,     \* committed offset
  awaiting,   \* eachMessage awaits the flush of the batch it filled
  batch,      \* batches[topic]
  timeoutSet, \* timeouts[topic] holds a timer,
  armed,      \*   and a timer is pending
  flights,    \* batches being written: [rows, full], full ones awaited
  written,    \* how often each offset was written
  dropped,    \* offsets of failed writes
  writeFaults, crashes

kvars == <<kind, next, commit, awaiting, batch, timeoutSet, armed, flights,
           written, dropped, writeFaults, crashes>>

KafkaInit ==
  /\ kind \in Kinds
  /\ next = 1 /\ commit = 0 /\ awaiting = FALSE
  /\ batch = <<>> /\ timeoutSet = FALSE /\ armed = FALSE
  /\ flights = {} /\ written = [o \in Offsets |-> 0] /\ dropped = {}
  /\ writeFaults = 0 /\ crashes = 0

Elements(s) == {s[i] : i \in 1..Len(s)}

\* eachMessage: skip, or batch and then flush or arm the timer.
HandleMessage ==
  /\ ~awaiting /\ next <= MaxOffset
  /\ next' = next + 1
  /\ LET b == Append(batch, next)
     IN IF kind[next] # "row"
        THEN UNCHANGED <<awaiting, batch, timeoutSet, armed, flights>>
        ELSE IF Len(b) >= Batch
        THEN /\ timeoutSet' = FALSE /\ armed' = (armed /\ ~timeoutSet)
             /\ batch' = <<>>
             /\ flights' = flights \cup {[rows |-> b, full |-> TRUE]}
             /\ awaiting' = TRUE
        ELSE /\ batch' = b
             /\ timeoutSet' = TRUE /\ armed' = (armed \/ ~timeoutSet)
             /\ UNCHANGED <<awaiting, flights>>
  /\ UNCHANGED <<kind, commit, written, dropped, writeFaults, crashes>>

\* Mutant: the callback forgets to clear it.
AfterTimerKept == timeoutSet

\* What the timer's callback leaves in timeouts[topic].
AfterTimer == FALSE

\* The timer's flush, which nothing awaits; an empty batch is left alone.
TimerFires ==
  /\ armed
  /\ armed' = FALSE /\ timeoutSet' = AfterTimer
  /\ batch' = <<>>
  /\ flights' = flights \cup {[rows |-> b, full |-> FALSE] : b \in {batch} \ {<<>>}}
  /\ UNCHANGED <<kind, next, commit, awaiting, written, dropped, writeFaults, crashes>>

\* The table after a flight was committed.
Plus(f) == [o \in Offsets |-> written[o] + IF o \in Elements(f.rows) THEN 1 ELSE 0]

Stored == {o \in Offsets : written[o] > 0}

Committed(f) ==
  /\ written' = Plus(f)
  /\ UNCHANGED <<dropped, writeFaults>>

\* ingestRows throws, also after its retries: the batch is logged and gone.
WriteFails(f) ==
  /\ writeFaults < MaxWriteFaults
  /\ writeFaults' = writeFaults + 1
  /\ dropped' = dropped \cup Elements(f.rows)
  /\ UNCHANGED written

FlushEnds(f) ==
  /\ Committed(f) \/ WriteFails(f)
  /\ flights' = flights \ {f}
  /\ awaiting' = (awaiting /\ ~f.full)
  /\ UNCHANGED <<kind, next, commit, batch, timeoutSet, armed, crashes>>

\* kafkajs' autocommit of what the handler has returned from.
AutoCommit ==
  /\ ~awaiting /\ commit < next - 1
  /\ commit' = next - 1
  /\ UNCHANGED <<kind, next, awaiting, batch, timeoutSet, armed, flights, written,
                 dropped, writeFaults, crashes>>

\* The process dies and is started again: a write under way may have committed.
ConsumerCrash ==
  /\ crashes < MaxCrashes
  /\ crashes' = crashes + 1
  /\ next' = commit + 1
  /\ written' \in {written} \cup {Plus(f) : f \in flights}
  /\ dropped' = dropped \cup (1..commit \ Stored')
  /\ batch' = <<>> /\ timeoutSet' = FALSE /\ armed' = FALSE /\ awaiting' = FALSE
  /\ flights' = {}
  /\ UNCHANGED <<kind, commit, writeFaults>>

KafkaNext ==
  \/ HandleMessage
  \/ TimerFires
  \/ \E f \in flights : FlushEnds(f)
  \/ AutoCommit
  \/ ConsumerCrash

KafkaFairness ==
  /\ WF_kvars(HandleMessage)
  /\ WF_kvars(TimerFires)
  /\ WF_kvars(\E f \in flights : FlushEnds(f))

KafkaSpec == KafkaInit /\ [][KafkaNext]_kvars /\ KafkaFairness

-----------------------------------------------------------------------------
KafkaTypeOK ==
  /\ next \in 1..(MaxOffset + 1) /\ commit \in 0..MaxOffset
  /\ awaiting \in BOOLEAN /\ timeoutSet \in BOOLEAN /\ armed \in BOOLEAN
  /\ Elements(batch) \subseteq Offsets /\ Len(batch) < Batch
  /\ \A f \in flights : Elements(f.rows) \subseteq Offsets /\ f.full \in BOOLEAN
  /\ written \in [Offsets -> Nat] /\ dropped \subseteq Offsets

Waiting == Elements(batch) \cup UNION {Elements(f.rows) : f \in flights}

\* A message is in one batch only and, unless a crash had it delivered again,
\* is written at most once; a batch that waits has a timer; and what Kafka
\* will not deliver again was written, waits, or was dropped with a failed
\* write or a crash (src/kafka-consumer.js, flushBatch and eachMessage).
BatchesKept ==
  /\ batch # <<>> => armed
  /\ \A f, g \in flights : f # g => Elements(f.rows) \cap Elements(g.rows) = {}
  /\ Elements(batch) \cap UNION {Elements(f.rows) : f \in flights} = {}
  /\ crashes = 0 =>
       /\ \A o \in Stored : written[o] = 1
       /\ Stored \cap (Waiting \cup dropped) = {}
  /\ \A o \in 1..commit :
       kind[o] = "row" => o \in Stored \cup Waiting \cup dropped

\* Every message of a client is written in the end, unless its write failed or
\* the process died with it: no batch stays behind for want of a timer.
Delivered ==
  \A o \in Offsets : kind[o] = "row" ~> o \in Stored \cup dropped
=============================================================================
