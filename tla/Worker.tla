------------------------------- MODULE Worker -------------------------------
(***************************************************************************)
(* The worker process (internal/worker) on its Kafka consumer group        *)
(* (internal/kafka/producer.go, Consumer).                                 *)
(*                                                                         *)
(* Each worker holds one consumer-group session at a time.  A session      *)
(* claims partitions of llm.requests, and every claimed partition is read  *)
(* by its own goroutine (ConsumeClaim), one record at a time: a record is  *)
(* processed to the end, with retries, before its offset is marked.  The   *)
(* goroutines of one worker share its generation slots (the semaphore of   *)
(* Run).  The variable pc says where the goroutine of a claim stands:      *)
(*                                                                         *)
(*   none         the session does not claim the partition                 *)
(*   idle         ConsumeClaim waits for the next record                   *)
(*   quarantine   handleInvalidRequest writes the record to llm.dlq        *)
(*   slot         Run waits for a generation slot                          *)
(*   begin        runOnce builds the request and publishes "started"       *)
(*   stream       consumeStream moves provider events to llm.events        *)
(*   completing   publishCompletion publishes the "completed" event        *)
(*   aggregating  publishCompletion publishes the llm.completed record     *)
(*   backoff      process waits before the next attempt                    *)
(*   failing      publishFailed publishes the "failed" event               *)
(*   recording    publishFailed publishes the llm.failed record            *)
(*   deadletter   publishDLQ publishes the llm.dlq record                  *)
(*   marking      the handler returned nil, MarkMessage is next            *)
(*   ended        ConsumeClaim returned                                    *)
(*                                                                         *)
(* Request ids are distinct, so a record of llm.requests, <<partition,     *)
(* offset>>, stands for its request id.                                    *)
(***************************************************************************)
EXTENDS Integers, Sequences, FiniteSets

CONSTANTS
  Workers,          \* worker processes of the consumer group
  Partitions,       \* partitions of llm.requests
  Backlog,          \* partition -> the records that reach llm.requests, by kind
  StartOldest,      \* KAFKA_CONSUMER_START is "earliest", not "latest"
  Slots,            \* HEAVY_WORKERS: generation slots of one worker
  MaxRetry,         \* attempts of one delivery before it is given up
  NoWorker,         \* the owner of a partition nobody owns
  PublishOutcomes,  \* what Publish may do: [stored, ok]
  MaxChunks,        \* bound: raw chunks the provider sends in one attempt
  MaxBeats,         \* bound: heartbeats of one attempt
  MaxFaults         \* bound: failed publishes, crashes, evictions, cancels

\* A record of llm.requests is well formed, has a payload that does not
\* decode as a chat request, or is not a request at all.
Kinds == {"good", "undecodable", "poison"}

ASSUME WorkersAssumption ==
  /\ NoWorker \notin Workers
  /\ Backlog \in [Partitions -> Seq(Kinds)]
  /\ StartOldest \in BOOLEAN
  /\ Slots \in Nat \ {0}
  /\ MaxRetry \in Nat \ {0}
  /\ PublishOutcomes \subseteq [stored : BOOLEAN, ok : BOOLEAN]
  /\ MaxChunks \in Nat
  /\ MaxBeats \in Nat
  /\ MaxFaults \in Nat

\* What Producer.Publish promises its callers: nil means the broker has it.
PublishContract == \A out \in PublishOutcomes : out.ok => out.stored

VARIABLES
  owner,      \* coordinator: partition -> the worker that owns it
  committed,  \* broker: partition -> the group's committed offset, 0 for none
  base,       \* partition -> the offset its last owner started from
  opened,     \* history: partition -> the offset the group last started from
              \* while it had no committed offset there
  arrived,    \* broker: partition -> records published so far
  sess,       \* worker -> its session context: none, live or cancelled
  pc,         \* worker -> partition -> where its claim stands
  pos,        \* worker -> partition -> next offset; all before it are marked
  job,        \* worker -> partition -> local state of process and runOnce
  events,     \* llm.events: record -> the events published for it, in order
  results,    \* llm.completed, llm.failed and llm.dlq
  misled,     \* history: records an outcome of which Publish has acknowledged
              \* although no topic has it
  deliveries, \* history: record -> how often it was handed to a handler
  faults      \* faults so far

vars == <<owner, committed, base, opened, arrived, sess, pc, pos, job, events,
          results, misled, deliveries, faults>>

\* The records of llm.requests, by partition and offset.
Requests == UNION {{<<p, o>> : o \in 0 .. Len(Backlog[p]) - 1} : p \in Partitions}
Kind(p, o) == Backlog[p][o + 1]
Current(w, p) == <<p, pos[w][p]>>

\* Mutant of NoJob: the counter of a delivery starts below zero.
SeqStartsBelowZero ==
  [delivery |-> 0, attempt |-> 0, seq |-> -1, chunks |-> 0, beats |-> 0, err |-> "none"]

NoJob == [delivery |-> 0, attempt |-> 0, seq |-> 0, chunks |-> 0,
          beats |-> 0, err |-> "none"]

Claims(w) == {p \in Partitions : pc[w][p] # "none"}

\* Mutant of SlotHolders: a slot, once taken, is never released.
SlotNeverReleased == {"begin", "stream", "completing", "aggregating", "backoff",
                      "failing", "recording", "deadletter", "marking", "idle", "ended"}

\* Run releases the slot when process returns, before MarkMessage.
SlotHolders == {"begin", "stream", "completing", "aggregating", "backoff",
                "failing", "recording", "deadletter"}
SlotsInUse(w) == Cardinality({p \in Partitions : pc[w][p] \in SlotHolders})

-----------------------------------------------------------------------------
(* Publishing. *)

\* A failed Publish spends a fault, unless the session context it was given
\* is cancelled: then it may return at once, whatever became of the record.
Publish(w, out) ==
  /\ out \in PublishOutcomes
  /\ IF out.ok \/ sess[w] = "cancelled"
     THEN UNCHANGED faults
     ELSE faults < MaxFaults /\ faults' = faults + 1

\* publishEvent.  The fields delivery and attempt are history; count is the
\* "events" field of a completed event, the number of raw chunks it sums up.
PublishEvent(w, p, type, seq, count, out) ==
  /\ Publish(w, out)
  /\ events' =
       IF out.stored
       THEN [events EXCEPT ![Current(w, p)] = Append(@,
              [type |-> type, seq |-> seq, count |-> count,
               delivery |-> job[w][p].delivery,
               attempt |-> job[w][p].attempt])]
       ELSE events
  /\ UNCHANGED <<results, misled>>

PublishResult(w, p, topic, out) ==
  /\ Publish(w, out)
  /\ results' =
       IF out.stored
       THEN results \cup {[request |-> Current(w, p), topic |-> topic,
                           delivery |-> job[w][p].delivery,
                           attempt |-> job[w][p].attempt]}
       ELSE results
  /\ misled' = IF out.ok /\ ~out.stored THEN misled \cup {Current(w, p)} ELSE misled
  /\ UNCHANGED events

-----------------------------------------------------------------------------
(* Control flow of a claim's goroutine. *)

GoTo(w, p, l) == pc' = [pc EXCEPT ![w][p] = l] /\ UNCHANGED sess

\* The handler returned an error: ConsumeClaim returns it without marking the
\* record, and the first claim to return cancels the whole session.
EndClaim(w, p) ==
  /\ pc' = [pc EXCEPT ![w][p] = "ended"]
  /\ sess' = [sess EXCEPT ![w] = "cancelled"]

\* Mutant of RunFailed: when the attempts are used up, the error goes to the
\* consumer, which has the record delivered again.
ErrorReturned(w, p, class) ==
  IF sess[w] = "cancelled" \/ (class = "retryable" /\ job[w][p].attempt >= MaxRetry)
  THEN EndClaim(w, p)
  ELSE GoTo(w, p, IF class = "retryable" THEN "backoff" ELSE "failing")

\* The tail of process's loop, after runOnce returned an error.
RunFailed(w, p, class) ==
  IF sess[w] = "cancelled" THEN EndClaim(w, p)
  ELSE GoTo(w, p, IF class = "retryable" /\ job[w][p].attempt < MaxRetry
                  THEN "backoff" ELSE "failing")

SetJob(w, p, j) == job' = [job EXCEPT ![w][p] = j]

Offsets == <<owner, committed, base, opened, arrived, pos>>
Log == <<events, results, misled>>

-----------------------------------------------------------------------------
Init ==
  /\ owner = [p \in Partitions |-> NoWorker]
  /\ committed = [p \in Partitions |-> 0]
  /\ base = [p \in Partitions |-> 0]
  /\ opened = [p \in Partitions |-> 0]
  /\ arrived = [p \in Partitions |-> 0]
  /\ sess = [w \in Workers |-> "none"]
  /\ pc = [w \in Workers |-> [p \in Partitions |-> "none"]]
  /\ pos = [w \in Workers |-> [p \in Partitions |-> 0]]
  /\ job = [w \in Workers |-> [p \in Partitions |-> NoJob]]
  /\ events = [r \in Requests |-> <<>>]
  /\ results = {}
  /\ misled = {}
  /\ deliveries = [r \in Requests |-> 0]
  /\ faults = 0

(***************************************************************************)
(* The consumer group.                                                     *)
(***************************************************************************)

\* The gateway publishes the next record of a partition.
Arrive(p) ==
  /\ arrived[p] < Len(Backlog[p])
  /\ arrived' = [arrived EXCEPT ![p] = @ + 1]
  /\ UNCHANGED <<owner, committed, base, opened, pos, sess, pc, job, Log, deliveries, faults>>

\* Where a claim starts: at the committed offset, and where there is none at
\* the oldest record or at the end, as Offsets.Initial says.
StartOffset(p) ==
  IF committed[p] > 0 \/ StartOldest THEN committed[p] ELSE arrived[p]

\* The group finishes a rebalance: the members that have rejoined share all
\* partitions, and each starts a session (consumeOnce, Consume's loop).
Assign ==
  /\ \A p \in Partitions : owner[p] = NoWorker
  /\ \E joined \in SUBSET {w \in Workers : sess[w] = "none"} \ {{}} :
       \E share \in [Partitions -> joined] :
         /\ owner' = share
         /\ sess' = [w \in Workers |-> IF w \in joined THEN "live" ELSE sess[w]]
         /\ pc' = [w \in Workers |-> [p \in Partitions |->
                     IF share[p] = w THEN "idle" ELSE pc[w][p]]]
         /\ pos' = [w \in Workers |-> [p \in Partitions |->
                     IF share[p] = w THEN StartOffset(p) ELSE pos[w][p]]]
         /\ base' = [p \in Partitions |-> StartOffset(p)]
  /\ opened' = [p \in Partitions |->
                  IF committed[p] = 0 THEN StartOffset(p) ELSE opened[p]]
  /\ UNCHANGED <<committed, arrived, job, Log, deliveries, faults>>

\* A worker learns, by its group heartbeat, that a rebalance is under way or
\* that its claims went to another worker: its session context is cancelled.
Revoke(w) ==
  /\ sess[w] = "live"
  /\ \/ \E p \in Partitions : owner[p] = NoWorker
     \/ \E p \in Claims(w) : owner[p] # w
  /\ sess' = [sess EXCEPT ![w] = "cancelled"]
  /\ UNCHANGED <<Offsets, pc, job, Log, deliveries, faults>>

\* A member joins or leaves, or the process is told to shut down and its
\* supervisor starts it again.
Cancel(w) ==
  /\ sess[w] = "live"
  /\ faults < MaxFaults
  /\ faults' = faults + 1
  /\ sess' = [sess EXCEPT ![w] = "cancelled"]
  /\ UNCHANGED <<Offsets, pc, job, Log, deliveries>>

\* Mutant of Marked: any session's marks count, whoever owns the partition.
MarkedUnfenced(w, p) == pc[w][p] # "none" /\ pos[w][p] > base[p]

\* The owner has marked a record since it started.
Marked(w, p) == owner[p] = w /\ pos[w][p] > base[p]

\* The broker takes the offset commits of a partition's owner only.
Commit(w) ==
  committed' = [p \in Partitions |-> IF Marked(w, p) THEN pos[w][p] ELSE committed[p]]

\* Sarama's one-second autocommit of the marked offsets.
AutoCommit(w) ==
  /\ sess[w] # "none"
  /\ \E p \in Partitions : Marked(w, p) /\ committed[p] # pos[w][p]
  /\ Commit(w)
  /\ UNCHANGED <<owner, base, opened, arrived, pos, sess, pc, job, Log, deliveries, faults>>

\* Every claim has returned: Sarama flushes the marked offsets, if it can,
\* and leaves the session; Consume opens the next one.
EndSession(w) ==
  /\ sess[w] = "cancelled"
  /\ \A p \in Claims(w) : pc[w][p] = "ended"
  /\ Commit(w) \/ UNCHANGED committed
  /\ sess' = [sess EXCEPT ![w] = "none"]
  /\ owner' = [p \in Partitions |-> IF owner[p] = w THEN NoWorker ELSE owner[p]]
  /\ pc' = [pc EXCEPT ![w] = [p \in Partitions |-> "none"]]
  /\ pos' = [pos EXCEPT ![w] = [p \in Partitions |-> 0]]
  /\ job' = [job EXCEPT ![w] = [p \in Partitions |-> NoJob]]
  /\ UNCHANGED <<base, opened, arrived, Log, deliveries, faults>>

\* The coordinator hears nothing from a worker for the session timeout and
\* drops it; the worker's goroutines do not know yet and go on.
Evict(w) ==
  /\ faults < MaxFaults
  /\ \E p \in Partitions : owner[p] = w
  /\ owner' = [p \in Partitions |-> IF owner[p] = w THEN NoWorker ELSE owner[p]]
  /\ faults' = faults + 1
  /\ UNCHANGED <<committed, base, opened, arrived, pos, sess, pc, job, Log, deliveries>>

\* The worker process dies and restarts: what was marked and not committed
\* is forgotten.
Crash(w) ==
  /\ sess[w] # "none"
  /\ faults < MaxFaults
  /\ faults' = faults + 1
  /\ sess' = [sess EXCEPT ![w] = "none"]
  /\ owner' = [p \in Partitions |-> IF owner[p] = w THEN NoWorker ELSE owner[p]]
  /\ pc' = [pc EXCEPT ![w] = [p \in Partitions |-> "none"]]
  /\ pos' = [pos EXCEPT ![w] = [p \in Partitions |-> 0]]
  /\ job' = [job EXCEPT ![w] = [p \in Partitions |-> NoJob]]
  /\ UNCHANGED <<committed, base, opened, arrived, Log, deliveries>>

(***************************************************************************)
(* ConsumeClaim and the handler of Run.                                    *)
(***************************************************************************)

\* ConsumeClaim hands the next record to the handler.  Its select may still
\* take a record when the session is cancelled.
Fetch(w, p) ==
  /\ pc[w][p] = "idle"
  /\ pos[w][p] < arrived[p]
  /\ GoTo(w, p, IF Kind(p, pos[w][p]) = "poison" THEN "quarantine" ELSE "slot")
  /\ deliveries' = [deliveries EXCEPT ![Current(w, p)] = @ + 1]
  /\ SetJob(w, p, [NoJob EXCEPT !.delivery = deliveries[Current(w, p)] + 1])
  /\ UNCHANGED <<Offsets, Log, faults>>

\* Mutant of Interrupt: ConsumeClaim does not watch the session context.
InterruptBusy(w, p) ==
  /\ sess[w] = "cancelled"
  /\ pc[w][p] \in {"slot", "stream", "backoff"}
  /\ EndClaim(w, p)
  /\ UNCHANGED <<Offsets, job, Log, deliveries, faults>>

\* The waits that a cancelled session context ends.
Interrupt(w, p) ==
  /\ sess[w] = "cancelled"
  /\ pc[w][p] \in {"idle", "slot", "stream", "backoff"}
  /\ EndClaim(w, p)
  /\ UNCHANGED <<Offsets, job, Log, deliveries, faults>>

\* Mutant of Quarantine: a failed write to llm.dlq is only logged.
QuarantineUnchecked(w, p) ==
  /\ pc[w][p] = "quarantine"
  /\ \E out \in PublishOutcomes : PublishResult(w, p, "dlq", out)
  /\ GoTo(w, p, "marking")
  /\ UNCHANGED <<Offsets, job, deliveries>>

\* handleInvalidRequest: the record is given up once llm.dlq has it.
Quarantine(w, p) ==
  /\ pc[w][p] = "quarantine"
  /\ \E out \in PublishOutcomes :
       /\ PublishResult(w, p, "dlq", out)
       /\ IF out.ok THEN GoTo(w, p, "marking") ELSE EndClaim(w, p)
  /\ UNCHANGED <<Offsets, job, deliveries>>

\* A slot is free: process starts its first attempt.
AcquireSlot(w, p) ==
  /\ pc[w][p] = "slot"
  /\ SlotsInUse(w) < Slots
  /\ GoTo(w, p, "begin")
  /\ SetJob(w, p, [job[w][p] EXCEPT !.attempt = 1])
  /\ UNCHANGED <<Offsets, Log, deliveries, faults>>

\* MarkMessage, and ConsumeClaim takes the next record.
Mark(w, p) ==
  /\ pc[w][p] = "marking"
  /\ GoTo(w, p, "idle")
  /\ pos' = [pos EXCEPT ![w][p] = @ + 1]
  /\ SetJob(w, p, NoJob)
  /\ UNCHANGED <<owner, committed, base, opened, arrived, Log, deliveries, faults>>

(***************************************************************************)
(* process and runOnce.                                                    *)
(***************************************************************************)

\* runOnce: a payload that does not decode fails the attempt before anything
\* is published, and counts as retryable.
Decode(w, p) ==
  /\ pc[w][p] = "begin"
  /\ Kind(p, pos[w][p]) = "undecodable"
  /\ RunFailed(w, p, "retryable")
  /\ SetJob(w, p, [job[w][p] EXCEPT !.err = "retryable"])
  /\ UNCHANGED <<Offsets, Log, deliveries, faults>>

\* Mutant of Start: a failed publish of the started event is only logged.
StartUnchecked(w, p) ==
  LET seq == job[w][p].seq + 1 IN
  /\ pc[w][p] = "begin"
  /\ Kind(p, pos[w][p]) = "good"
  /\ \E out \in PublishOutcomes : PublishEvent(w, p, "started", seq, 0, out)
  /\ GoTo(w, p, "stream")
  /\ SetJob(w, p, [job[w][p] EXCEPT !.seq = seq, !.chunks = 0, !.beats = 0, !.err = "none"])
  /\ UNCHANGED <<Offsets, deliveries>>

\* runOnce: the started event takes the next sequence number, and then the
\* provider runs.
Start(w, p) ==
  LET seq == job[w][p].seq + 1 IN
  /\ pc[w][p] = "begin"
  /\ Kind(p, pos[w][p]) = "good"
  /\ \E out \in PublishOutcomes :
       /\ PublishEvent(w, p, "started", seq, 0, out)
       /\ IF out.ok THEN GoTo(w, p, "stream") ELSE RunFailed(w, p, "retryable")
       /\ SetJob(w, p, [job[w][p] EXCEPT !.seq = seq, !.chunks = 0, !.beats = 0,
                          !.err = IF out.ok THEN "none" ELSE "retryable"])
  /\ UNCHANGED <<Offsets, deliveries>>

\* Mutant of Chunk: a failed publish of a chunk is only logged.
ChunkUnchecked(w, p) ==
  LET seq == job[w][p].seq + 1 IN
  /\ pc[w][p] = "stream"
  /\ job[w][p].chunks < MaxChunks
  /\ \E out \in PublishOutcomes : PublishEvent(w, p, "raw_sse", seq, 0, out)
  /\ GoTo(w, p, "stream")
  /\ SetJob(w, p, [job[w][p] EXCEPT !.seq = seq, !.chunks = @ + 1])
  /\ UNCHANGED <<Offsets, deliveries>>

\* handleProviderEvent: a raw chunk is stored under the next sequence number
\* before the next one is taken, and counted (absorb) once it is stored.
Chunk(w, p) ==
  LET seq == job[w][p].seq + 1 IN
  /\ pc[w][p] = "stream"
  /\ job[w][p].chunks < MaxChunks
  /\ \E out \in PublishOutcomes :
       /\ PublishEvent(w, p, "raw_sse", seq, 0, out)
       /\ IF out.ok
          THEN /\ GoTo(w, p, "stream")
               /\ SetJob(w, p, [job[w][p] EXCEPT !.seq = seq, !.chunks = @ + 1])
          ELSE /\ RunFailed(w, p, "retryable")
               /\ SetJob(w, p, [job[w][p] EXCEPT !.seq = seq, !.err = "retryable"])
  /\ UNCHANGED <<Offsets, deliveries>>

\* consumeStream: a heartbeat carries the number after the current one, and
\* leaves the counter where it is.
Heartbeat(w, p) ==
  /\ pc[w][p] = "stream"
  /\ job[w][p].beats < MaxBeats
  /\ \E out \in PublishOutcomes :
       /\ PublishEvent(w, p, "heartbeat", job[w][p].seq + 1, 0, out)
       /\ IF out.ok
          THEN /\ GoTo(w, p, "stream")
               /\ SetJob(w, p, [job[w][p] EXCEPT !.beats = @ + 1])
          ELSE /\ RunFailed(w, p, "retryable")
               /\ SetJob(w, p, [job[w][p] EXCEPT !.err = "retryable"])
  /\ UNCHANGED <<Offsets, deliveries>>

\* The provider closed its channel and returned.  A stream with no chunk is
\* a retryable error.
StreamEnd(w, p) ==
  /\ pc[w][p] = "stream"
  /\ \E result \in {"none", "retryable", "fatal"} :
       LET err == IF result = "none" /\ job[w][p].chunks = 0
                  THEN "retryable" ELSE result
       IN /\ IF err = "none" THEN GoTo(w, p, "completing") ELSE RunFailed(w, p, err)
          /\ SetJob(w, p, [job[w][p] EXCEPT !.err = err])
  /\ UNCHANGED <<Offsets, Log, deliveries, faults>>

\* Mutant of Complete: the aggregate is written whatever became of the event.
CompleteUnchecked(w, p) ==
  LET seq == job[w][p].seq + 1 IN
  /\ pc[w][p] = "completing"
  /\ \E out \in PublishOutcomes :
       PublishEvent(w, p, "completed", seq, job[w][p].chunks, out)
  /\ GoTo(w, p, "aggregating")
  /\ SetJob(w, p, [job[w][p] EXCEPT !.seq = seq])
  /\ UNCHANGED <<Offsets, deliveries>>

\* publishCompletion, first half: the terminal event.
Complete(w, p) ==
  LET seq == job[w][p].seq + 1 IN
  /\ pc[w][p] = "completing"
  /\ \E out \in PublishOutcomes :
       /\ PublishEvent(w, p, "completed", seq, job[w][p].chunks, out)
       /\ IF out.ok THEN GoTo(w, p, "aggregating") ELSE RunFailed(w, p, "retryable")
       /\ SetJob(w, p, [job[w][p] EXCEPT !.seq = seq,
                          !.err = IF out.ok THEN "none" ELSE "retryable"])
  /\ UNCHANGED <<Offsets, deliveries>>

\* publishCompletion, second half: the aggregate.  A failure here is an error
\* of the attempt, and process may generate again.
Aggregate(w, p) ==
  /\ pc[w][p] = "aggregating"
  /\ \E out \in PublishOutcomes :
       /\ PublishResult(w, p, "completed", out)
       /\ IF out.ok THEN GoTo(w, p, "marking") ELSE RunFailed(w, p, "retryable")
       /\ SetJob(w, p, [job[w][p] EXCEPT !.err = IF out.ok THEN "none" ELSE "retryable"])
  /\ UNCHANGED <<Offsets, deliveries>>

\* Mutant of Retry: every attempt numbers its events from one.
RetryRenumbers(w, p) ==
  /\ pc[w][p] = "backoff"
  /\ GoTo(w, p, "begin")
  /\ SetJob(w, p, [job[w][p] EXCEPT !.attempt = @ + 1, !.seq = 0])
  /\ UNCHANGED <<Offsets, Log, deliveries, faults>>

\* The backoff timer of process fired.
Retry(w, p) ==
  /\ pc[w][p] = "backoff"
  /\ GoTo(w, p, "begin")
  /\ SetJob(w, p, [job[w][p] EXCEPT !.attempt = @ + 1])
  /\ UNCHANGED <<Offsets, Log, deliveries, faults>>

(***************************************************************************)
(* publishFailed.                                                          *)
(***************************************************************************)

\* Mutant of Fail: an error of the failed event leads to the offset's mark.
FailUnchecked(w, p) ==
  LET seq == job[w][p].seq + 1 IN
  /\ pc[w][p] = "failing"
  /\ \E out \in PublishOutcomes :
       /\ PublishEvent(w, p, "failed", seq, 0, out)
       /\ GoTo(w, p, IF out.ok THEN "recording" ELSE "marking")
  /\ SetJob(w, p, [job[w][p] EXCEPT !.seq = seq])
  /\ UNCHANGED <<Offsets, deliveries>>

\* The failed event, numbered after everything its delivery published.
Fail(w, p) ==
  LET seq == job[w][p].seq + 1 IN
  /\ pc[w][p] = "failing"
  /\ \E out \in PublishOutcomes :
       /\ PublishEvent(w, p, "failed", seq, 0, out)
       /\ IF out.ok THEN GoTo(w, p, "recording") ELSE EndClaim(w, p)
  /\ SetJob(w, p, [job[w][p] EXCEPT !.seq = seq])
  /\ UNCHANGED <<Offsets, deliveries>>

\* Mutant of RecordFailure: a lost llm.failed record is treated like any other
\* error of the attempt.
RecordFailureRetries(w, p) ==
  /\ pc[w][p] = "recording"
  /\ \E out \in PublishOutcomes :
       /\ PublishResult(w, p, "failed", out)
       /\ IF ~out.ok THEN RunFailed(w, p, "retryable")
          ELSE GoTo(w, p, IF job[w][p].attempt >= MaxRetry /\ job[w][p].err = "retryable"
                          THEN "deadletter" ELSE "marking")
  /\ UNCHANGED <<Offsets, job, deliveries>>

\* Mutant of RecordFailure: every failed request goes to llm.dlq.
RecordFailureAndQuarantine(w, p) ==
  /\ pc[w][p] = "recording"
  /\ \E out \in PublishOutcomes :
       /\ PublishResult(w, p, "failed", out)
       /\ IF ~out.ok THEN EndClaim(w, p) ELSE GoTo(w, p, "deadletter")
  /\ UNCHANGED <<Offsets, job, deliveries>>

\* The llm.failed record; an exhausted retryable request also goes to llm.dlq.
RecordFailure(w, p) ==
  /\ pc[w][p] = "recording"
  /\ \E out \in PublishOutcomes :
       /\ PublishResult(w, p, "failed", out)
       /\ IF ~out.ok THEN EndClaim(w, p)
          ELSE GoTo(w, p, IF job[w][p].attempt >= MaxRetry /\ job[w][p].err = "retryable"
                          THEN "deadletter" ELSE "marking")
  /\ UNCHANGED <<Offsets, job, deliveries>>

\* publishDLQ: its error is logged, not returned.
DeadLetter(w, p) ==
  /\ pc[w][p] = "deadletter"
  /\ \E out \in PublishOutcomes : PublishResult(w, p, "dlq", out)
  /\ GoTo(w, p, "marking")
  /\ UNCHANGED <<Offsets, job, deliveries>>

-----------------------------------------------------------------------------
\* What the goroutine of one claim does without waiting for a slot.
ClaimStep(w, p) ==
  \/ Fetch(w, p) \/ Interrupt(w, p) \/ Quarantine(w, p) \/ Mark(w, p)
  \/ Decode(w, p) \/ Start(w, p) \/ Chunk(w, p) \/ Heartbeat(w, p)
  \/ StreamEnd(w, p) \/ Complete(w, p) \/ Aggregate(w, p) \/ Retry(w, p)
  \/ Fail(w, p) \/ RecordFailure(w, p) \/ DeadLetter(w, p)

\* Every partition is read to its end; the consumers wait for records.
Quiet ==
  /\ \A p \in Partitions : \E w \in Workers :
       owner[p] = w /\ pc[w][p] = "idle" /\ pos[w][p] = Len(Backlog[p])
  /\ UNCHANGED vars

Next ==
  \/ Assign
  \/ \E p \in Partitions : Arrive(p)
  \/ \E w \in Workers :
       \/ Revoke(w) \/ Cancel(w) \/ AutoCommit(w) \/ EndSession(w)
       \/ Evict(w) \/ Crash(w)
       \/ \E p \in Partitions : AcquireSlot(w, p) \/ ClaimStep(w, p)
  \/ Quiet

\* Go schedules every goroutine, Sarama's timers fire, the coordinator
\* completes its rebalances, and a provider's stream ends (GenerationTimeout).
Fairness ==
  /\ WF_vars(Assign)
  /\ \A w \in Workers :
       /\ WF_vars(Revoke(w)) /\ WF_vars(AutoCommit(w)) /\ WF_vars(EndSession(w))
       /\ \A p \in Partitions :
            WF_vars(AcquireSlot(w, p)) /\ WF_vars(ClaimStep(w, p))

Spec == Init /\ [][Next]_vars
FairSpec == Spec /\ Fairness

-----------------------------------------------------------------------------
(* Properties. *)

Jobs == [delivery : Nat, attempt : Nat, seq : Nat, chunks : Nat, beats : Nat,
         err : {"none", "retryable", "fatal"}]
Events == [type : {"started", "raw_sse", "heartbeat", "completed", "failed"},
           seq : Nat, count : Nat, delivery : Nat, attempt : Nat]
Results == [request : Requests, topic : {"completed", "failed", "dlq"},
            delivery : Nat, attempt : Nat]

Places == SlotHolders \cup {"none", "idle", "quarantine", "slot", "marking", "ended"}

\* Every variable keeps its type.
TypeOK ==
  /\ owner \in [Partitions -> Workers \cup {NoWorker}]
  /\ committed \in [Partitions -> Nat]
  /\ base \in [Partitions -> Nat]
  /\ opened \in [Partitions -> Nat]
  /\ arrived \in [Partitions -> Nat]
  /\ sess \in [Workers -> {"none", "live", "cancelled"}]
  /\ pc \in [Workers -> [Partitions -> Places]]
  /\ pos \in [Workers -> [Partitions -> Nat]]
  /\ job \in [Workers -> [Partitions -> Jobs]]
  /\ events \in [Requests -> Seq(Events)]
  /\ results \subseteq Results
  /\ misled \subseteq Requests
  /\ deliveries \in [Requests -> Nat]
  /\ faults \in 0 .. MaxFaults

\* The durable outcome of a record: its aggregate or its failure, or for a
\* record that is no request its place in the dead-letter topic.
Answers(p, o) == IF Kind(p, o) = "poison" THEN {"dlq"} ELSE {"completed", "failed"}
Answered(p, o) == \E x \in results : x.request = <<p, o>> /\ x.topic \in Answers(p, o)

\* No record of llm.requests is passed over: whatever sessions, evicted workers
\* and crashes do, every offset below the committed one belongs to a record with
\* a durable outcome (MarkMessage comes after the handler's nil, which comes
\* after the terminal publish).  PLAN.md says so in section 46.  Two kinds of
\* record are excepted: those that had arrived when the group started at the end
\* of a partition it had no offset for, with KAFKA_CONSUMER_START=latest; and
\* those for whose outcome Publish returned nil without having it stored.
CommittedAreAnswered ==
  \A p \in Partitions : \A o \in opened[p] .. committed[p] - 1 :
    Answered(p, o) \/ <<p, o>> \in misled

\* The group's committed offset never moves back: a session that lost its
\* partition cannot undo the progress of the one that took over.
CommitNeverMovesBack ==
  [][\A p \in Partitions : committed'[p] >= committed[p]]_committed

\* Events e and f come from the same attempt of the same delivery.
SameAttempt(e, f) == e.delivery = f.delivery /\ e.attempt = f.attempt

\* A completed event comes after every chunk of its attempt, none missing: as
\* many are stored before it as it says it sums up (publishCompletion,
\* handleProviderEvent).
TranscriptComplete ==
  \A r \in Requests : \A i \in DOMAIN events[r] :
    LET e == events[r][i]
        chunks == {k \in DOMAIN events[r] :
                     events[r][k].type = "raw_sse" /\ SameAttempt(events[r][k], e)}
    IN e.type = "completed" =>
         Cardinality(chunks) = e.count /\ \A k \in chunks : k < i

\* A terminal event closes what it ends: a failed event its delivery (process
\* returns after publishFailed), a completed event its attempt, which only the
\* failed event of a lost aggregate may still follow.
TerminalEventsClose ==
  \A r \in Requests : \A i, k \in DOMAIN events[r] :
    LET e == events[r][i]  f == events[r][k] IN
    i < k /\ e.delivery = f.delivery =>
      /\ e.type # "failed"
      /\ e.type = "completed" => f.type = "failed" \/ e.attempt < f.attempt

\* Within one delivery the numbers of all events but heartbeats grow, through
\* every retry, failed publish and heartbeat (seqCounter).
ContentSequenceGrows ==
  \A r \in Requests : \A i, k \in DOMAIN events[r] :
    LET e == events[r][i]  f == events[r][k] IN
    i < k /\ e.delivery = f.delivery /\ "heartbeat" \notin {e.type, f.type} => e.seq < f.seq

\* The content events of a delivery of r, all events but its heartbeats.
Content(r, delivery) ==
  {i \in DOMAIN events[r] :
     events[r][i].delivery = delivery /\ events[r][i].type # "heartbeat"}

Gateway == INSTANCE JobEvents

\* An event of the given type may come after these content events of r.
MayFollow(r, content, type) ==
  \/ content = {} /\ type \in Gateway!Follows("none")
  \/ \E i \in content :
       (\A k \in content : k <= i) /\ type \in Gateway!Follows(events[r][i].type)

\* The events of one delivery, heartbeats aside, come in the order the gateway's
\* modules build on: started or failed first, chunks after started, nothing but
\* a further attempt or failed after completed (runOnce, process).
EventsFollow ==
  \A r \in Requests : \A k \in DOMAIN events[r] :
    LET f == events[r][k] IN
    f.type # "heartbeat" =>
      MayFollow(r, {i \in Content(r, f.delivery) : i < k}, f.type)

\* llm.completed and llm.failed never run ahead of llm.events: their records
\* have the terminal event of the same attempt behind them.
ResultsFollowEvents ==
  \A x \in results : x.topic # "dlq" =>
    \E i \in DOMAIN events[x.request] :
      events[x.request][i].type = x.topic /\ SameAttempt(events[x.request][i], x)

\* A well-formed request reaches the dead-letter topic only when its attempts
\* are used up, and only with its llm.failed record stored (publishFailed).
DeadLetterIsExhausted ==
  \A x \in results :
    x.topic = "dlq" /\ Kind(x.request[1], x.request[2]) # "poison" =>
      /\ x.attempt = MaxRetry
      /\ [x EXCEPT !.topic = "failed"] \in results

\* What PLAN.md (section 10) and seqCounter's comment claim: the events of one
\* delivery, heartbeats included, are numbered in growing order.
SequenceNumbersGrow ==
  \A r \in Requests : \A i, k \in DOMAIN events[r] :
    LET e == events[r][i]  f == events[r][k] IN
    i < k /\ e.delivery = f.delivery => e.seq < f.seq

\* Every repeated generation has a cause: a record is handed out once more
\* for at most one publish failure, eviction, crash or cancelled session.
RedeliveryNeedsAFault == \A r \in Requests : deliveries[r] <= 1 + faults

\* Where the group would go on reading the partition.
NextOffset(p) == IF committed[p] > 0 THEN committed[p] ELSE opened[p]

\* Every record that arrives is processed in the end, whatever faults came in
\* between, and its offset committed (only finitely many records arrive); but
\* for those a group that starts at the end of a partition leaves behind.
BacklogDrains == <>[]\A p \in Partitions : NextOffset(p) = arrived[p]

\* A cancelled session always comes to its end, whatever its claims were
\* doing, so that it cannot hold up a rebalance (process and consumeStream
\* watch the session context).
SessionsEnd == \A w \in Workers : sess[w] = "cancelled" ~> sess[w] # "cancelled"

\* What the worker group shows of itself to the abstract at-least-once queue.
AnsweredOffsets ==
  [p \in Partitions |-> {o \in 0 .. Len(Backlog[p]) - 1 : Answered(p, o)}]
MisledOffsets ==
  [p \in Partitions |-> {o \in 0 .. Len(Backlog[p]) - 1 : <<p, o>> \in misled}]

Abstract == INSTANCE AtLeastOnce WITH
  Length <- [p \in Partitions |-> Len(Backlog[p])],
  FromOldest <- StartOldest,
  Honest <- PublishContract,
  answered <- AnsweredOffsets,
  misled <- MisledOffsets

\* Every behaviour of the worker group, projected on what is answered, where it
\* started and what it has committed, is one of the at-least-once queue.  The
\* queue leaves a record out only where the configuration starts at the end of
\* a partition or Publish does not keep its promise.
ImplementsAtLeastOnce == Abstract!Spec
=============================================================================
