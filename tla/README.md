# kilg in TLA+

This directory models kilg, an OpenAI-compatible gateway that hands slow
("heavy") chat requests to a group of workers over Kafka. The modules are
translated from the Go source under `src/`; `PROJECT.json` maps every
definition to the lines it stands for.

## The system and its parts

A gateway process accepts HTTP requests. A chat request for a heavy model
becomes a job: it is recorded in an in-memory job store and published to
`llm.requests`. A worker of the consumer group reads it, runs the provider, and
writes what the provider streams to `llm.events`, ending with a terminal event
and a record in `llm.completed` or `llm.failed` (and `llm.dlq` when it is given
up). The gateway consumes `llm.events`, applies every event to the job store
and hands it to the dispatcher, which feeds the SSE stream of the client that
waits for that job. A client that reconnects, and a gateway that has lost its
store, read the job's events back from `llm.events`. Other models are served
directly by a provider goroutine in the gateway.

| component | code (under `src/internal`) | state | operations | what makes it correct |
|---|---|---|---|---|
| Worker | `worker/worker.go` | goroutine per claimed partition, generation slots, attempt and sequence counters | `Run`, `process`, `runOnce`, `consumeStream`, `publishCompletion`, `publishFailed`, `publishDLQ`, `handleInvalidRequest` | no request is lost, transcripts are complete, terminal events close their attempt, dead letters are exhausted |
| Consumer group | `kafka/producer.go` (Consumer) and Sarama, Kafka | partition ownership, committed and marked offsets, session context | `Consume`, `consumeOnce`, `ConsumeClaim`, autocommit | committed offsets are answered and never move back, sessions end |
| Producer | `kafka/producer.go` (Producer) | Sarama's pipeline and the two acknowledgement channels all calls share | `Publish`, `Close` | nil means the broker has the record, acknowledgements are neither lost nor taken twice, calls end |
| Replay reader | `kafka/replay.go` | a goroutine per partition, the records collected | `ReadAll`, `readPartition` | the result begins where the log does and has no gap, and the call returns |
| Job store and manager | `jobs/manager.go` | job per request id | `Create`, `Get`, `Update`, `List`, `Forget`, `Ensure`, `Apply` | a status agrees with the events of the job |
| Chat handlers | `api/chat.go`, `api/chat_json.go` | idempotency map, per-request stream state | `handleChat`, `enqueue`, `streamJobWith`, `completeJobJSON` | one job per idempotency key, events in order, `[DONE]` last |
| Job endpoints | `api/jobs.go` | none | `handleJob`, `handleJobEvents`, `handleCancelJob`, `recoverJob` | a recovered job is what the log says, a cancelled one does not run again |
| Event consumer, dispatcher, SSE replay | `api/consumer.go`, `streaming/dispatcher.go`, `api/replay.go` | subscription per request id | `RunEventConsumer`, `Register`, `Unregister`, `Dispatch`, `replayFrom` | a subscriber misses no event, a terminal event reaches it |
| Direct providers | `providers/...`, `api/chat.go` (`streamDirect`), `api/chat_json.go` | event channel, error channel, accumulated answer, timers | `Complete`, `streamDirect`, `completeDirectJSON` | a completed job has the whole answer, every handler settles its job, both goroutines end |
| Request ids | `api/ulid.go` | last millisecond and its entropy | `NewULID`, `incrementEntropy`, `encodeULID` | ids grow, as numbers and as texts, also when the clock is set back |
| Router | `router/router.go` | none | `Route`, `Models` | not modelled: a stateless switch on the model's name |
| Embeddings, models, configuration, start-up, metrics, logging | `api/embeddings.go`, `api/models.go`, `config`, `cmd`, `observability` | none worth a model | | not modelled: pure I/O |

Interactions: gateway to worker and back only through Kafka topics; inside the
gateway the HTTP handlers and the event consumer share the job store (a mutex
around each call, not around sequences of calls) and the dispatcher; a
provider and its reader share one channel; everything that publishes in one
process shares one `Producer` and the channels its acknowledgements come on.

What is hard here: records delivered again after a crash, an eviction or a
failed publish; a publish whose acknowledgement is lost; a zombie worker beside
the new owner; the order of terminal publishes, mark and commit; two handlers
and the event consumer between the locks of one store; streams that wait for an
event somebody dropped; callers that take each other's acknowledgements; a log
that is read while it is written; a response cut short. `PROJECT.json` lists each
hazard at its line.

## The modules

| module | what it is | lines |
|---|---|---|
| `Worker` | the worker process on its consumer group: sessions, claims, attempts, publishes | specification and properties |
| `AtLeastOnce` | what the worker group promises the producers of `llm.requests` | abstract specification |
| `MCWorker` | backlogs, publish outcomes and symmetry for the runs of `Worker` | model checking |
| `WorkerProofs` | theorems about the offsets of `Worker`, and its refinement of `AtLeastOnce` | proofs |
| `WorkerHistoryProofs` | theorems about what `Worker` leaves in its topics, and how often it hands a record out | proofs |
| `JobEvents` | the types of a job's events, the status each sets, the order in which they come | shared operators |
| `Jobs` | the gateway's handlers and its event consumer on the job store | specification and properties |
| `JobsProofs` | theorems about `Jobs` | proofs |
| `Streaming` | how events reach the connections that wait for a job | specification and properties |
| `StreamingProofs` | theorems about `Streaming` | proofs |
| `Direct` | a request served by a provider in the gateway: its goroutine, its channel, its handler, a DELETE beside them | specification and properties |
| `DirectProofs` | theorems about `Direct` | proofs |
| `Producer` | concurrent calls of `Publish` on one producer, and `Close` | specification and properties |
| `ProducerProofs` | theorems about `Producer` | proofs |
| `Replay` | one call of `ReadAll` on a topic | actions and properties over a log somebody else writes |
| `EventLog` | `Producer` writing the log `Replay` reads | composition and its properties |
| `EventLogProofs` | theorems about `EventLog` | proofs |
| `MCEventLog` | the topic of the run of `EventLog` | model checking |
| `Ulid` | the generator of request ids and their encoding | specification and properties |
| `UlidProofs` | theorems about `Ulid` | proofs |

`Worker` is the producer of `llm.events`, `Jobs` and `Streaming` its consumers.
They meet in `JobEvents.Follows`, the order of the events of one delivery: the
worker of `Jobs` and `Streaming` makes any events in that order, and
`Worker.EventsFollow` says that the worker group keeps to it, so that the
gateway's modules need not carry the worker's state. (They number a delivery's
events without gaps, where a refused publish of `Worker` leaves one; only the
order of numbers is ever compared.) `Direct` is the
other route and shares no state with them. `Producer` and `Replay` are the two
ends of `llm.events`; `EventLog` takes an instance of each, with the broker's
records as the log between them. What `EventLog` shows of `ReadAll` (a prefix of
a job's events, possibly a short one, and no error) is what `Jobs` and
`Streaming` assume of a replay. `Worker` takes what a publish reports from its
constant `PublishOutcomes`; `Producer` says when the documented contract holds.
The default configuration does not meet it: `HEAVY_WORKERS` is 2 (`config.go:88`),
and the generations of both slots publish through one producer. So what `Worker`
says of offsets allows for a `Publish` that returns nil for a record that is not
stored; what it says of the topics' contents takes the contract as an assumption.

### Worker

One claim is one goroutine of `ConsumeClaim`; `pc[w][p]` says where the
goroutine of worker `w` for partition `p` stands, and the header of the module
lists the places with the functions they lie in. A step is the code between two
points where something else can happen: a publish, a wait, a lock.

| state | code |
|---|---|
| `owner`, `committed`, `arrived` | the coordinator and the broker |
| `sess` | the session context of `consumeOnce` (`none`, `live`, `cancelled`) |
| `pc`, `pos` | the goroutine of a claim and its next offset; everything before `pos` is marked |
| `job` | local variables of `process` and `runOnce`: attempt, `seqCounter`, chunks, the error of the attempt |
| `events`, `results` | `llm.events`; `llm.completed`, `llm.failed`, `llm.dlq` |
| `opened` | history: the offset the group last started from while a partition had no committed one |
| `misled` | history: records an outcome of which `Publish` has acknowledged without storing it |
| `base`, `deliveries`, `faults` | history, and the bound on faults |

| action | code |
|---|---|
| `Assign`, `Revoke`, `Cancel`, `EndSession`, `Evict`, `Crash` | `Consumer.Consume`, `consumeOnce`; the coordinator |
| `Arrive` | `Server.enqueue` as the worker sees it |
| `Fetch`, `Quarantine`, `AcquireSlot` | the handler of `Run`, `handleInvalidRequest`, the semaphore |
| `Decode`, `Start`, `Chunk`, `Heartbeat`, `StreamEnd` | `buildProviderRequest`, `runOnce`, `consumeStream` |
| `Complete`, `Aggregate` | `publishCompletion`, its two publishes |
| `Retry`, `RunFailed`, `Fail`, `RecordFailure`, `DeadLetter` | the loop of `process`, `publishFailed`, `publishDLQ` |
| `Mark`, `AutoCommit`, `Interrupt` | `MarkMessage`, Sarama's autocommit, a cancelled session |

### Jobs

A handler is a sequence of steps, one for each call that takes the store's
lock, publishes to Kafka or takes the lock of the idempotency map. A POST makes
its own ULID, so the request stands for the id, the job and the record.

| state | code |
|---|---|
| `idem` | `Server.idem`, for one key |
| `at`, `delete`, `get` | where the handlers of POST, DELETE and GET stand |
| `store` | `MemoryStore`: status and sequence of each job |
| `requests`, `events` | `llm.requests` and `llm.events`, by id |
| `worker` | what the worker does for the id: its last event and number |
| `cursor`, `committed` | the consumer of `llm.events` |
| `top`, `flaws` | history the properties refer to |

`Post`, `Claim`, `Ensure`, `MarkQueued`, `PublishRequest`, `Announce` are
`handleChat` and `enqueue`; `CancelGet`, `CancelUpdate`, `CancelPublish` are
`handleCancelJob`; `GetJob`, `ReadAll`, `Recreate`, `ApplyNext` are `handleJob`
and `recoverJob`; `Consume`, `AutoCommit`, `Rewind` are `RunEventConsumer` on
its consumer group; `Restart` is the process. The consumer of a restarted
gateway starts at its committed offset: the model assumes that its partition had
one before the job's first event (with the default `KAFKA_CONSUMER_START` a
partition without one is read from its end).

### Streaming

All connections are POSTs with one key, so that the first enqueues the job and
the others join it (`reused`). The streams belong to one client that opens one
after another with the id of the last event it has seen. The handler of a stream
whose client is gone is `broken`: what it still writes is lost, and all that
matters of it is that its deferred `Unregister` comes at some time and removes
whatever is registered then.

| state | code |
|---|---|
| `current` | `Dispatcher.streams` for the id |
| `conn[c]` | the handler: where it stands, `Stream.Ch`, `lastSent`, the places in the log of what its replay has yet to write |
| `status`, `applied`, `dispatched` | the job in the store; the two halves of the consumer's callback |
| `log`, `requested`, `worker`, `claimed` | the job's events, its record, its worker, its key |
| `listening`, `seen` | the client: the stream it reads, and what it has seen over all of them |
| `flaws` | history: which of the known causes of a loss has occurred |

### Direct

`streamDirect` and `completeDirectJSON` start a goroutine that runs `Complete`
and range over its channel. The OpenAI-compatible client (LiteLLM's and heavy's
clients only wrap it) closes the channel in a `defer`; Ollama's closes it on each
path, and on three not at all (`Refuse`).

| state | code |
|---|---|
| `upstream` | the lines the upstream server has sent, and how its response ended |
| `prov` | the goroutine: what it has yet to send, and what it does then |
| `events`, `closed`, `done` | the channel of provider events, and the one for the error `Complete` returns |
| `handler`, `written` | the loop over the channel, the chunks written or absorbed |
| `acc`, `answer` | `completionAcc` of `completeDirectJSON`, and the answer it makes of it |
| `aggregates` | history: what the worker's and the gateway's aggregator would make of `written` |
| `status`, `connected` | the job in the store, the client |
| `delete` | the handler of a DELETE of the job, and then the cancelled event it published |

A line of the upstream server is kept as the choices that carry a piece of text
and the finish reason; `<<i, k>>` is the text of choice `k` in line `i`, so that
a property can ask for every piece in its place. `Translated` is what each client
makes of a line of a stream (the OpenAI-compatible one passes it on, Ollama's
announces the role first and leaves empty texts out), `Whole` what it makes of a
response in one piece, `absorb` and `workerAbsorb` the two aggregators.
`Transcribes` relates what a client was sent to the lines of the server piece by
piece, without saying how they were cut into chunks.

`Request`, `ReadStream`, `ReadWhole`, `Send`, `Return` are `Complete` of the two
clients; `Expire` is a context that ends a read; `Take`, `RangeEnds`, `Result`
are the handlers. `CancelGet`, `CancelUpdate`, `CancelPublish` are
`handleCancelJob`, `ApplyCancelled` the gateway's own consumer of the cancelled
event. A job is running when the model starts: nothing before that waits for
anybody.

### Producer

A call of `Publish` has a record of its own, so the call names the record.

| state | code |
|---|---|
| `call[c]` | where the call stands in its two `select`s, or what it returned: `nil` with an acknowledgement, `empty` for the nil of a closed channel |
| `ack[c]` | the acknowledgement of its record: not sent, in Sarama's pipeline, on `Successes` or `Errors`, taken |
| `stored` | the broker |
| `producer` | open, closing (`AsyncClose`, the channels being drained) or closed |
| `shared` | history: a record was sent while another acknowledgement was due (only `Send` sets it) |

`Send` and `Cancel` are the first `select`, `Take`, `TakeNothing` and `Cancel`
the second, which takes what comes first, whoever's it is. `Close`, `Drain`,
`Closed` are `Producer.Close`; `Store` and `Answer` are Sarama and the broker.

### Replay and EventLog

| state | code |
|---|---|
| `log[p]` | a partition of the topic |
| `reader` | `ReadAll` |
| `part[p]` | `readPartition`: where it stands, its next and its last offset, its records |
| `out`, `short` | what `ReadAll` has collected; history: a partition was not read to its end |
| `promised` | history, in `EventLog`: the job's records whose `Publish` had taken a success, and so returned nil, when `ReadAll` was called |

`Offsets`, `Receive`, `Collect`, `GiveUp` are the goroutine of a partition, whose
end is fixed when it asks for it; `Return` is `wg.Wait`. `EventLog` runs them
beside calls of `Publish` that append to the partition of the job's key. `Selects`
says that a sequence holds what a part of a partition has for the key, by giving
each entry its place there.

### Ulid

`Later`, `Within` and `Overflow` are the branches of `NewULID`, which holds its
lock throughout, so each call is one step. The widths of a byte, of time and
entropy and of a character are constants; a random draw is any entropy; the
panic of an overflow leaves the entropy at zero and makes no id. `Bytes` and
`encodeULID` are the encoding, with a character as its place in the alphabet.
`NextIsSuccessor` says in terms of order what a carry must do: no entropy lies
between one and its increment.

## What the runs check

| run | bounds | shows |
|---|---|---|
| `worker_retry` | 1 worker, 1 request, 2 attempts, 2 chunks, 1 heartbeat, 1 fault | what one request leaves in the topics: `TranscriptComplete`, `TerminalEventsClose`, `ContentSequenceGrows`, `ResultsFollowEvents`, `DeadLetterIsExhausted`, `EventsFollow` |
| `worker_rebalance` | 2 workers, 1 partition, 2 records, 2 faults, start at the oldest record, any outcome of a publish | `CommittedAreAnswered`, `CommitNeverMovesBack`, `RedeliveryNeedsAFault` with evicted workers that go on working |
| `worker_drains` | 1 worker, 2 partitions, 1 slot, 1 fault, start at the end, fairness | `BacklogDrains`, `SessionsEnd`, and the refinement of `AtLeastOnce` |
| `worker_heartbeat` | as `worker_retry`, no fault | violation: a heartbeat shares its number with the next event |
| `jobs_life` | 1 POST, 1 DELETE, 1 GET, 2 faults | at rest, a job has the status and the sequence of its log (`SettledStatusIsLogged`, `SettledSequenceIsLogged`) |
| `jobs_terminal` | 1 POST | violation: a finished job is queued again |
| `streaming` | 2 streams, 1 waiter, channels of 2, 1 fault | `SeenWithoutGaps`, `SeenInOrder`, `WaiterWillWake`, `StreamWillEnd` |
| `direct` | both clients, channel of 2, 4 lines, 1 DELETE, fairness | `CompletedIsWhole`, `AnswerIsWhole`, `EndedIsSettled`, `RoutesAgree`, `CancelledIsSettled`, `HandlerEnds`, `ProviderReturns` |
| `publish` | 3 calls, pipeline of 2, one Close, fairness | `HonestUnlessShared`, `NilsAreBacked`, `OutstandingIsAccounted`, `PublishEnds` |
| `publish_contract` | 2 calls, pipeline of 2 | violation: a call returns nil for a record Kafka does not have |
| `eventlog` | 2 partitions with earlier records, 2 calls, fairness | `ResultIsAPrefix`, `ReadsWhatWasPublished`, `ReadEnds` |
| `ulid` | time of 2 bytes, entropy of 3, bytes of 2 bits, characters of 3, 6 times | `NextIsSuccessor`, `IdsGrow`, `TextsGrow` |

Why the bounds are enough. The claims of `Worker` share only slots and
sessions, so one partition shows the offsets and two show the slots. Two workers
make an owner and a zombie; a third would be a second zombie, which has no more
to do with the owner than the first. Two attempts have a first and a last one,
and two chunks a first and a following one. The fault bound lets every kind of
fault occur, and two let an eviction, which makes a zombie, come together with a
failed or a false acknowledgement or a crash. `worker_retry` and
`worker_rebalance` start at the oldest record, so that every record is at stake;
`worker_drains` starts at the end, as the default configuration does, with
records that arrive before the group starts and after. In `Jobs` jobs meet only
through the idempotency key, and what they do to each other there is one known
race (below), so `jobs_life` has one job. In
`Direct` the channel is shorter than the stream, so that it is full, as one of 64
is for a longer stream; four lines have a first, two in the middle and a last
one, and a line has none, one or two pieces of text. In `Producer` three calls
are one that waits, one that has given up and one that comes later, and a
pipeline of two is full of them. In `EventLog` the job has a record before the
calls and one or two that arrive before, while and after the end of its
partition is read, in a topic with another job's records and another partition. In `Ulid` the
carry crosses no, one or all bytes, characters span bytes and the last one is
padded, as 26 characters of 5 bits are for 128 bits. In `Streaming` a
stream and its successor are what `Unregister` and the replay are about; the log
is long enough for an event before the reconnection, one that only the replay
brings and one that comes both ways.

Deadlock is checked in every run of `Worker`, where `Quiet` is the one place to
stop: every partition owned, idle and read to its end, and in `ulid`, where a
call can always be made. In `Jobs`, `Streaming`, `Direct`, `Producer` and `EventLog` the
requests and calls come to an end, and so does the behaviour.

### Properties with exceptions

Each exception is a step of the code that does lose something; the properties say
that there is no other cause, in whatever order the steps come.

- `SettledStatusIsLogged` (`flaws` of `Jobs`): a recovery after which the consumer
  has passed events `ReadAll` did not return, one that applies older events after
  the consumer has applied newer ones, and a DELETE whose event is not stored.
  Only the first costs a job its sequence (`SettledSequenceIsLogged`). The status
  the log ends with may itself be a late `queued` (the violation `jobs_terminal`).
- `SeenWithoutGaps` and `StreamWillEnd` (`flaws` of `Streaming`): a heartbeat,
  which has the number of the event after it, a redelivery that numbers from 1
  again, an event dropped on a full channel, a replay cut short, and a stream
  without `Last-Event-ID` that joins a job already under way.
- `CommittedAreAnswered`, `BacklogDrains` and `ImplementsAtLeastOnce` except the
  records that a partition held when the group started at its end without a
  committed offset (`opened`; `KAFKA_CONSUMER_START` is `latest` by default), and
  the first and the last of them a record whose outcome `Publish` acknowledged
  without storing it (`misled`). The abstract queue has a step for each.
- `HonestUnlessShared` excepts two kinds of call: those of a producer in which a
  record was sent while another acknowledgement was due (the violation
  `publish_contract`), and those that read a channel closed under them, which
  yields nothing and counts as success. Nothing need be shared for the second: a
  lone record fails, `Close` drains its error before the call takes it and closes
  the channels, and the call returns nil for a record that is not stored.
  `NilsAreBacked` has neither exception, and counts the calls that took a success.
  `PublishEnds` excepts a pipeline filled by calls that gave up.
- `ReadsWhatWasPublished` excepts a read that was cut short, of which `ReadAll`
  says nothing, and the same sharing of the producer; the nil of a closed channel
  is no acknowledgement and promises nothing.
- `EndedIsSettled`: a stream that an OpenAI-compatible server closes without
  `[DONE]` ends with no event at all, and its job stays running.
- `CompletedIsWhole`: Ollama's client completes a stream that ends without its
  last line, and gives no finish reason for it.
- `HandlerEnds`: Ollama's client leaves the channel open when its request cannot
  be sent, and the handler ranges over it for ever.
- `ProviderReturns`: a provider that sends to a full channel after its handler
  left on a broken connection is stuck.
- `RoutesAgree` is about streams whose chunks have one choice: of two, the
  worker concatenates both texts and the gateway keeps the first. The worker
  also leaves out what comes as a message rather than as a delta.
- `IdsGrow` and `TextsGrow` except ids of a millisecond whose entropy has
  overflowed: the call that overflows panics with the entropy at zero, and if
  the panic is recovered the next id of that millisecond is smaller.

Two requests with one new idempotency key both start a generation whenever both
look the key up before either sets it (`Post` before the other's `Claim` in
`Jobs`); `PLAN.md` section 29 promises one. The race is certain, so there is no
property left to check, and `jobs_life` has one POST.

## Fairness

`FairSpec` of `Worker` has weak fairness of `Assign`, `Revoke`, `AutoCommit`,
`EndSession` and of the steps of every claim. Go schedules every runnable
goroutine, Sarama's autocommit timer fires, the coordinator completes a
rebalance, and a provider's stream ends because `GenerationTimeout` bounds it. A
claim waiting for a slot selects on the semaphore, and a slot that is free stays
free for it or goes to another claim; with as many claims as the run has, weak
fairness suffices. Faults, records that arrive, and cancelled sessions are not
fair: nothing has to go wrong. Faults are bounded, so liveness says what happens
when they stop.

`FairSpec` of `Direct` has weak fairness of the handler, of the provider's sends
and returns, of `Request` and of `Expire`: the generation timeout
(`GenerationTimeout`, or `OllamaTimeout`, which is five minutes unless it is
configured as 0) ends a request or a read that hangs. Reading is not fair: the
upstream server need not send anything. The idle timeout plays no part, since
it cancels a context the response does not depend on.

`FairSpec` of `Producer` has weak fairness of the calls' sends and receives, of
Sarama's answers (it answers every record within its retries) and of the drain of
`Close`. A context need not end and nobody need call `Close`. In `EventLog` a
reader that has started goes on: a partition's goroutine has a timer, which ends
it when nothing comes.

## What is proved

Every safety invariant and every action property of a passing run is a theorem,
but `TextsGrow`. The theorems hold for every value of the constants: any number
of workers, partitions, records, posts, connections and calls, any buffer, any
bound on faults. A model's named assumption on its constants is all they assume,
but for four theorems about the contents of the worker's topics and one
corollary, which assume `PublishContract`: nil from `Publish` means that the
record is stored, as the comment of `Producer.Publish` promises. `PublishIsHonest`
below says when the producer keeps that promise; its two
exceptions are when it does not (`publish_contract` shows the first), and with
more than one generation slot (the default has two) the worker's producer is
shared.

### Worker: offsets (`WorkerProofs`)

- `TypeCorrect`: `Spec => []TypeInv`. `TypeInv` is `TypeOK` with `AtRecord`: a
  claim that works on a record stands at an offset below the end of its
  partition, in a branch of the handler that fits the record's kind. `TypeOK`
  alone is not inductive, since a claim at work indexes `Backlog` and `events`
  with its position.
- `CommittedNeverMovesBack`: `Spec => CommitNeverMovesBack`. The invariant is
  `Ownership`: the owner of a partition claims it, and its position is at or
  above the committed offset; commits of an evicted session are fenced.
- `NoRequestIsLost`: `Spec => []CommittedAreAnswered`. The invariant is `Safe`:
  from where the group started to the position of the owner's claim all records
  are covered, by a stored outcome or by one that was acknowledged and not stored,
  and a claim about to mark has covered its record. Results are never removed.
- `WorkerImplementsQueue`: `Spec => ImplementsAtLeastOnce`. Storing an outcome is
  `Answer`, a false acknowledgement `Mislead`, a start at the end `SkipToEnd`, a
  commit `Advance`; every other step changes none of the variables.

Both hold for either start and whatever `Publish` does; the exceptions are in the
property and in the queue. The corollary `StrictlyAnswered` says what is left
without them: where `PublishContract` and `StartOldest` hold, every record below
a committed offset has a stored outcome.

### Worker: what it leaves behind (`WorkerHistoryProofs`)

What a claim's step does is said once, in the table `Row` (where the goroutine
comes from and goes to, what becomes of its counters, what it publishes), and
`ClaimRow` proves the table complete. The invariants are then proved over its
rows.

- `WorkerTypes`: `Spec => []TypeOK`.
- `ContentGrows` (`ContentSequenceGrows`) and `TerminalIsLast`
  (`TerminalEventsClose`), from `History`: deliveries have numbers of their own,
  which no two claims share (`Numbers`); the events a claim's delivery has stored
  bound where the claim may stand (`OwnEvents`); events are in order (`InOrder`).
  Neither property is inductive without `OwnEvents`, since an evicted worker goes
  on publishing beside the new owner and only the number of its delivery keeps
  the two apart.
- `ResultsAreAnnounced` (`ResultsFollowEvents`) and `DeadLettersAreExhausted`
  (`DeadLetterIsExhausted`), assuming `PublishContract`, from `Truthful`: a claim
  about to write a result has stored the event it follows, and one about to
  dead-letter has used its attempts up and stored its failure.
- `EventsComeInOrder` (`EventsFollow`), assuming `PublishContract`, from `Chained`:
  the place of a claim says which content event of its delivery can be the last.
  This is what `Jobs` and `Streaming` take a worker to do.
- `TranscriptsAreComplete` (`TranscriptComplete`), assuming `PublishContract`, from
  `Summed`: while a claim streams, the chunks of its attempt in the log are as
  many as it has counted.
- `RedeliveriesHaveFaults` (`RedeliveryNeedsAFault`), from `Accounted`: the times a
  record was handed out, the claims that may still hand it out and a rebalance
  under way are together no more than one and the faults. It needs `Sessions`: a
  worker owns all it claims or, once evicted, nothing.

### Jobs (`JobsProofs`)

- `JobTypes`: `Spec => []TypeOK`.
- `SequencesAreLogged` (`SettledSequenceIsLogged`) and `StatusesAreLogged`
  (`SettledStatusIsLogged`).

The properties speak of a job at rest, and nothing about rest is inductive. The
invariant `Settling` says what holds on the way: `Base` is where each handler may
stand and what it knows there; `Covered`, that an event of a job was applied since
the job was created or is `Due`, to the consumer or to a recovering GET;
`Numbered`, that the job's sequence is a number of its log and at least that of
every event that is not due; `Decided`, that the job has the status its log ends
with or somebody is still to set it: an event due, a GET behind one applied
before it, a DELETE that has yet to publish. At rest nothing is due and nobody is
under way. A table `Row` has what each step does to one job.

### Streaming (`StreamingProofs`)

- `StreamTypes`: `Spec => []TypeOK`.
- `SeenIsInOrder` (`SeenInOrder`) and `SeenHasNoGaps` (`SeenWithoutGaps`).
- `WaitersWillWake` (`WaiterWillWake`) and `StreamsWillEnd` (`StreamWillEnd`).

The invariant `StreamingInv` follows the one stream the client reads. `Joins` says
of it that its number is that of the last event seen (`Marked`), that what it is
to write comes after what is seen (`Ahead`), and that of the events dispatched
since it registered none is missing from what is seen, to be written or in its
channel (`Joined`), which is where the replay and the channel meet. `LogOrdered`
and `LogStrict` say when a number tells events apart, which is why redelivery and
heartbeats are flaws; `EndSeen` and `Woken` lead to the two theorems about
terminal events.

### Producer and EventLog (`ProducerProofs`, `EventLogProofs`)

- `ProducerTypeCorrect`: `Spec => []TypeOK`.
- `PublishIsHonest`: `Spec => []HonestUnlessShared`. The invariant says whose
  acknowledgement a call can take: while nothing was shared, the only one that is
  due is that of the call that waits, also while the producer is closing. A
  process in which one goroutine at a time publishes, and waits for its answer,
  therefore has the contract until it closes its producer under a call, and no
  longer; a worker needs one slot and one claim for that, and no cancelled publish.
- `AcknowledgementsAreAccounted`: `Spec => []OutstandingIsAccounted`, from the
  types and the bijection each step keeps between what is due and who waits.
- `NilsNeedRecords`: `Spec => []NilsAreBacked`. The invariant counts: nil results
  that took a success and successes nobody has taken are together no more than
  stored records, of an open, closing or closed producer.
- `LogTypes`: `Spec => []TypeOK` of `EventLog`, which no run repeats.
- `ResultsArePrefixes` (`ResultIsAPrefix`): a goroutine has kept the job's records
  among those it has received (`Received`), and the result is that of the one
  partition that has any (`Collected`).
- `PublishedIsRead` (`ReadsWhatWasPublished`): what was published before the call
  lies below every end that is asked for after it (`Held`).

Every step of `EventLog` is a step of its `Producer` or leaves it alone
(`LogStep`), so the producer's invariant (`Honest`) holds of the log as well. That a job's
records are in one partition is `EventLogAssumption`; the code's hash partitioner
and its key, the request id, see to it.

### Direct (`DirectProofs`)

- `DirectTypeCorrect`: `Spec => []TypeOK`.
- `HandlersSettleTheirJobs`: `Spec => []EndedIsSettled`. The invariant `Settling`
  follows the event that settles the job: from the moment the provider is to
  return it is in the channel or about to be sent, so a handler that has read a
  closed channel to its end met it, or the server closed the stream. It also says
  that the provider stops reading before it closes the channel, and that a DELETE
  past its lookup leaves no running job.
- `CancelledStaysSettled`: `Spec => CancelledIsSettled`, from the types.
- `CompletedStreamsAreWhole`: `Spec => []CompletedIsWhole`. The invariant `Flowing`
  accounts for every chunk between the server and the client: what was written,
  with what is in the channel and what is about to be sent, transcribes the lines
  the server has sent, and a done event is the last of it.
- `AnswersAreWhole`: `Spec => []AnswerIsWhole`, from `Collecting`: what is due makes,
  absorbed by what the handler has, the answer the server gave.
- `RoutesMakeTheSame`: `Spec => []RoutesAgree`. The property with "all chunks of a
  stream are deltas" (`Alike`) is inductive, on the history variable `aggregates`;
  as a fold over what was written it would need induction over data.

### Ulid (`UlidProofs`)

`GeneratorTypeCorrect`, `IdsAreNewer` (`Spec => IdsGrow`) and `CarriesAreExact`
(`Spec => []NextIsSuccessor`), for all widths and clocks, from an invariant that
ties the generator's state to the id made last and lemmas that the carry yields
a later entropy and that none lies before it.

### Only model-checked

- Liveness, which needs fairness and ENABLED, both out of the prover's reach:
  `BacklogDrains`, `SessionsEnd`, `PublishEnds`, `ReadEnds`, `HandlerEnds`,
  `ProviderReturns`. `WaiterWillWake`, `StreamWillEnd` and `EndedIsSettled` are
  the safety part of what such a property would say of the gateway, and proved.
- `TextsGrow`: that the encoding keeps the order of ids takes induction over
  bytes, bits and characters (a fold of powers of two).
- The three violations, which one behaviour shows.

## What is not modelled, and the plan

What remains to be stated or proved:

1. The lemmas that liveness rests on and that are within the prover's reach: a
   measure that each step of a session's end lowers.
2. `Jobs` with two posts that share a key in a run of its own, if the gateway
   comes to keep the key under one lock.

`Jobs` and `Streaming` leave the direct routes out: their jobs have no events
and no second handler. In `Streaming` nobody cancels the job and the gateway
does not restart (a restarted gateway has forgotten the key, so a POST starts
another job); `Jobs` has both.

Not modelled:

- The router: a stateless switch, whose outcome chooses between the route of
  `Jobs` and that of `Direct`.
- A known idempotency key on a direct route, which starts the provider again
  under the same id: the two share only the status, and the second sets it to
  running by design.
- `CompleteSync` of the providers and `Forget` of the store, which nobody calls.
- Reasoning texts and tool calls: the aggregators treat the former as they do
  texts and drop the latter, and a whole response that the OpenAI-compatible
  client turns into chunks loses both.
- Start-up and shutdown (`cmd`, `config`). The order of the gateway's shutdown has
  two hazards, which `PROJECT.json` lists at their lines.
- Formats of requests and records, metrics, logging, embeddings, model listing,
  topic creation and address rewriting: no decision of the modelled parts depends
  on them. Of a chunk `Worker` keeps the number only; `Direct` has the texts.
