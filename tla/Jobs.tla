-------------------------------- MODULE Jobs --------------------------------
(***************************************************************************)
(* Jobs in the gateway: the job store (internal/jobs), the handlers that   *)
(* write it (enqueue, DELETE, the recovery of GET in internal/api) and the *)
(* consumer of llm.events, which applies every event to it.                *)
(*                                                                         *)
(* Each call of the store takes its lock once; between two calls of one    *)
(* handler anything may happen.  A handler is therefore a sequence of      *)
(* steps, one for each call of the store, of Kafka or of the map of        *)
(* idempotency keys.  A POST request makes an id of its own (NewULID), so  *)
(* the request stands for that id, and for the job, the record and the     *)
(* events that carry it.  The worker and the broker appear as what the     *)
(* gateway sees of them: the log of each job's events.                     *)
(***************************************************************************)
EXTENDS Integers, Sequences, FiniteSets, FiniteSetsExt, JobEvents

CONSTANTS
  Posts,      \* POST /v1/chat/completions requests
  Keyed,      \* those of them that carry the one Idempotency-Key
  Deletes,    \* DELETE /v1/jobs/{id} requests
  Gets,       \* GET /v1/jobs/{id} requests
  None,       \* no post
  MaxEvents,  \* bound: a worker adds no event to a log of this length
  MaxFaults   \* bound: failed publishes, redeliveries, rewinds, restarts

ASSUME JobsAssumption ==
  /\ Keyed \subseteq Posts
  /\ None \notin Posts
  /\ MaxEvents \in Nat /\ MaxFaults \in Nat

VARIABLES
  idem,       \* the id the key stands for, or None
  at,         \* post -> where its handler stands
  id,         \* post -> the id it is answered with
  requests,   \* llm.requests: id -> records with that id
  events,     \* llm.events: id -> its events, in order
  worker,     \* id -> what its worker does: [last event, its number]
  cursor,     \* id -> events the gateway's consumer has read
  committed,  \* id -> events below the consumer's committed offset
  store,      \* MemoryStore: id -> job
  delete,     \* DELETE -> its handler
  get,        \* GET -> its handler
  top,        \* history: id -> the last event applied to the job, by position
  flaws,      \* history: id -> what went wrong since the job was created
  faults      \* faults so far

client == <<idem, at, id>>
kafka == <<requests, events, worker>>
consumer == <<cursor, committed>>
jobs == <<store, top, flaws>>
vars == <<client, kafka, consumer, jobs, delete, get, faults>>

-----------------------------------------------------------------------------
(* The job store. *)

NoJob == [status |-> "none", seq |-> 0]
Known(c) == store[c].status # "none"

\* Mutant of Applied: an event is applied when its number is a new one.
AppliedOnce(j, e) ==
  [status |-> IF SetsStatus(e) /\ e.seq > j.seq THEN StatusOf[e.type] ELSE j.status,
   seq |-> IF e.seq > j.seq THEN e.seq ELSE j.seq]

\* Mutant of Applied: the number of the last event counts.
AppliedLast(j, e) ==
  [status |-> IF SetsStatus(e) THEN StatusOf[e.type] ELSE j.status, seq |-> e.seq]

\* Manager.Apply: the status follows the event whatever it was before, the
\* number only grows.
Applied(j, e) ==
  [status |-> IF SetsStatus(e) THEN StatusOf[e.type] ELSE j.status,
   seq |-> IF e.seq > j.seq THEN e.seq ELSE j.seq]

\* Update does nothing for an unknown id.
Apply(c, i) ==
  IF Known(c)
  THEN /\ store' = [store EXCEPT ![c] = Applied(@, events[c][i])]
       /\ top' = [top EXCEPT ![c] = IF i > @ THEN i ELSE @]
  ELSE UNCHANGED <<store, top>>

SetStatus(c, status) ==
  store' = IF Known(c) THEN [store EXCEPT ![c].status = status] ELSE store

\* Mutant of Create: the new job is given no status.
CreateBlank(c, flaw) ==
  IF Known(c) THEN UNCHANGED jobs
  ELSE /\ store' = [store EXCEPT ![c] = [status |-> "", seq |-> 0]]
       /\ top' = [top EXCEPT ![c] = 0]
       /\ flaws' = [flaws EXCEPT ![c] = flaw]

\* Ensure.  Its Get and Create are two calls, but Create refuses an id that
\* exists by then.
Create(c, flaw) ==
  IF Known(c) THEN UNCHANGED jobs
  ELSE /\ store' = [store EXCEPT ![c] = [status |-> "queued", seq |-> 0]]
       /\ top' = [top EXCEPT ![c] = 0]
       /\ flaws' = [flaws EXCEPT ![c] = flaw]

Flaw(c, flaw) == flaws' = [flaws EXCEPT ![c] = @ \cup flaw]

Publish(out) ==
  IF out.ok THEN UNCHANGED faults ELSE faults < MaxFaults /\ faults' = faults + 1

PublishEvent(c, type, seq, out) ==
  /\ Publish(out)
  /\ events' = IF out.stored
               THEN [events EXCEPT ![c] = Append(@, [type |-> type, seq |-> seq])]
               ELSE events

\* A DELETE or a GET that handles no job, not yet or no more.
DeleteAt(l) == [at |-> l, id |-> None, seq |-> 0]
GetAt(l) == [at |-> l, id |-> None, len |-> 0, next |-> 0]

-----------------------------------------------------------------------------
Init ==
  /\ idem = None
  /\ at = [c \in Posts |-> "new"]
  /\ id = [c \in Posts |-> c]
  /\ requests = [c \in Posts |-> 0]
  /\ events = [c \in Posts |-> <<>>]
  /\ worker = [c \in Posts |-> [last |-> "none", seq |-> 0]]
  /\ cursor = [c \in Posts |-> 0]
  /\ committed = [c \in Posts |-> 0]
  /\ store = [c \in Posts |-> NoJob]
  /\ delete = [d \in Deletes |-> DeleteAt("idle")]
  /\ get = [g \in Gets |-> GetAt("idle")]
  /\ top = [c \in Posts |-> 0]
  /\ flaws = [c \in Posts |-> {}]
  /\ faults = 0

(***************************************************************************)
(* POST: handleChat and enqueue.                                           *)
(***************************************************************************)

To(c, l) == at' = [at EXCEPT ![c] = l]

\* A known key: the post is answered with the id it stands for.
Reuse(c) == id' = [id EXCEPT ![c] = idem] /\ To(c, "answered")

\* idempotentGet, for a post with the key.
Post(c) ==
  /\ at[c] = "new"
  /\ IF c \in Keyed /\ idem # None
     THEN Reuse(c)
     ELSE To(c, IF c \in Keyed THEN "claim" ELSE "ensure") /\ UNCHANGED id
  /\ UNCHANGED <<idem, kafka, consumer, jobs, delete, get, faults>>

\* idempotentSet: the last one to set the key wins.
Claim(c) ==
  /\ at[c] = "claim"
  /\ idem' = c
  /\ To(c, "ensure")
  /\ UNCHANGED <<id, kafka, consumer, jobs, delete, get, faults>>

Ensure(c) ==
  /\ at[c] = "ensure"
  /\ Create(id[c], {})
  /\ To(c, "queue")
  /\ UNCHANGED <<idem, id, kafka, consumer, delete, get, faults>>

MarkQueued(c) ==
  /\ at[c] = "queue"
  /\ SetStatus(id[c], "queued")
  /\ Flaw(id[c], IF store[id[c]].status = "queued" THEN {} ELSE {"unlogged"})
  /\ To(c, "request")
  /\ UNCHANGED <<idem, id, kafka, consumer, top, delete, get, faults>>

\* The record of llm.requests.  A failure is the client's 503; the job and
\* the key stay.
PublishRequest(c) ==
  /\ at[c] = "request"
  /\ \E out \in Outcomes :
       /\ Publish(out)
       /\ requests' = IF out.stored THEN [requests EXCEPT ![id[c]] = @ + 1] ELSE requests
       /\ To(c, IF out.ok THEN "announce" ELSE "failed")
  /\ UNCHANGED <<idem, id, events, worker, consumer, jobs, delete, get>>

\* The queued event, numbered 0.  Its failure is ignored.
Announce(c) ==
  /\ at[c] = "announce"
  /\ \E out \in Outcomes : PublishEvent(id[c], "queued", 0, out)
  /\ To(c, "answered")
  /\ UNCHANGED <<idem, id, requests, worker, consumer, jobs, delete, get>>

(***************************************************************************)
(* The worker, as module Worker has it: one delivery publishes started     *)
(* events (one for each attempt), chunks, and a terminal event, numbered   *)
(* from 1.  A completed event may be followed by a further attempt or by   *)
(* failed when llm.completed did not take the aggregate.                   *)
(***************************************************************************)

WorkerEvent(c) ==
  LET seq == worker[c].seq + 1 IN
  /\ requests[c] > 0
  /\ Len(events[c]) < MaxEvents
  /\ \E type \in Follows(worker[c].last) :
       /\ IF worker[c].last = "completed"
          THEN faults < MaxFaults /\ faults' = faults + 1
          ELSE UNCHANGED faults
       /\ events' = [events EXCEPT ![c] = Append(@, [type |-> type, seq |-> seq])]
       /\ worker' = [worker EXCEPT ![c] = [last |-> type, seq |-> seq]]
  /\ UNCHANGED <<client, requests, consumer, jobs, delete, get>>

\* The record of llm.requests is delivered again, and numbered from 1 again.
Redeliver(c) ==
  /\ worker[c].seq > 0
  /\ faults < MaxFaults
  /\ faults' = faults + 1
  /\ worker' = [worker EXCEPT ![c] = [last |-> "none", seq |-> 0]]
  /\ UNCHANGED <<client, requests, events, consumer, jobs, delete, get>>

(***************************************************************************)
(* RunEventConsumer.                                                       *)
(***************************************************************************)

\* The next record of a partition is applied and marked.
Consume(c) ==
  /\ cursor[c] < Len(events[c])
  /\ Apply(c, cursor[c] + 1)
  /\ cursor' = [cursor EXCEPT ![c] = @ + 1]
  /\ UNCHANGED <<client, kafka, committed, flaws, delete, get, faults>>

AutoCommit(c) ==
  /\ committed[c] # cursor[c]
  /\ committed' = [committed EXCEPT ![c] = cursor[c]]
  /\ UNCHANGED <<client, kafka, cursor, jobs, delete, get, faults>>

\* The consumer's session ends and the next one starts at the committed offset.
Rewind(c) ==
  /\ committed[c] # cursor[c]
  /\ faults < MaxFaults
  /\ faults' = faults + 1
  /\ cursor' = [cursor EXCEPT ![c] = committed[c]]
  /\ UNCHANGED <<client, kafka, committed, jobs, delete, get>>

(***************************************************************************)
(* DELETE: handleCancelJob.                                                *)
(***************************************************************************)

\* The ids some client was told.
Answered == {id[c] : c \in {p \in Posts : at[p] = "answered"}}

\* The job is looked up, and refused unless it is queued or running.
CancelGet(d) ==
  /\ delete[d].at = "idle"
  /\ \E c \in Answered :
       delete' = [delete EXCEPT ![d] =
         IF store[c].status \in {"queued", "running"}
         THEN [at |-> "update", id |-> c, seq |-> store[c].seq + 1]
         ELSE DeleteAt("done")]
  /\ UNCHANGED <<client, kafka, consumer, jobs, get, faults>>

CancelUpdate(d) ==
  /\ delete[d].at = "update"
  /\ SetStatus(delete[d].id, "cancelled")
  /\ delete' = [delete EXCEPT ![d].at = "publish"]
  /\ UNCHANGED <<client, kafka, consumer, top, flaws, get, faults>>

\* The cancelled event, with a number read two steps before.  Its failure is
\* ignored.
CancelPublish(d) ==
  /\ delete[d].at = "publish"
  /\ \E out \in Outcomes :
       /\ PublishEvent(delete[d].id, "cancelled", delete[d].seq, out)
       /\ Flaw(delete[d].id, IF out.stored THEN {} ELSE {"unlogged"})
  /\ delete' = [delete EXCEPT ![d] = DeleteAt("done")]
  /\ UNCHANGED <<client, requests, worker, consumer, store, top, get>>

(***************************************************************************)
(* GET: handleJob and recoverJob.                                          *)
(***************************************************************************)

\* The job is looked up; an unknown one is to be recovered.
GetJob(g) ==
  /\ get[g].at = "idle"
  /\ \E c \in Answered :
       get' = [get EXCEPT ![g] = IF Known(c) THEN GetAt("done")
                                 ELSE [GetAt("read") EXCEPT !.id = c]]
  /\ UNCHANGED <<client, kafka, consumer, jobs, delete, faults>>

\* ReadAll: the events of the id up to the end of the log, or fewer when a
\* partition fails or falls silent.  Nothing read is the client's 404.
ReadAll(g) ==
  /\ get[g].at = "read"
  /\ \E n \in 0 .. Len(events[get[g].id]) :
       get' = [get EXCEPT ![g] = IF n = 0 THEN GetAt("done")
                                 ELSE [@ EXCEPT !.at = "ensure", !.len = n]]
  /\ UNCHANGED <<client, kafka, consumer, jobs, delete, faults>>

\* Ensure.  Events the consumer has gone past and ReadAll did not return are
\* missing for good.
Recreate(g) ==
  LET c == get[g].id IN
  /\ get[g].at = "ensure"
  /\ Create(c, IF cursor[c] > get[g].len THEN {"gap"} ELSE {})
  /\ get' = [get EXCEPT ![g].at = "apply", ![g].next = 1]
  /\ UNCHANGED <<client, kafka, consumer, delete, faults>>

\* Apply of the next event read.  After the last one, an event applied by
\* somebody else has been overtaken by older ones.
ApplyNext(g) ==
  LET c == get[g].id  i == get[g].next  last == i = get[g].len IN
  /\ get[g].at = "apply"
  /\ Apply(c, i)
  /\ get' = [get EXCEPT ![g] = IF last THEN GetAt("done") ELSE [@ EXCEPT !.next = i + 1]]
  /\ Flaw(c, IF last /\ top[c] > i THEN {"overtaken"} ELSE {})
  /\ UNCHANGED <<client, kafka, consumer, delete, faults>>

(***************************************************************************)
(* The process.                                                            *)
(***************************************************************************)

\* The gateway dies and starts again: the store, the keys and the requests
\* being handled are gone, the consumer starts at its committed offsets.
Restart ==
  /\ faults < MaxFaults
  /\ faults' = faults + 1
  /\ idem' = None
  /\ at' = [c \in Posts |-> IF at[c] \in {"new", "answered"} THEN at[c] ELSE "failed"]
  /\ delete' = [d \in Deletes |-> IF delete[d].at = "idle" THEN delete[d] ELSE DeleteAt("done")]
  /\ get' = [g \in Gets |-> IF get[g].at = "idle" THEN get[g] ELSE GetAt("done")]
  /\ store' = [c \in Posts |-> NoJob]
  /\ cursor' = committed
  /\ UNCHANGED <<id, kafka, committed, top, flaws>>

Next ==
  \/ \E c \in Posts :
       \/ Post(c) \/ Claim(c) \/ Ensure(c) \/ MarkQueued(c)
       \/ PublishRequest(c) \/ Announce(c)
       \/ WorkerEvent(c) \/ Redeliver(c)
       \/ Consume(c) \/ AutoCommit(c) \/ Rewind(c)
  \/ \E d \in Deletes : CancelGet(d) \/ CancelUpdate(d) \/ CancelPublish(d)
  \/ \E g \in Gets : GetJob(g) \/ ReadAll(g) \/ Recreate(g) \/ ApplyNext(g)
  \/ Restart

Spec == Init /\ [][Next]_vars

-----------------------------------------------------------------------------
(* Properties. *)

Events == [type : Types, seq : Nat]
PostPlaces == {"new", "claim", "ensure", "queue", "request", "announce",
               "answered", "failed"}
DeletePlaces == {"idle", "update", "publish", "done"}
GetPlaces == {"idle", "read", "ensure", "apply", "done"}

\* Every variable keeps its type.
TypeOK ==
  /\ idem \in Posts \cup {None}
  /\ at \in [Posts -> PostPlaces]
  /\ id \in [Posts -> Posts]
  /\ requests \in [Posts -> Nat]
  /\ events \in [Posts -> Seq(Events)]
  /\ worker \in [Posts -> [last : Types \cup {"none"}, seq : Nat]]
  /\ cursor \in [Posts -> Nat] /\ committed \in [Posts -> Nat]
  /\ store \in [Posts -> [status : Statuses, seq : Nat]]
  /\ delete \in [Deletes -> [at : DeletePlaces, id : Posts \cup {None}, seq : Nat]]
  /\ get \in [Gets -> [at : GetPlaces, id : Posts \cup {None}, len : Nat, next : Nat]]
  /\ top \in [Posts -> Nat]
  /\ flaws \in [Posts -> SUBSET {"gap", "overtaken", "unlogged"}]
  /\ faults \in 0 .. MaxFaults

\* The status a log of events ends with.
LoggedStatus(log) ==
  LET S == {i \in DOMAIN log : SetsStatus(log[i])} IN
  IF S = {} THEN "queued" ELSE StatusOf[log[Max(S)].type]

LoggedSequence(log) == Max({log[i].seq : i \in DOMAIN log} \cup {0})

\* The consumer has read all of a job's events, and no handler is between two
\* of its steps on it.
Settled(c) ==
  /\ Known(c)
  /\ cursor[c] = Len(events[c])
  /\ \A p \in Posts : id[p] = c => at[p] \notin {"ensure", "queue", "request", "announce"}
  /\ \A d \in Deletes : delete[d].id = c => delete[d].at \notin {"update", "publish"}
  /\ \A g \in Gets : get[g].id = c => get[g].at \notin {"read", "ensure", "apply"}

\* When everything has come to rest, a job has the status its log ends with,
\* through retries, redeliveries, rewound consumers, restarts and recoveries,
\* but for three known cases: a recovery that left a gap, one that overtook
\* the consumer with older events, and a DELETE whose event was not stored.
SettledStatusIsLogged ==
  \A c \in Posts : Settled(c) /\ flaws[c] = {} => store[c].status = LoggedStatus(events[c])

\* And its sequence is the highest in the log: only a gap costs it that.
SettledSequenceIsLogged ==
  \A c \in Posts : Settled(c) /\ "gap" \notin flaws[c] =>
    store[c].seq = LoggedSequence(events[c])

\* What consumer.go says of Apply, that it is monotonic: a job once completed,
\* failed or cancelled is not queued or running again.
TerminalIsFinal ==
  [][\A c \in Posts : Terminal(store[c].status) => Terminal(store'[c].status) \/ ~Known(c)']_store
=============================================================================
