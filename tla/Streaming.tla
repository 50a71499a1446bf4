------------------------------ MODULE Streaming ------------------------------
(***************************************************************************)
(* How the events of one job reach the HTTP connections that wait for it:  *)
(* the consumer of llm.events and the dispatcher (internal/streaming), the *)
(* SSE stream with its replay (streamJobWith, replayFrom) and the          *)
(* non-streaming wait (completeJobJSON).                                   *)
(*                                                                         *)
(* All connections are POSTs with one Idempotency-Key: the first one       *)
(* enqueues the job, the others join it.  The streams are opened one after *)
(* another by one client, which reconnects with the id of the last event   *)
(* it has seen; the handler of a broken connection may go on for a while.  *)
(* An event is named by its position in the log of the job.                *)
(***************************************************************************)
EXTENDS Integers, Sequences, SequencesExt, FiniteSets, JobEvents

CONSTANTS
  Streams,     \* connections with "stream": true, of one client
  Waiters,     \* connections without
  None,        \* no connection
  Buffer,      \* STREAM_BUFFER: events the dispatcher keeps for a stream
  MaxEvents,   \* bound: a worker adds no event to a log of this length
  MaxFaults    \* bound: failed publishes, redeliveries, rewinds, short reads,
               \* heartbeats, waiters that give up

ASSUME StreamingAssumption ==
  /\ Streams \cap Waiters = {} /\ None \notin Streams \cup Waiters
  /\ Buffer \in Nat \ {0}
  /\ MaxEvents \in Nat /\ MaxFaults \in Nat

Conns == Streams \cup Waiters

VARIABLES
  claimed,     \* the key is set: the first connection is there
  requested,   \* llm.requests has the record of the job
  log,         \* llm.events: the events of the job
  worker,      \* what the worker does: [last event, its number]
  status,      \* MemoryStore: the status of the job
  applied,     \* events the gateway's consumer has applied to the store
  dispatched,  \* events it has dispatched
  current,     \* Dispatcher.streams: the registered connection, or None
  conn,        \* connection -> [at, ch, lastSent, todo]
  listening,   \* the stream the client reads, or None
  seen,        \* what the client has seen, over all its streams
  flaws,       \* history: what may cost a client events
  faults       \* faults so far

job == <<claimed, requested, worker>>
consumer == <<status, applied, dispatched>>
client == <<listening, seen>>
vars == <<job, log, consumer, current, conn, client, flaws, faults>>

Fault == faults < MaxFaults /\ faults' = faults + 1
Flaw(flaw) == flaws' = flaws \cup flaw

Publish(out) == IF out.ok THEN UNCHANGED faults ELSE Fault

NoConn == [at |-> "none", ch |-> <<>>, lastSent |-> 0, todo |-> {}]

Init ==
  /\ claimed = FALSE
  /\ requested = FALSE
  /\ log = <<>>
  /\ worker = [last |-> "none", seq |-> 0]
  /\ status = "none"
  /\ applied = 0
  /\ dispatched = 0
  /\ current = None
  /\ conn = [c \in Conns |-> NoConn]
  /\ listening = None
  /\ seen = <<>>
  /\ flaws = {}
  /\ faults = 0

-----------------------------------------------------------------------------
(* The worker, as the log shows it. *)

WorkerEvent ==
  /\ requested
  /\ Len(log) < MaxEvents
  /\ \E type \in Follows(worker.last) :
       /\ IF worker.last = "completed" THEN Fault ELSE UNCHANGED faults
       /\ log' = Append(log, [type |-> type, seq |-> worker.seq + 1])
       /\ worker' = [last |-> type, seq |-> worker.seq + 1]
  /\ UNCHANGED <<claimed, requested, consumer, current, conn, client, flaws>>

\* A heartbeat has the number of the event after it.
Heartbeat ==
  /\ worker.last \in {"started", "raw_sse"}
  /\ Len(log) < MaxEvents
  /\ Fault
  /\ log' = Append(log, [type |-> "heartbeat", seq |-> worker.seq + 1])
  /\ Flaw({"heartbeat"})
  /\ UNCHANGED <<job, consumer, current, conn, client>>

\* The record of llm.requests is delivered again, and numbered from 1 again.
Redeliver ==
  /\ worker.seq > 0
  /\ Fault
  /\ worker' = [last |-> "none", seq |-> 0]
  /\ Flaw({"redelivery"})
  /\ UNCHANGED <<claimed, requested, log, consumer, current, conn, client>>

-----------------------------------------------------------------------------
(* RunEventConsumer and the dispatcher. *)

\* Apply, which does nothing before the job exists.
ApplyEvent ==
  LET e == log[applied + 1] IN
  /\ applied < Len(log) /\ applied <= dispatched
  /\ status' = IF status # "none" /\ SetsStatus(e) THEN StatusOf[e.type] ELSE status
  /\ applied' = applied + 1
  /\ UNCHANGED <<job, log, dispatched, current, conn, client, flaws, faults>>

\* Mutant of Hand: a channel takes more than its buffer.
HandAlways(i) ==
  IF current = None THEN UNCHANGED <<conn, flaws>>
  ELSE conn' = [conn EXCEPT ![current].ch = Append(@, i)] /\ UNCHANGED flaws

\* Dispatch: an event for a full channel, or for nobody, is dropped.  What a
\* broken stream gets nobody reads.
Hand(i) ==
  IF current = None THEN UNCHANGED <<conn, flaws>>
  ELSE IF conn[current].at = "broken" THEN UNCHANGED <<conn, flaws>>
  ELSE IF Len(conn[current].ch) < Buffer
       THEN conn' = [conn EXCEPT ![current].ch = Append(@, i)] /\ UNCHANGED flaws
       ELSE Flaw({"overflow"}) /\ UNCHANGED conn

\* Mutant of DispatchEvent: an event is dispatched before it is applied.
DispatchUnapplied ==
  /\ applied = dispatched /\ dispatched < Len(log)
  /\ Hand(dispatched + 1)
  /\ dispatched' = dispatched + 1
  /\ UNCHANGED <<job, log, status, applied, current, client, faults>>

DispatchEvent ==
  /\ applied > dispatched
  /\ Hand(dispatched + 1)
  /\ dispatched' = dispatched + 1
  /\ UNCHANGED <<job, log, status, applied, current, client, faults>>

\* The consumer's session ends, and the next one starts at an earlier event.
Rewind ==
  /\ applied = dispatched
  /\ Fault
  /\ \E o \in 0 .. dispatched - 1 : dispatched' = o /\ applied' = o
  /\ UNCHANGED <<job, log, status, current, conn, client, flaws>>

\* Unregister removes the connection that is registered, whoever calls it.
Unregister == current' = None

-----------------------------------------------------------------------------
(* The handler of a connection. *)

\* Where a handler goes on when the job is enqueued: a stream with a
\* Last-Event-ID to its replay, one without to its channel.
Begin(c) ==
  IF c \in Waiters THEN "check"
  ELSE IF conn[c].at # "none" /\ listening # c THEN "broken"
  ELSE IF seen # <<>> THEN "replay" ELSE "live"

\* The number in the Last-Event-ID of a stream, 0 without one.
LastEventID(c) == IF c \in Streams /\ seen # <<>> THEN log[Last(seen)].seq ELSE 0

\* A POST registers before anything else.  A stream that joins a job without
\* a Last-Event-ID gets nothing of what was dispatched before.
Enter(c) ==
  /\ conn[c].at = "none"
  /\ c \in Streams => listening = None
  /\ listening' = IF c \in Streams THEN c ELSE listening
  /\ claimed' = TRUE
  /\ current' = c
  /\ conn' = [conn EXCEPT ![c].at = IF claimed THEN Begin(c) ELSE "enqueue",
                          ![c].lastSent = LastEventID(c)]
  /\ Flaw(IF claimed /\ Begin(c) = "live" /\ dispatched > 0 THEN {"late"} ELSE {})
  /\ UNCHANGED <<requested, log, worker, consumer, seen, faults>>

\* enqueue: the job, then its record.  A failure is the client's 503; the job
\* and the key stay.
Enqueue(c) ==
  /\ conn[c].at = "enqueue"
  /\ status' = "queued"
  /\ \E out \in Outcomes :
       /\ Publish(out)
       /\ requested' = out.stored
       /\ conn' = [conn EXCEPT ![c].at = IF out.ok THEN "announce" ELSE "gone"]
       /\ IF out.ok THEN UNCHANGED <<current, listening>>
          ELSE Unregister /\ listening' = IF listening = c THEN None ELSE listening
  /\ UNCHANGED <<claimed, log, worker, applied, dispatched, seen, flaws>>

\* enqueue: the queued event, numbered 0.  Its failure is ignored.
Announce(c) ==
  /\ conn[c].at = "announce"
  /\ \E out \in Outcomes :
       /\ Publish(out)
       /\ log' = IF out.stored THEN Append(log, [type |-> "queued", seq |-> 0]) ELSE log
  /\ conn' = [conn EXCEPT ![c].at = Begin(c)]
  /\ UNCHANGED <<job, consumer, current, client, flaws>>

\* Mutant of Missing: off by one.
MissingOffByOne(n, after) == {i \in 1 .. n : log[i].seq > after + 1}

\* replayFrom: of n events read those the client has not seen.
Missing(n, after) == {i \in 1 .. n : log[i].seq > after}

\* ReadAll returns the log up to its end, or less when Kafka is slow or down.
Replay(c) ==
  /\ conn[c].at = "replay"
  /\ \E n \in 0 .. Len(log) :
       /\ IF n = Len(log) THEN UNCHANGED <<flaws, faults>> ELSE Fault /\ Flaw({"short"})
       /\ conn' = [conn EXCEPT ![c].at = "writing", ![c].todo = Missing(n, conn[c].lastSent)]
  /\ UNCHANGED <<job, log, consumer, current, client>>

\* The next event is written; a terminal one ends the stream.
Finish(c) ==
  /\ conn' = [conn EXCEPT ![c] = [NoConn EXCEPT !.at = "done"]]
  /\ Unregister

\* The loop of replayFrom, in the order of the log.
WriteMissing(c) ==
  /\ conn[c].at = "writing"
  /\ \E i \in conn[c].todo :
       /\ \A k \in conn[c].todo : i <= k
       /\ seen' = Append(seen, i)
       /\ IF TerminalType(log[i].type) THEN Finish(c)
          ELSE /\ conn' = [conn EXCEPT ![c].todo = @ \ {i},
                             ![c].lastSent = IF log[i].seq > @ THEN log[i].seq ELSE @]
               /\ UNCHANGED current
  /\ UNCHANGED <<job, log, consumer, listening, flaws, faults>>

\* The replay ends without a terminal event.
GoLive(c) ==
  /\ conn[c].at = "writing" /\ conn[c].todo = {}
  /\ conn' = [conn EXCEPT ![c].at = "live"]
  /\ UNCHANGED <<job, log, consumer, current, client, flaws, faults>>

\* Mutant of Fresh: events are written as they come.
FreshAlways(c, i) == i > 0

\* An event with a number the stream has passed is taken for a repeated one.
Fresh(c, i) == log[i].seq > conn[c].lastSent

\* The loop of streamJobWith.
Deliver(c) ==
  LET i == Head(conn[c].ch) IN
  /\ conn[c].at = "live" /\ conn[c].ch # <<>>
  /\ IF ~Fresh(c, i)
     THEN conn' = [conn EXCEPT ![c].ch = Tail(@)] /\ UNCHANGED <<current, seen>>
     ELSE /\ seen' = Append(seen, i)
          /\ IF TerminalType(log[i].type) THEN Finish(c)
             ELSE /\ conn' = [conn EXCEPT ![c].ch = Tail(@), ![c].lastSent = log[i].seq]
                  /\ UNCHANGED current
  /\ UNCHANGED <<job, log, consumer, listening, flaws, faults>>

\* completeJobJSON: a job that is finished in the store is answered at once.
Check(c) ==
  /\ conn[c].at = "check"
  /\ IF Terminal(status) THEN Finish(c)
     ELSE conn' = [conn EXCEPT ![c].at = "wait"] /\ UNCHANGED current
  /\ UNCHANGED <<job, log, consumer, client, flaws, faults>>

\* completeJobJSON: everything but a terminal event is skipped.
Await(c) ==
  /\ conn[c].at = "wait" /\ conn[c].ch # <<>>
  /\ IF TerminalType(log[Head(conn[c].ch)].type) THEN Finish(c)
     ELSE conn' = [conn EXCEPT ![c].ch = Tail(@)] /\ UNCHANGED current
  /\ UNCHANGED <<job, log, consumer, client, flaws, faults>>

\* The client's connection breaks.  Its handler goes on, and what it writes is
\* lost.
Lose ==
  LET c == listening IN
  /\ c # None
  /\ conn[c].at # "done"
  /\ listening' = None
  /\ conn' = IF conn[c].at \in {"enqueue", "announce"} THEN conn
             ELSE [conn EXCEPT ![c] = [NoConn EXCEPT !.at = "broken"]]
  /\ UNCHANGED <<job, log, consumer, current, seen, flaws, faults>>

\* The handler of a broken stream notices, sooner or later, by a failed write
\* or the context, or comes to the end of the stream.
Notice(c) ==
  /\ conn[c].at = "broken"
  /\ conn' = [conn EXCEPT ![c] = [NoConn EXCEPT !.at = "gone"]]
  /\ Unregister
  /\ UNCHANGED <<job, log, consumer, client, flaws, faults>>

\* The client of a waiter gives up.
GiveUp(c) ==
  /\ conn[c].at = "wait"
  /\ Fault
  /\ conn' = [conn EXCEPT ![c] = [NoConn EXCEPT !.at = "gone"]]
  /\ Unregister
  /\ UNCHANGED <<job, log, consumer, client, flaws>>

HandlerStep(c) ==
  Enqueue(c) \/ Announce(c) \/ Replay(c) \/ WriteMissing(c) \/ GoLive(c)
    \/ Deliver(c) \/ Check(c) \/ Await(c)

Next ==
  \/ WorkerEvent \/ Heartbeat \/ Redeliver
  \/ ApplyEvent \/ DispatchEvent \/ Rewind
  \/ \E c \in Conns : Enter(c) \/ HandlerStep(c) \/ Notice(c) \/ GiveUp(c)
  \/ Lose

Spec == Init /\ [][Next]_vars

-----------------------------------------------------------------------------
(* Properties. *)

ConnType == [at : {"none", "enqueue", "announce", "replay", "writing", "live",
                   "check", "wait", "done", "broken", "gone"},
             ch : Seq(Nat), lastSent : Nat, todo : SUBSET Nat]

\* Every variable keeps its type, and no channel holds more than its buffer.
TypeOK ==
  /\ claimed \in BOOLEAN /\ requested \in BOOLEAN
  /\ log \in Seq([type : Types, seq : Nat])
  /\ worker \in [last : Types \cup {"none"}, seq : Nat]
  /\ status \in Statuses
  /\ applied \in 0 .. Len(log) /\ dispatched \in 0 .. Len(log)
  /\ current \in Conns \cup {None}
  /\ conn \in [Conns -> ConnType]
  /\ \A c \in Conns : Len(conn[c].ch) <= Buffer
  /\ listening \in Streams \cup {None}
  /\ seen \in Seq(Nat)
  /\ flaws \subseteq {"heartbeat", "redelivery", "overflow", "late", "short"}
  /\ faults \in 0 .. MaxFaults

\* What a client has seen, over all its streams, is the beginning of the log
\* (but for the queued event, which has the number 0) with nothing missing,
\* nothing twice and nothing out of order: the replay of a new stream and its
\* channel join without a gap or an overlap, though both fill at the same time
\* and the handler of the old stream may still be running.  But for five known
\* cases: heartbeats, redelivered requests, a full channel, a short read, and a
\* stream without Last-Event-ID that comes late.
SeenWithoutGaps ==
  flaws = {} =>
    /\ \A i, k \in DOMAIN seen : i < k => seen[i] < seen[k]
    /\ \A k \in DOMAIN seen :
         /\ log[seen[k]].seq > 0
         /\ \A i \in 1 .. seen[k] : log[i].seq > 0 => i \in Range(seen)

\* Whatever is lost, what a client sees it sees in the order of the log and
\* once, over all its streams, unless a request was redelivered.
SeenInOrder ==
  "redelivery" \notin flaws => \A i, k \in DOMAIN seen : i < k => seen[i] < seen[k]

\* The wake-up of a waiter is not lost between its registration, its look at
\* the store and its wait: once the job is finished in the store and the
\* consumer has dispatched what it has applied, a waiter that is still waiting,
\* and still registered, has a terminal event in its channel.
WaiterWillWake ==
  \A c \in Waiters :
    conn[c].at = "wait" /\ current = c /\ Terminal(status) /\ applied = dispatched
      /\ "overflow" \notin flaws =>
        \E i \in DOMAIN conn[c].ch : TerminalType(log[conn[c].ch[i]].type)

\* Nor does a stream hang: when the consumer has dispatched the whole log of a
\* job that has ended, a stream that is still running and registered has a
\* terminal event in its channel that it will write, but for the known cases.
StreamWillEnd ==
  \A c \in Streams :
    conn[c].at = "live" /\ current = c /\ flaws = {} /\ dispatched = Len(log)
      /\ (\E i \in DOMAIN log : TerminalType(log[i].type)) =>
        \E i \in DOMAIN conn[c].ch :
          TerminalType(log[conn[c].ch[i]].type) /\ Fresh(c, conn[c].ch[i])
=============================================================================
