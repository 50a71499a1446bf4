------------------------------- MODULE Direct --------------------------------
(***************************************************************************)
(* A request served directly: the provider's goroutine (Complete of the    *)
(* OpenAI-compatible client or of the Ollama client) translates what the   *)
(* upstream server answers and sends it to a channel, and the handler      *)
(* (streamDirect, or completeDirectJSON for a request without "stream")    *)
(* ranges over it.  A DELETE may cancel the job beside them.               *)
(*                                                                         *)
(* Of a line or a chunk the model keeps which choices carry a piece of     *)
(* text and the finish reason.  <<i, k>> is the piece of text of choice k  *)
(* in the i-th line of the upstream server.                                *)
(***************************************************************************)
EXTENDS Integers, Sequences

CONSTANTS
  Providers,   \* of {"openai", "ollama"}
  Buffer,      \* capacity of the channel
  MaxLines     \* bound: lines the upstream server sends

ASSUME DirectAssumption ==
  /\ Providers \subseteq {"openai", "ollama"}
  /\ Buffer \in Nat \ {0}
  /\ MaxLines \in Nat \ {0}

VARIABLES
  provider,   \* which client serves the request
  sse,        \* the request has "stream": true
  upstream,   \* the upstream server: lines sent, and how it ended
  prov,       \* the provider's goroutine: [at, out, then]
  events,     \* the channel
  closed,     \* and whether it is closed
  done,       \* the error channel: none, ok or err
  handler,    \* range, result or ended
  written,    \* chunks the handler has written, or absorbed
  acc,        \* completionAcc of completeDirectJSON
  aggregates, \* history: what the worker and the gateway would make of written
  answer,     \* its answer
  status,     \* the job in the store
  connected,  \* the client is there
  delete      \* the handler of DELETE, and then its event

request == <<provider, sse>>
channel == <<events, closed, done>>
client == <<written, acc, aggregates, answer, connected>>
vars == <<request, upstream, prov, channel, handler, client, status, delete>>

\* Chunks, and the events that are not chunks.
Event(type) == [type |-> type, form |-> "delta", texts |-> 0, reason |-> "none", line |-> 0]
Done == Event("done")
Error == Event("error")
Delta(line, texts, reason) ==
  [type |-> "raw", form |-> "delta", texts |-> texts, reason |-> reason, line |-> line]

\* The goroutine has events to send, and then reads on or returns: with nil,
\* with an error, or with an error and the channel left open.
Emit(out, then) == prov' = [at |-> "sending", out |-> out, then |-> then]

NoAnswer == [content |-> <<>>, finish |-> "none"]

Init ==
  /\ provider \in Providers
  /\ sse \in BOOLEAN
  /\ upstream = [sent |-> <<>>, end |-> "open"]
  /\ prov = [at |-> "request", out |-> <<>>, then |-> "read"]
  /\ events = <<>> /\ closed = FALSE /\ done = "none"
  /\ handler = "range"
  /\ written = <<>> /\ acc = NoAnswer /\ answer = NoAnswer
  /\ aggregates = [worker |-> NoAnswer, gateway |-> NoAnswer]
  /\ connected = TRUE
  /\ status = "running"
  /\ delete = "idle"

-----------------------------------------------------------------------------
(* The provider. *)

\* Mutant of Refuse: Complete returns an error and closes nothing.
RefuseSilently == Emit(<<>>, "open")

\* No response: the request cannot be built or sent.  Ollama's client returns
\* without an event and without closing the channel.
Refuse == IF provider = "openai" THEN Emit(<<Error>>, "err") ELSE Emit(<<>>, "open")

Request ==
  /\ prov.at = "request"
  /\ \/ prov' = [prov EXCEPT !.at = "reading"]
     \/ Refuse
     \/ Emit(<<Error>>, "err")     \* a status that is not 2xx
  /\ UNCHANGED <<request, upstream, channel, handler, client, status, delete>>

\* What a line may say.  Ollama answers with one choice, and gives a reason only
\* in the line that says that it is done.
Lines ==
  IF provider = "openai" THEN [texts : 0 .. 2, reason : {"none", "length"}]
  ELSE [texts : 0 .. 1, reason : {"none"}]
LastLines == [texts : 0 .. 1, reason : {"none", "length"}]

OrStop(reason) == IF reason = "none" THEN "stop" ELSE reason

Says(line) == upstream' = [upstream EXCEPT !.sent = Append(@, line)]
Ends(end) == upstream' = [upstream EXCEPT !.end = end]

\* Mutant of Translated: the role is announced in place of the first text.
TranslatedLate(line) ==
  LET i == Len(upstream.sent) + 1 IN
  IF provider = "openai" THEN <<Delta(i, line.texts, line.reason)>>
  ELSE IF i = 1 THEN <<Delta(1, 0, "none")>>
  ELSE IF line.texts = 0 THEN <<>> ELSE <<Delta(i, line.texts, "none")>>

\* A line of a streamed response as chunks.  The OpenAI-compatible client passes
\* it on as it is; Ollama's announces the role first and leaves out empty texts.
Translated(line) ==
  LET i == Len(upstream.sent) + 1 IN
  IF provider = "openai" THEN <<Delta(i, line.texts, line.reason)>>
  ELSE (IF i = 1 THEN <<Delta(1, 0, "none")>> ELSE <<>>)
         \o (IF line.texts = 0 THEN <<>> ELSE <<Delta(i, line.texts, "none")>>)

\* The upstream server closes the stream without saying that it is done.  The
\* OpenAI-compatible client returns nil without a done event, or an error when
\* its idle timer has fired some time before; Ollama's client sends done.
EndOfFile ==
  IF provider = "openai" THEN Emit(<<>>, "ok") \/ Emit(<<Error>>, "err")
  ELSE Emit(<<Done>>, "ok")

\* The end the upstream server announces: [DONE], or Ollama's last line, which
\* may carry text.
Finish ==
  IF provider = "openai" THEN Ends("done") /\ Emit(<<Done>>, "ok")
  ELSE \E line \in LastLines :
         /\ upstream' = [sent |-> Append(upstream.sent, line), end |-> "done"]
         /\ Emit(Translated(line)
                   \o <<Delta(Len(upstream.sent) + 1, 0, OrStop(line.reason)), Done>>, "ok")

\* One line of a streamed response.
ReadStream ==
  /\ prov.at = "reading" /\ sse
  /\ \/ /\ Len(upstream.sent) < MaxLines - 1
        /\ \E line \in Lines : Says(line) /\ Emit(Translated(line), "read")
     \/ Finish
     \/ Ends("eof") /\ EndOfFile
     \/ Ends("broken") /\ Emit(<<Error>>, "err")
  /\ UNCHANGED <<request, channel, handler, client, status, delete>>

\* A response that is not streamed as chunks: text and finish reason of the
\* first choice, or Ollama's answer as one message.
Whole(line) ==
  IF provider = "openai"
  THEN (IF line.texts = 0 THEN <<>> ELSE <<Delta(1, 1, "none")>>)
         \o <<Delta(1, 0, OrStop(line.reason))>>
  ELSE <<[Delta(1, line.texts, OrStop(line.reason)) EXCEPT !.form = "message"]>>

\* The whole of a response that is not streamed, or one that does not decode.
ReadWhole ==
  /\ prov.at = "reading" /\ ~sse
  /\ \/ \E line \in Lines \cup LastLines :
          /\ upstream' = [sent |-> <<line>>, end |-> "done"]
          /\ Emit(Append(Whole(line), Done), "ok")
     \/ Ends("broken") /\ Emit(<<Error>>, "err")
  /\ UNCHANGED <<request, channel, handler, client, status, delete>>

\* Mutant of Expire: reading has no time limit.
ExpireNever == FALSE /\ UNCHANGED vars

\* The generation timeout, or the end of the request's context when the
\* client or the handler has gone, breaks the read.
Expire ==
  /\ prov.at = "reading"
  /\ Ends("broken")
  /\ Emit(<<Error>>, "err")
  /\ UNCHANGED <<request, channel, handler, client, status, delete>>

\* A send blocks while the channel is full, whatever the context.
Send ==
  /\ prov.at = "sending" /\ prov.out # <<>>
  /\ Len(events) < Buffer
  /\ events' = Append(events, Head(prov.out))
  /\ prov' = [prov EXCEPT !.out = Tail(@)]
  /\ UNCHANGED <<request, upstream, closed, done, handler, client, status, delete>>

Return ==
  /\ prov.at = "sending" /\ prov.out = <<>>
  /\ IF prov.then = "read"
     THEN prov' = [prov EXCEPT !.at = "reading"] /\ UNCHANGED <<closed, done>>
     ELSE /\ prov' = [prov EXCEPT !.at = "returned"]
          /\ closed' = (prov.then # "open")
          /\ done' = IF prov.then = "ok" THEN "ok" ELSE "err"
  /\ UNCHANGED <<request, upstream, events, handler, client, status, delete>>

ProviderStep == Request \/ ReadStream \/ ReadWhole \/ Expire \/ Send \/ Return

-----------------------------------------------------------------------------
(* The handler. *)

\* Mutant of OnError: the job is left as it is.
OnErrorForgets == handler' = "ended" /\ UNCHANGED <<written, status>>

\* Mutant of OnError: the job is given the event's type for a status.
OnErrorCopies == handler' = "ended" /\ status' = "error" /\ UNCHANGED written

OnError == handler' = "ended" /\ status' = "failed" /\ UNCHANGED written

\* Mutant of StreamEvent: every chunk says that the job is running.
StreamEventRuns(e) ==
  CASE e.type = "raw"   -> \/ written' = Append(written, e) /\ status' = "running" /\ UNCHANGED handler
                           \/ ~connected /\ handler' = "ended" /\ UNCHANGED <<written, status>>
    [] e.type = "done"  -> handler' = "ended" /\ status' = "completed" /\ UNCHANGED written
    [] e.type = "error" -> OnError

\* streamDirect: a chunk is written, and a failed write ends the handler; a
\* done or error event settles the job and ends the stream.
StreamEvent(e) ==
  CASE e.type = "raw"   -> \/ written' = Append(written, e) /\ UNCHANGED <<handler, status>>
                           \/ ~connected /\ handler' = "ended" /\ UNCHANGED <<written, status>>
    [] e.type = "done"  -> handler' = "ended" /\ status' = "completed" /\ UNCHANGED written
    [] e.type = "error" -> OnError

\* Mutant of absorb: deltas only, as the worker has it.
absorbDeltas(a, c) ==
  [content |-> IF c.texts > 0 /\ c.form = "delta" THEN Append(a.content, <<c.line, 1>>)
               ELSE a.content,
   finish |-> IF c.reason = "none" THEN a.finish ELSE c.reason]

\* completionAcc: the text of the first choice, the last finish reason.
absorb(a, c) ==
  [content |-> IF c.texts > 0 THEN Append(a.content, <<c.line, 1>>) ELSE a.content,
   finish |-> IF c.reason = "none" THEN a.finish ELSE c.reason]

\* The pieces of text of the i-th line.
Pieces(i, texts) == [k \in 1 .. texts |-> <<i, k>>]

\* Mutant of workerAbsorb: a chunk without a finish reason clears it.
workerAbsorbClears(a, c) ==
  [content |-> IF c.form = "delta" THEN a.content \o Pieces(c.line, c.texts) ELSE a.content,
   finish |-> c.reason]

\* The worker's aggregate of the same stream (streamAggregation.absorb): the
\* texts of all choices, of deltas only, and the last finish reason.
workerAbsorb(a, c) ==
  [content |-> IF c.form = "delta" THEN a.content \o Pieces(c.line, c.texts) ELSE a.content,
   finish |-> IF c.reason = "none" THEN a.finish ELSE c.reason]

\* completeDirectJSON: chunks are absorbed, the rest is passed over.
JSONEvent(e) ==
  /\ IF e.type = "raw"
     THEN written' = Append(written, e) /\ acc' = absorb(acc, e)
     ELSE UNCHANGED <<written, acc>>
  /\ UNCHANGED <<handler, status>>

Take ==
  /\ handler = "range" /\ events # <<>>
  /\ events' = Tail(events)
  /\ IF sse THEN StreamEvent(Head(events)) /\ UNCHANGED acc ELSE JSONEvent(Head(events))
  /\ aggregates' = IF written' = written THEN aggregates ELSE
                     [worker |-> workerAbsorb(aggregates.worker, Head(events)),
                      gateway |-> absorb(aggregates.gateway, Head(events))]
  /\ UNCHANGED <<request, upstream, prov, closed, done, answer, connected, delete>>

\* The channel is closed and read to its end.
RangeEnds ==
  /\ handler = "range" /\ events = <<>> /\ closed
  /\ handler' = "result"
  /\ UNCHANGED <<request, upstream, prov, channel, client, status, delete>>

\* What Complete returned settles the job of completeDirectJSON; streamDirect
\* only logs it.
Result ==
  /\ handler = "result" /\ done # "none"
  /\ handler' = "ended"
  /\ CASE sse -> UNCHANGED <<status, answer>>
       [] ~sse /\ done = "ok" ->
            /\ status' = "completed"
            /\ answer' = [acc EXCEPT !.finish = OrStop(@)]
       [] ~sse /\ done = "err" -> status' = "failed" /\ UNCHANGED answer
  /\ UNCHANGED <<request, upstream, prov, channel, written, acc, aggregates, connected, delete>>

HandlerStep == Take \/ RangeEnds \/ Result

\* The client goes away.
Disconnect ==
  /\ connected /\ handler # "ended"
  /\ connected' = FALSE
  /\ UNCHANGED <<request, upstream, prov, channel, handler, written, acc, aggregates, answer, status,
                 delete>>

-----------------------------------------------------------------------------
(* DELETE of the job, which stops neither goroutine. *)

\* The handler looks the job up and refuses one that has ended.
CancelGet ==
  /\ delete = "idle"
  /\ delete' = IF status = "running" THEN "update" ELSE "over"
  /\ UNCHANGED <<request, upstream, prov, channel, handler, client, status>>

CancelUpdate ==
  /\ delete = "update"
  /\ delete' = "publish" /\ status' = "cancelled"
  /\ UNCHANGED <<request, upstream, prov, channel, handler, client>>

\* The cancelled event is stored or not; the handler does not ask which.
CancelPublish ==
  /\ delete = "publish"
  /\ delete' \in {"logged", "over"}
  /\ UNCHANGED <<request, upstream, prov, channel, handler, client, status>>

\* The gateway's own consumer applies it, whatever has become of the job.
ApplyCancelled ==
  /\ delete = "logged"
  /\ delete' = "applied" /\ status' = "cancelled"
  /\ UNCHANGED <<request, upstream, prov, channel, handler, client>>

DeleteStep == CancelGet \/ CancelUpdate \/ CancelPublish \/ ApplyCancelled

Next == ProviderStep \/ HandlerStep \/ Disconnect \/ DeleteStep

\* Go runs both goroutines, and the generation timeout ends a request or a read
\* that hangs; the upstream server need not send anything.
Fairness ==
  /\ WF_vars(Request) /\ WF_vars(Expire) /\ WF_vars(Send \/ Return)
  /\ WF_vars(HandlerStep)

Spec == Init /\ [][Next]_vars
FairSpec == Spec /\ Fairness

-----------------------------------------------------------------------------
(* Properties. *)

Reasons == {"none", "length", "stop"}
LineType == [texts : 0 .. 2, reason : {"none", "length"}]
Events == [type : {"raw", "done", "error"}, form : {"delta", "message"}, texts : 0 .. 2,
           reason : Reasons, line : Nat]
Tokens == Nat \X {1, 2}
Goroutines == [at : {"request", "reading", "sending", "returned"}, out : Seq(Events),
               then : {"read", "ok", "err", "open"}]
Answers == [content : Seq(Tokens), finish : Reasons]

\* Every variable keeps its type, and the channel holds no more than its buffer.
TypeOK ==
  /\ provider \in Providers /\ sse \in BOOLEAN
  /\ upstream \in [sent : Seq(LineType),
                   end : {"open", "done", "eof", "broken"}]
  /\ prov \in Goroutines
  /\ events \in Seq(Events) /\ Len(events) <= Buffer
  /\ closed \in BOOLEAN
  /\ done \in {"none", "ok", "err"}
  /\ handler \in {"range", "result", "ended"}
  /\ written \in Seq(Events)
  /\ acc \in Answers /\ answer \in Answers
  /\ aggregates \in [worker : Answers, gateway : Answers]
  /\ status \in {"running", "completed", "failed", "cancelled"}
  /\ connected \in BOOLEAN
  /\ delete \in {"idle", "update", "publish", "logged", "applied", "over"}

\* Chunks say what lines say: every line with text is in one chunk, which has all
\* of its text, the chunks are in the order of the lines, and they have no text of
\* their own.
Transcribes(chunks, lines) ==
  /\ \A k \in DOMAIN chunks : chunks[k].texts > 0 =>
       /\ chunks[k].line \in DOMAIN lines
       /\ chunks[k].texts = lines[chunks[k].line].texts
       /\ \A j \in 1 .. k - 1 : chunks[j].texts > 0 => chunks[j].line < chunks[k].line
  /\ \A i \in DOMAIN lines : lines[i].texts > 0 =>
       \E k \in DOMAIN chunks : chunks[k].line = i /\ chunks[k].texts > 0

\* The upstream server has said that it was done, or has closed the stream of
\* Ollama.
Announced == upstream.end = "done" \/ (upstream.end = "eof" /\ provider = "ollama")

\* A completed stream is a whole one, also when a DELETE comes in between: the
\* upstream server has come to its end, and the client has every piece of text
\* once and in its place.
CompletedIsWhole ==
  status = "completed" /\ sse => Announced /\ Transcribes(written, upstream.sent)

\* What a response in one piece says: the text of its first choice, and the
\* reason it gave for its end, or "stop" when it gave none.
Meant(line) ==
  [content |-> IF line.texts > 0 THEN <<<<1, 1>>>> ELSE <<>>, finish |-> OrStop(line.reason)]

\* An answer in one piece is that of the upstream server.
AnswerIsWhole ==
  answer # NoAnswer =>
    upstream.end = "done" /\ \E line \in LineType : upstream.sent = <<line>> /\ answer = Meant(line)

\* When a handler ends with its client still there, the job is settled, but for
\* a stream that an OpenAI-compatible server closed without [DONE] and that
\* nobody has deleted.
EndedIsSettled ==
  handler = "ended" /\ connected =>
    \/ status # "running"
    \/ upstream.end = "eof" /\ provider = "openai" /\ delete \in {"idle", "update"}

\* A job that a DELETE has cancelled is not running again: it stays cancelled, or
\* the end of its handler says how it went.
CancelledIsSettled ==
  [][status = "cancelled" =>
       status' = "cancelled" \/ (handler' = "ended" /\ status' # "running")]_vars

\* Both routes make the same answer of a stream that has one choice: what the
\* gateway would absorb of it is what the worker's completed event says.
RoutesAgree ==
  sse /\ (\A i \in DOMAIN written : written[i].texts < 2) =>
    aggregates.worker = aggregates.gateway

\* Every handler ends, also without its client, but for Ollama's open channel.
HandlerEnds ==
  handler = "range" ~> (handler = "ended" \/ (provider = "ollama" /\ prov.then = "open"))

\* Every provider returns, but for one that sends to a full channel nobody
\* reads any more.
ProviderReturns ==
  prov.at = "reading" ~>
    (prov.at = "returned" \/ (handler = "ended" /\ Len(events) = Buffer))
=============================================================================
