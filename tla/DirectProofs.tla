---------------------------- MODULE DirectProofs ----------------------------
(***************************************************************************)
(* A direct request, for every capacity of the channel and every length of *)
(* the answer: the handler settles its job (Settling), both routes would   *)
(* make the same answer of a stream (Alike), a stream whose job is         *)
(* completed is whole (Flowing), and so is an answer in one piece          *)
(* (Collecting).                                                           *)
(***************************************************************************)
EXTENDS Direct, SequenceTheorems, TLAPS

-----------------------------------------------------------------------------
(* Type correctness. *)

LEMMA EventTypes ==
  /\ Done \in Events /\ Error \in Events
  /\ \A i \in Nat, texts \in 0 .. 2, reason \in Reasons : Delta(i, texts, reason) \in Events
BY DEF Done, Error, Event, Delta, Events, Reasons

LEMMA LinesType == Lines \cup LastLines \subseteq LineType
BY DEF Lines, LastLines, LineType

\* What the provider emits are events.
LEMMA TranslatedType ==
  ASSUME TypeOK, NEW line \in LineType
  PROVE  Translated(line) \in Seq(Events)
<1>1. line.texts \in 0 .. 2 /\ line.reason \in Reasons
  BY DEF LineType, Reasons
<1>2. Len(upstream.sent) + 1 \in Nat
  BY DEF TypeOK
<1>3. Delta(1, 0, "none") \in Events
  BY EventTypes DEF Reasons
<1>4. /\ Delta(Len(upstream.sent) + 1, line.texts, line.reason) \in Events
      /\ Delta(Len(upstream.sent) + 1, line.texts, "none") \in Events
  BY <1>1, <1>2, EventTypes DEF Reasons
<1> QED
  BY <1>3, <1>4 DEF Translated

LEMMA WholeType ==
  ASSUME NEW line, line \in Lines \cup LastLines
  PROVE  Whole(line) \in Seq(Events)
<1>1. line.texts \in 0 .. 2 /\ line.reason \in Reasons /\ OrStop(line.reason) \in Reasons
  BY DEF Lines, LastLines, Reasons, OrStop
<1>2. Delta(1, 1, "none") \in Events /\ Delta(1, 0, OrStop(line.reason)) \in Events
  BY <1>1, EventTypes DEF Reasons
<1>3. [Delta(1, line.texts, OrStop(line.reason)) EXCEPT !.form = "message"] \in Events
  BY <1>1 DEF Delta, Events
<1> QED
  BY <1>2, <1>3 DEF Whole

LEMMA BufferType == Buffer \in Nat /\ Buffer > 0
BY DirectAssumption

LEMMA EmitType ==
  ASSUME NEW out \in Seq(Events), NEW then \in {"read", "ok", "err", "open"}, Emit(out, then)
  PROVE  prov' \in Goroutines
BY DEF Emit, Goroutines

LEMMA Outs == <<Done>> \in Seq(Events) /\ <<Error>> \in Seq(Events) /\ <<>> \in Seq(Events)
BY EventTypes

LEMMA PairType ==
  ASSUME NEW S, NEW a \in S, NEW b \in S
  PROVE  <<a, b>> \in Seq(S)
OBVIOUS

LEMMA AbsorbType ==
  ASSUME NEW a \in Answers, NEW c \in Events
  PROVE  absorb(a, c) \in Answers
<1>1. <<c.line, 1>> \in Tokens
  BY DEF Events, Tokens
<1>2. a.content \in Seq(Tokens) /\ Append(a.content, <<c.line, 1>>) \in Seq(Tokens)
  BY <1>1 DEF Answers
<1>3. a.finish \in Reasons /\ c.reason \in Reasons
  BY DEF Answers, Events
<1> QED
  BY <1>2, <1>3 DEF absorb, Answers

LEMMA WorkerAbsorbType ==
  ASSUME NEW a \in Answers, NEW c \in Events
  PROVE  workerAbsorb(a, c) \in Answers
<1>1. c.line \in Nat /\ c.texts \in 0 .. 2 /\ c.reason \in Reasons
  BY DEF Events
<1>2. a.content \in Seq(Tokens) /\ a.finish \in Reasons
  BY DEF Answers
<1>3. ASSUME NEW k \in 1 .. c.texts PROVE <<c.line, k>> \in Tokens
  BY <1>1 DEF Tokens
<1>4. Pieces(c.line, c.texts) \in Seq(Tokens)
  <2>1. Pieces(c.line, c.texts) \in [1 .. c.texts -> Tokens]
    BY <1>3 DEF Pieces
  <2> QED BY <1>1, <2>1
<1>5. a.content \o Pieces(c.line, c.texts) \in Seq(Tokens)
  BY <1>2, <1>4
<1> QED
  BY <1>1, <1>2, <1>5 DEF workerAbsorb, Answers

LEMMA TypeInit == Init => TypeOK
<1>1. NoAnswer \in Answers
  BY DEF NoAnswer, Answers, Reasons
<1>2. ASSUME Init PROVE prov \in Goroutines
  BY <1>2, Outs DEF Init, Goroutines
<1>3. ASSUME Init PROVE upstream \in [sent : Seq(LineType), end : {"open", "done", "eof", "broken"}]
  BY <1>3 DEF Init
<1>4. ASSUME Init PROVE events \in Seq(Events) /\ Len(events) <= Buffer /\ written \in Seq(Events)
  BY <1>4, BufferType DEF Init
<1>5. ASSUME Init PROVE aggregates \in [worker : Answers, gateway : Answers]
  BY <1>1, <1>5 DEF Init
<1> QED
  BY <1>1, <1>2, <1>3, <1>4, <1>5 DEF Init, TypeOK

LEMMA TypeNext == TypeOK /\ [Next]_vars => TypeOK'
<1> SUFFICES ASSUME TypeOK, [Next]_vars PROVE TypeOK'
  OBVIOUS
<1> USE DEF request, channel, client
<1>1. CASE UNCHANGED vars
  BY <1>1 DEF vars, TypeOK
<1>2. CASE Request
  <2>1. prov' \in Goroutines
    BY <1>2, EmitType, Outs DEF Request, Refuse, TypeOK, Goroutines
  <2> QED
    BY <1>2, <2>1 DEF Request, TypeOK
<1>3. CASE ReadStream
  <2> USE <1>3
  <2>0. UNCHANGED <<request, channel, handler, client, status, delete>>
    BY DEF ReadStream
  <2>1. ASSUME NEW line \in Lines, Says(line), Emit(Translated(line), "read") PROVE TypeOK'
    <3>1. Translated(line) \in Seq(Events)
      BY TranslatedType, LinesType
    <3>2. line \in LineType
      BY DEF Lines, LineType
    <3>3. prov' \in Goroutines
      BY <2>1, <3>1, EmitType
    <3>4. upstream' \in [sent : Seq(LineType), end : {"open", "done", "eof", "broken"}]
      <4>1. upstream \in [sent : Seq(LineType), end : {"open", "done", "eof", "broken"}]
        BY DEF TypeOK
      <4>2. Append(upstream.sent, line) \in Seq(LineType)
        BY <4>1, <3>2
      <4> QED
        BY <2>1, <4>1, <4>2 DEF Says
    <3> QED
      BY <2>0, <3>3, <3>4 DEF TypeOK
  <2>2. CASE Finish
    <3>1. CASE provider = "openai"
      <4>1. prov' \in Goroutines
        BY <2>2, <3>1, EmitType, Outs DEF Finish
      <4> QED
        BY <2>0, <2>2, <3>1, <4>1 DEF Finish, Ends, TypeOK
    <3>2. ASSUME NEW line \in LastLines,
                 upstream' = [sent |-> Append(upstream.sent, line), end |-> "done"],
                 Emit(Translated(line)
                   \o <<Delta(Len(upstream.sent) + 1, 0, OrStop(line.reason)), Done>>, "ok")
          PROVE  TypeOK'
      <4>1. Translated(line) \in Seq(Events)
        BY TranslatedType, LinesType
      <4>2. line \in LineType
        BY DEF LastLines, LineType
      <4>3. Delta(Len(upstream.sent) + 1, 0, OrStop(line.reason)) \in Events
        BY <4>2, EventTypes DEF OrStop, Reasons, LineType, TypeOK
      <4>4. <<Delta(Len(upstream.sent) + 1, 0, OrStop(line.reason)), Done>> \in Seq(Events)
        BY <4>3, EventTypes, PairType
      <4>5. prov' \in Goroutines
        <5>1. Translated(line) \o <<Delta(Len(upstream.sent) + 1, 0, OrStop(line.reason)), Done>>
                \in Seq(Events)
          BY <4>1, <4>4
        <5> QED
          BY <3>2, <5>1, EmitType
      <4>6. upstream' \in [sent : Seq(LineType), end : {"open", "done", "eof", "broken"}]
        <5>1. upstream.sent \in Seq(LineType)
          BY DEF TypeOK
        <5>2. Append(upstream.sent, line) \in Seq(LineType)
          BY <5>1, <4>2
        <5> QED
          BY <3>2, <5>2
      <4> QED
        BY <2>0, <4>5, <4>6 DEF TypeOK
    <3> QED
      BY <2>2, <3>1, <3>2 DEF Finish
  <2>3. CASE Ends("eof") /\ EndOfFile
    <3>1. prov' \in Goroutines
      BY <2>3, EmitType, Outs DEF EndOfFile
    <3> QED
      BY <2>0, <2>3, <3>1 DEF Ends, TypeOK
  <2>4. CASE Ends("broken") /\ Emit(<<Error>>, "err")
    <3>1. prov' \in Goroutines
      BY <2>4, EmitType, Outs
    <3> QED
      BY <2>0, <2>4, <3>1 DEF Ends, TypeOK
  <2> QED
    BY <2>1, <2>2, <2>3, <2>4 DEF ReadStream
<1>4. CASE ReadWhole
  <2> USE <1>4
  <2>0. UNCHANGED <<request, channel, handler, client, status, delete>>
    BY DEF ReadWhole
  <2>1. ASSUME NEW line \in Lines \cup LastLines,
               upstream' = [sent |-> <<line>>, end |-> "done"],
               Emit(Append(Whole(line), Done), "ok")
        PROVE  TypeOK'
    <3>1. Append(Whole(line), Done) \in Seq(Events)
      BY WholeType, EventTypes
    <3>2. line \in LineType
      BY DEF Lines, LastLines, LineType
    <3>3. prov' \in Goroutines
      BY <2>1, <3>1, EmitType
    <3>4. upstream' \in [sent : Seq(LineType), end : {"open", "done", "eof", "broken"}]
      BY <2>1, <3>2
    <3> QED
      BY <2>0, <3>3, <3>4 DEF TypeOK
  <2>2. CASE Ends("broken") /\ Emit(<<Error>>, "err")
    <3>1. prov' \in Goroutines
      BY <2>2, EmitType, Outs
    <3> QED
      BY <2>0, <2>2, <3>1 DEF Ends, TypeOK
  <2> QED
    BY <2>1, <2>2 DEF ReadWhole
<1>5. CASE Expire
  <2>1. prov' \in Goroutines
    BY <1>5, EmitType, Outs DEF Expire
  <2> QED
    BY <1>5, <2>1 DEF Expire, Ends, TypeOK
<1>6. CASE Send
  <2>1. prov.out \in Seq(Events) /\ prov.out # <<>>
    BY <1>6 DEF Send, TypeOK, Goroutines
  <2>2. Head(prov.out) \in Events /\ Tail(prov.out) \in Seq(Events)
    BY <2>1
  <2>3. events \in Seq(Events) /\ events' = Append(events, Head(prov.out)) /\ Len(events) < Buffer
    BY <1>6 DEF Send, TypeOK
  <2>4. events' \in Seq(Events) /\ Len(events') <= Buffer
    BY <2>2, <2>3, BufferType
  <2>5. prov' \in Goroutines
    BY <1>6, <2>2 DEF Send, TypeOK, Goroutines
  <2> QED
    BY <1>6, <2>4, <2>5 DEF Send, TypeOK
<1>7. CASE Return
  <2>1. prov' \in Goroutines /\ closed' \in BOOLEAN /\ done' \in {"none", "ok", "err"}
    BY <1>7 DEF Return, TypeOK, Goroutines
  <2> QED
    BY <1>7, <2>1 DEF Return, TypeOK
<1>8. CASE Take
  <2>0. events \in Seq(Events) /\ events # <<>> /\ Len(events) <= Buffer
    BY <1>8 DEF Take, TypeOK
  <2>1. Head(events) \in Events /\ Tail(events) \in Seq(Events)
        /\ Len(Tail(events)) <= Buffer
    BY <2>0, BufferType
  <2>4. Append(written, Head(events)) \in Seq(Events)
    BY <2>1 DEF TypeOK
  <2>6. aggregates' \in [worker : Answers, gateway : Answers]
    <3>1. /\ workerAbsorb(aggregates.worker, Head(events)) \in Answers
          /\ absorb(aggregates.gateway, Head(events)) \in Answers
      BY <2>1, AbsorbType, WorkerAbsorbType DEF TypeOK
    <3> QED
      BY <1>8, <3>1 DEF Take, TypeOK
  <2>5. events' \in Seq(Events) /\ Len(events') <= Buffer
    BY <1>8, <2>1 DEF Take
  <2>2. CASE sse
    <3>1. Head(events).type \in {"raw", "done", "error"}
      BY <2>1 DEF Events
    <3>2. StreamEvent(Head(events)) /\ UNCHANGED acc
      BY <1>8, <2>2 DEF Take
    <3>3. /\ written' \in Seq(Events) /\ handler' \in {"range", "result", "ended"}
          /\ status' \in {"running", "completed", "failed", "cancelled"}
      BY <2>4, <3>1, <3>2 DEF StreamEvent, OnError, TypeOK
    <3> QED
      BY <1>8, <2>5, <2>6, <3>2, <3>3 DEF Take, TypeOK
  <2>3. CASE ~sse
    <3>1. absorb(acc, Head(events)) \in Answers
      BY <2>1, AbsorbType DEF TypeOK
    <3>2. JSONEvent(Head(events))
      BY <1>8, <2>3 DEF Take
    <3>3. /\ written' \in Seq(Events) /\ acc' \in Answers /\ UNCHANGED <<handler, status>>
      BY <2>4, <3>1, <3>2 DEF JSONEvent, TypeOK
    <3> QED
      BY <1>8, <2>5, <2>6, <3>3 DEF Take, TypeOK
  <2> QED
    BY <2>2, <2>3
<1>9. CASE RangeEnds
  BY <1>9 DEF RangeEnds, TypeOK
<1>10. CASE Result
  <2>1. acc \in [content : Seq(Tokens), finish : Reasons] /\ OrStop(acc.finish) \in Reasons
    BY DEF OrStop, TypeOK, Reasons, Answers
  <2>2. [acc EXCEPT !.finish = OrStop(@)] \in Answers
    BY <2>1 DEF Answers
  <2>3. answer' \in Answers /\ status' \in {"running", "completed", "failed", "cancelled"}
    BY <1>10, <2>2 DEF Result, TypeOK
  <2> QED
    BY <1>10, <2>3 DEF Result, TypeOK
<1>11. CASE Disconnect
  BY <1>11 DEF Disconnect, TypeOK
<1>12. CASE DeleteStep
  BY <1>12 DEF DeleteStep, CancelGet, CancelUpdate, CancelPublish, ApplyCancelled, TypeOK
<1> QED
  BY <1>1, <1>2, <1>3, <1>4, <1>5, <1>6, <1>7, <1>8, <1>9, <1>10, <1>11, <1>12
     DEF Next, ProviderStep, HandlerStep

\* Every variable keeps its type.
THEOREM DirectTypeCorrect == Spec => []TypeOK
BY TypeInit, TypeNext, PTL DEF Spec

-----------------------------------------------------------------------------
(* A job that is cancelled does not run again. *)

LEMMA CancelledStep ==
  ASSUME TypeOK, [Next]_vars, status = "cancelled"
  PROVE  status' = "cancelled" \/ (handler' = "ended" /\ status' # "running")
<1> USE DEF request, channel, client
<1>1. CASE UNCHANGED vars
  BY <1>1 DEF vars
<1>2. CASE ProviderStep
  BY <1>2 DEF ProviderStep, Request, ReadStream, ReadWhole, Expire, Send, Return
<1>3. CASE Take
  <2>1. CASE sse
    <3>1. Head(events).type \in {"raw", "done", "error"}
      <4>1. events \in Seq(Events) /\ events # <<>>
        BY <1>3 DEF Take, TypeOK
      <4>2. Head(events) \in Events
        BY <4>1
      <4> QED
        BY <4>2 DEF Events
    <3>2. StreamEvent(Head(events))
      BY <1>3, <2>1 DEF Take
    <3> QED
      BY <3>1, <3>2 DEF StreamEvent, OnError
  <2>2. CASE ~sse
    BY <1>3, <2>2 DEF Take, JSONEvent
  <2> QED
    BY <2>1, <2>2 DEF TypeOK
<1>4. CASE RangeEnds
  BY <1>4 DEF RangeEnds
<1>5. CASE Result
  BY <1>5 DEF Result, TypeOK
<1>6. CASE Disconnect
  BY <1>6 DEF Disconnect
<1>7. CASE DeleteStep
  BY <1>7 DEF DeleteStep, CancelGet, CancelUpdate, CancelPublish, ApplyCancelled
<1> QED
  BY <1>1, <1>2, <1>3, <1>4, <1>5, <1>6, <1>7 DEF Next, HandlerStep

\* A DELETE beats neither goroutine: what the handler does next to a cancelled
\* job is to end, and to say how it ended.
THEOREM CancelledStaysSettled == Spec => CancelledIsSettled
<1>1. TypeOK /\ [Next]_vars =>
        [status = "cancelled" =>
           status' = "cancelled" \/ (handler' = "ended" /\ status' # "running")]_vars
  BY CancelledStep
<1> QED
  BY <1>1, DirectTypeCorrect, PTL DEF Spec, CancelledIsSettled

-----------------------------------------------------------------------------
(* A handler that ends with its client there has settled the job.  The event  *)
(* that settles it is on its way from the moment the provider is to return    *)
(* until the handler takes it.                                                *)

Ending(s) == \E i \in DOMAIN s : s[i].type # "raw"

ClosedByServer == upstream.end = "eof" /\ provider = "openai"

\* The provider reads until it has told how the response ended, and closes the
\* channel last.
ProviderInOrder ==
  /\ prov.then = "read" => upstream.end = "open"
  /\ prov.at \in {"request", "reading"} => prov.then = "read"
  /\ prov.at = "returned" => prov.then # "read" /\ prov.out = <<>>
  /\ closed => prov.at = "returned" /\ prov.then # "open"

\* The event that ends a stream is in the channel or about to be sent.
EndIsComing ==
  sse /\ handler = "range" /\ prov.then \in {"ok", "err"} =>
    Ending(events) \/ Ending(prov.out) \/ ClosedByServer

\* A handler that has read the whole channel found no event that ends a stream.
RangedToTheEnd == sse /\ handler = "result" => ClosedByServer /\ closed

\* A DELETE that has gone past its lookup leaves no running job.
DeletedIsSettled == delete \notin {"idle", "update"} => status # "running"

\* ClosedByServer lasts once the provider has stopped reading.
Settling ==
  /\ ProviderInOrder /\ EndIsComing /\ RangedToTheEnd /\ DeletedIsSettled
  /\ handler = "ended" /\ connected => status # "running" \/ ClosedByServer

LEMMA SettlingImplies == Settling => EndedIsSettled
BY DEF Settling, DeletedIsSettled, EndedIsSettled, ClosedByServer

LEMMA EndingLast ==
  ASSUME NEW s \in Seq(Events), NEW e \in Events, e.type # "raw"
  PROVE  Ending(Append(s, e))
<1>1. Len(s) + 1 \in DOMAIN Append(s, e) /\ Append(s, e)[Len(s) + 1] = e
  OBVIOUS
<1> QED
  BY <1>1 DEF Ending

LEMMA EndingAppend ==
  ASSUME NEW s \in Seq(Events), NEW e \in Events, Ending(s)
  PROVE  Ending(Append(s, e))
<1>1. PICK i \in DOMAIN s : s[i].type # "raw"
  BY DEF Ending
<1>2. i \in DOMAIN Append(s, e) /\ Append(s, e)[i] = s[i]
  BY <1>1
<1> QED
  BY <1>1, <1>2 DEF Ending

\* Without its first event a sequence ends as before, unless that was the end.
LEMMA EndingTail ==
  ASSUME NEW s \in Seq(Events), s # <<>>, Ending(s)
  PROVE  Head(s).type # "raw" \/ Ending(Tail(s))
<1>1. PICK i \in DOMAIN s : s[i].type # "raw"
  BY DEF Ending
<1>2. i \in 1 .. Len(s)
  BY <1>1
<1>3. CASE i = 1
  BY <1>1, <1>3
<1>4. CASE i # 1
  <2>1. i - 1 \in DOMAIN Tail(s) /\ Tail(s)[i - 1] = s[i]
    BY <1>2, <1>4
  <2> QED
    BY <1>1, <2>1 DEF Ending
<1> QED
  BY <1>3, <1>4

LEMMA EndingOuts == Ending(<<Done>>) /\ Ending(<<Error>>) /\ ~Ending(<<>>)
<1>1. 1 \in DOMAIN <<Done>> /\ <<Done>>[1].type # "raw"
  BY DEF Done, Event
<1>2. 1 \in DOMAIN <<Error>> /\ <<Error>>[1].type # "raw"
  BY DEF Error, Event
<1>3. DOMAIN <<>> = {}
  OBVIOUS
<1> QED
  BY <1>1, <1>2, <1>3 DEF Ending

\* What the provider sends when a stream's response has ended.
LEMMA EmitEnd ==
  ASSUME TypeOK, Settling, prov.at \in {"request", "reading"},
         NEW out, NEW then \in {"ok", "err"}, Ending(out), Emit(out, then),
         UNCHANGED <<request, channel, handler, client, status, delete>>
  PROVE  Settling'
<1> USE DEF request, channel, client
<1>2. prov' = [at |-> "sending", out |-> out, then |-> then]
  BY DEF Emit
<1>3. ~closed
  BY DEF Settling, ProviderInOrder
<1>4. upstream.end = "open"
  BY DEF Settling, ProviderInOrder
<1>5. ProviderInOrder'
  BY <1>2, <1>3 DEF ProviderInOrder
<1>6. EndIsComing' /\ DeletedIsSettled'
  BY <1>2 DEF Settling, EndIsComing, DeletedIsSettled, Ending
<1>7. RangedToTheEnd' /\ (handler' = "ended" /\ connected' => status' # "running" \/ ClosedByServer')
  BY <1>3, <1>4 DEF Settling, RangedToTheEnd, ClosedByServer
<1> QED
  BY <1>5, <1>6, <1>7 DEF Settling

LEMMA SettlingInit == Init => Settling
BY DEF Init, Settling, ProviderInOrder, EndIsComing, RangedToTheEnd, DeletedIsSettled

LEMMA SettlingNext == TypeOK /\ Settling /\ [Next]_vars => Settling'
<1> SUFFICES ASSUME TypeOK, Settling, [Next]_vars PROVE Settling'
  OBVIOUS
<1> USE DEF request, channel, client
<1>1. CASE UNCHANGED vars
  BY <1>1 DEF vars, Settling, ProviderInOrder, EndIsComing, RangedToTheEnd, DeletedIsSettled,
              ClosedByServer, Ending
<1>2. CASE Request
  <2>1. CASE Emit(<<Error>>, "err")
    BY <1>2, <2>1, EmitEnd, EndingOuts DEF Request
  <2>2. CASE prov' = [prov EXCEPT !.at = "reading"] \/ Emit(<<>>, "open")
    <3>1. ProviderInOrder /\ prov.then = "read" /\ upstream.end = "open" /\ ~closed
      BY <1>2 DEF Request, Settling, ProviderInOrder
    <3>2. ProviderInOrder'
      <4>1. CASE prov' = [prov EXCEPT !.at = "reading"]
        BY <1>2, <3>1, <4>1 DEF Request, ProviderInOrder, TypeOK, Goroutines
      <4>2. CASE Emit(<<>>, "open")
        BY <1>2, <3>1, <4>2 DEF Request, ProviderInOrder, Emit
      <4> QED
        BY <2>2, <4>1, <4>2
    <3>3. prov'.then \in {"read", "open"}
      <4>1. CASE prov' = [prov EXCEPT !.at = "reading"]
        BY <3>1, <4>1 DEF TypeOK, Goroutines
      <4>2. CASE Emit(<<>>, "open")
        BY <4>2 DEF Emit
      <4> QED
        BY <2>2, <4>1, <4>2
    <3>4. EndIsComing'
      BY <3>3 DEF EndIsComing
    <3> QED
      BY <1>2, <3>2, <3>4 DEF Request, Settling, RangedToTheEnd, DeletedIsSettled, ClosedByServer
  <2> QED
    BY <1>2, <2>1, <2>2 DEF Request, Refuse
<1>3. CASE ReadStream
  <2>0. prov.at = "reading" /\ UNCHANGED <<request, channel, handler, client, status, delete>>
    BY <1>3 DEF ReadStream
  <2>1. ASSUME NEW line \in Lines, Says(line), Emit(Translated(line), "read") PROVE Settling'
    <3>1. prov.then = "read" /\ upstream.end = "open" /\ ~closed
      BY <2>0 DEF Settling, ProviderInOrder
    <3>2. upstream'.end = "open"
      BY <2>1, <3>1 DEF Says, TypeOK
    <3>3. prov'.at = "sending" /\ prov'.then = "read"
      BY <2>1 DEF Emit
    <3>4. ~ClosedByServer
      BY <3>1 DEF ClosedByServer
    <3> QED
      BY <2>0, <3>1, <3>2, <3>3, <3>4
         DEF Settling, ProviderInOrder, EndIsComing, RangedToTheEnd, DeletedIsSettled
  <2>2. CASE Finish
    <3>1. CASE provider = "openai"
      BY <2>0, <2>2, <3>1, EmitEnd, EndingOuts DEF Finish
    <3>2. ASSUME NEW line \in LastLines,
                 Emit(Translated(line)
                   \o <<Delta(Len(upstream.sent) + 1, 0, OrStop(line.reason)), Done>>, "ok")
          PROVE  Settling'
      <4> DEFINE delta == Delta(Len(upstream.sent) + 1, 0, OrStop(line.reason))
      <4>1. Translated(line) \in Seq(Events)
        BY TranslatedType, LinesType
      <4>2. OrStop(line.reason) \in Reasons /\ Len(upstream.sent) + 1 \in Nat
        BY DEF LastLines, OrStop, Reasons, TypeOK
      <4>3. delta \in Events /\ Done \in Events /\ Done.type # "raw"
        BY <4>2, EventTypes DEF Done, Event
      <4> HIDE DEF delta
      <4>4. Translated(line) \o <<delta, Done>> = Append(Append(Translated(line), delta), Done)
        BY <4>1, <4>3
      <4>5. Ending(Translated(line) \o <<delta, Done>>)
        <5>1. Append(Translated(line), delta) \in Seq(Events)
          BY <4>1, <4>3
        <5> QED
          BY <4>3, <4>4, <5>1, EndingLast
      <4> QED
        BY <2>0, <3>2, <4>5, EmitEnd DEF delta
    <3> QED
      BY <2>2, <3>1, <3>2 DEF Finish
  <2>3. CASE Ends("eof") /\ EndOfFile
    <3>1. CASE provider = "openai" /\ Emit(<<>>, "ok")
      <4>1. upstream'.end = "eof" /\ prov' = [at |-> "sending", out |-> <<>>, then |-> "ok"]
        BY <2>3, <3>1 DEF Ends, Emit, TypeOK
      <4>2. ~closed /\ ClosedByServer'
        BY <2>0, <3>1, <4>1 DEF Settling, ProviderInOrder, ClosedByServer
      <4>3. ProviderInOrder' /\ EndIsComing' /\ DeletedIsSettled'
        BY <2>0, <4>1, <4>2 DEF Settling, ProviderInOrder, EndIsComing, DeletedIsSettled
      <4> QED
        BY <2>0, <4>2, <4>3 DEF Settling, RangedToTheEnd
    <3>2. CASE Emit(<<Error>>, "err") \/ Emit(<<Done>>, "ok")
      BY <2>0, <3>2, EmitEnd, EndingOuts
    <3> QED
      BY <2>3, <3>1, <3>2 DEF EndOfFile
  <2>4. CASE Emit(<<Error>>, "err")
    BY <2>0, <2>4, EmitEnd, EndingOuts
  <2> QED
    BY <1>3, <2>1, <2>2, <2>3, <2>4 DEF ReadStream
<1>4. CASE ReadWhole
  <2>0. prov.at = "reading" /\ ~sse /\ UNCHANGED <<request, channel, handler, client, status, delete>>
    BY <1>4 DEF ReadWhole
  <2>1. ASSUME NEW line \in Lines \cup LastLines, Emit(Append(Whole(line), Done), "ok")
        PROVE  Settling'
    <3>1. Ending(Append(Whole(line), Done))
      BY WholeType, EventTypes, EndingLast DEF Done, Event
    <3> QED
      BY <2>0, <2>1, <3>1, EmitEnd
  <2>2. CASE Emit(<<Error>>, "err")
    BY <2>0, <2>2, EmitEnd, EndingOuts
  <2> QED
    BY <1>4, <2>1, <2>2 DEF ReadWhole
<1>5. CASE Expire
  BY <1>5, EmitEnd, EndingOuts DEF Expire
<1>6. CASE Send
  <2>1. prov.at = "sending" /\ prov.out \in Seq(Events) /\ prov.out # <<>> /\ events \in Seq(Events)
    BY <1>6 DEF Send, TypeOK, Goroutines
  <2>2. /\ prov'.at = prov.at /\ prov'.then = prov.then /\ prov'.out = Tail(prov.out)
        /\ events' = Append(events, Head(prov.out))
        /\ UNCHANGED <<request, upstream, closed, done, handler, client, status, delete>>
    BY <1>6 DEF Send, TypeOK, Goroutines
  <2>3. Head(prov.out) \in Events
    BY <2>1
  <2>4. Ending(events) \/ Ending(prov.out) => Ending(events') \/ Ending(prov'.out)
    BY <2>1, <2>2, <2>3, EndingAppend, EndingLast, EndingTail
  <2>5. EndIsComing'
    BY <2>2, <2>4 DEF Settling, EndIsComing, ClosedByServer
  <2> QED
    BY <2>1, <2>2, <2>5
       DEF Settling, ProviderInOrder, RangedToTheEnd, DeletedIsSettled, ClosedByServer
<1>7. CASE Return
  <2>1. /\ prov.at = "sending" /\ prov.out = <<>> /\ prov'.out = prov.out /\ prov'.then = prov.then
        /\ UNCHANGED <<request, upstream, events, handler, client, status, delete>>
    BY <1>7 DEF Return, TypeOK, Goroutines
  <2>2. ~closed
    BY <2>1 DEF Settling, ProviderInOrder
  <2>3. ProviderInOrder' /\ (closed' \/ ~closed)
    <3>1. CASE prov.then = "read"
      <4>1. prov'.at = "reading" /\ ~closed'
        BY <1>7, <2>2, <3>1 DEF Return, TypeOK, Goroutines
      <4> QED
        BY <2>1, <2>2, <3>1, <4>1 DEF Settling, ProviderInOrder
    <3>2. CASE prov.then # "read"
      <4>1. prov'.at = "returned" /\ closed' = (prov.then # "open")
        BY <1>7, <3>2 DEF Return, TypeOK, Goroutines
      <4> QED
        BY <2>1, <2>2, <3>2, <4>1 DEF Settling, ProviderInOrder
    <3> QED
      BY <3>1, <3>2
  <2>4. EndIsComing'
    BY <2>1 DEF Settling, EndIsComing, ClosedByServer
  <2> QED
    BY <2>1, <2>2, <2>3, <2>4 DEF Settling, RangedToTheEnd, DeletedIsSettled, ClosedByServer
<1>8. CASE Take
  <2>1. events \in Seq(Events) /\ events # <<>> /\ handler = "range" /\ events' = Tail(events)
        /\ UNCHANGED <<request, upstream, prov, closed, done, answer, connected, delete>>
    BY <1>8 DEF Take, TypeOK
  <2>2. Head(events) \in Events
    BY <2>1
  <2>3. ProviderInOrder'
    BY <2>1 DEF Settling, ProviderInOrder
  <2>4. CASE sse
    <3>1. StreamEvent(Head(events))
      BY <1>8, <2>4 DEF Take
    <3>2. Head(events).type \in {"raw", "done", "error"}
      BY <2>2 DEF Events
    <3>3. CASE Head(events).type = "raw" /\ UNCHANGED <<handler, status>>
      <4>1. Ending(events) => Ending(events')
        BY <2>1, <3>3, EndingTail
      <4>2. EndIsComing'
        BY <2>1, <3>3, <4>1 DEF Settling, EndIsComing, ClosedByServer
      <4> QED
        BY <2>1, <2>3, <3>3, <4>2 DEF Settling, RangedToTheEnd, DeletedIsSettled
    <3>4. CASE /\ handler' = "ended"
               /\ \/ status' \in {"completed", "failed"}
                  \/ ~connected /\ UNCHANGED status
      BY <2>1, <2>3, <3>4 DEF Settling, EndIsComing, RangedToTheEnd, DeletedIsSettled
    <3>5. CASE Head(events).type = "raw"
      <4>1. UNCHANGED <<handler, status>> \/ (~connected /\ handler' = "ended" /\ UNCHANGED status)
        BY <3>1, <3>5 DEF StreamEvent
      <4> QED
        BY <3>3, <3>4, <3>5, <4>1
    <3>6. CASE Head(events).type = "done"
      BY <3>1, <3>4, <3>6 DEF StreamEvent
    <3>7. CASE Head(events).type = "error"
      BY <3>1, <3>4, <3>7 DEF StreamEvent, OnError
    <3> QED
      BY <3>2, <3>5, <3>6, <3>7
  <2>5. CASE ~sse
    BY <1>8, <2>1, <2>3, <2>5
       DEF Take, JSONEvent, Settling, EndIsComing, RangedToTheEnd, DeletedIsSettled
  <2> QED
    BY <2>4, <2>5
<1>9. CASE RangeEnds
  <2>1. /\ handler = "range" /\ events = <<>> /\ closed /\ handler' = "result"
        /\ UNCHANGED <<request, upstream, prov, channel, client, status, delete>>
    BY <1>9 DEF RangeEnds
  <2>2. prov.at = "returned" /\ prov.out = <<>> /\ prov.then \notin {"read", "open"}
    BY <2>1 DEF Settling, ProviderInOrder
  <2>3. prov.then \in {"ok", "err"}
    BY <2>2 DEF TypeOK, Goroutines
  <2>4. sse => ClosedByServer
    BY <2>1, <2>2, <2>3, EndingOuts DEF Settling, EndIsComing
  <2>5. ProviderInOrder' /\ DeletedIsSettled'
    BY <2>1 DEF Settling, ProviderInOrder, DeletedIsSettled
  <2>6. RangedToTheEnd'
    BY <2>1, <2>4 DEF RangedToTheEnd, ClosedByServer
  <2> QED
    BY <2>1, <2>5, <2>6 DEF Settling, EndIsComing
<1>10. CASE Result
  <2>1. /\ handler = "result" /\ handler' = "ended"
        /\ UNCHANGED <<request, upstream, prov, channel, connected, delete>>
        /\ (sse => UNCHANGED status) /\ (~sse => status' # "running")
    BY <1>10 DEF Result, TypeOK
  <2>2. sse => ClosedByServer
    BY <2>1 DEF Settling, RangedToTheEnd
  <2>3. DeletedIsSettled'
    BY <2>1 DEF Settling, DeletedIsSettled, TypeOK
  <2>4. ProviderInOrder' /\ EndIsComing' /\ RangedToTheEnd'
    BY <2>1 DEF Settling, ProviderInOrder, EndIsComing, RangedToTheEnd
  <2> QED
    BY <2>1, <2>2, <2>3, <2>4 DEF Settling, ClosedByServer, TypeOK
<1>11. CASE Disconnect
  BY <1>11 DEF Disconnect, Settling, ProviderInOrder, EndIsComing, RangedToTheEnd,
               DeletedIsSettled, ClosedByServer, Ending
<1>12. CASE DeleteStep
  <2>1. /\ UNCHANGED <<request, upstream, prov, channel, handler, client>>
        /\ \/ delete' \in {"idle", "update"}
           \/ status' = "cancelled"
           \/ status' = status /\ (status # "running" \/ delete \notin {"idle", "update"})
        /\ status' = status \/ status' = "cancelled"
    BY <1>12 DEF DeleteStep, CancelGet, CancelUpdate, CancelPublish, ApplyCancelled
  <2>2. DeletedIsSettled'
    BY <2>1 DEF Settling, DeletedIsSettled
  <2>3. ProviderInOrder' /\ EndIsComing' /\ RangedToTheEnd'
    BY <2>1 DEF Settling, ProviderInOrder, EndIsComing, RangedToTheEnd, ClosedByServer, Ending
  <2> QED
    BY <2>1, <2>2, <2>3 DEF Settling, ClosedByServer
<1> QED
  BY <1>1, <1>2, <1>3, <1>4, <1>5, <1>6, <1>7, <1>8, <1>9, <1>10, <1>11, <1>12
     DEF Next, ProviderStep, HandlerStep

\* A handler that ends with its client there leaves a job that has ended, but
\* for a stream the server closed without saying that it was done.
THEOREM HandlersSettleTheirJobs == Spec => []EndedIsSettled
<1>1. Spec => []TypeOK
  BY DirectTypeCorrect
<1> QED
  BY <1>1, SettlingInit, SettlingNext, SettlingImplies, PTL DEF Spec
-----------------------------------------------------------------------------
(* What the provider of a stream does with its channel.                      *)

\* The events that have been sent or are about to be.
Due == events \o prov.out

LEMMA DueType ==
  ASSUME TypeOK
  PROVE  /\ events \in Seq(Events) /\ prov.out \in Seq(Events) /\ Due \in Seq(Events)
         /\ upstream.sent \in Seq(LineType) /\ written \in Seq(Events)
<1>1. events \in Seq(Events) /\ prov.out \in Seq(Events)
  BY DEF TypeOK, Goroutines
<1>2. Due \in Seq(Events)
  BY <1>1 DEF Due
<1> QED BY <1>1, <1>2 DEF TypeOK

\* The events that say how a line ended Ollama's stream.
Closing(line) == <<Delta(Len(upstream.sent) + 1, 0, OrStop(line.reason)), Done>>

\* A provider that reads a streamed response passes on what it has read.
Relays ==
  \/ prov' = [prov EXCEPT !.at = "reading"] /\ upstream'.sent = upstream.sent
  \/ /\ Emit(<<>>, "open") \/ Emit(<<>>, "ok") \/ Emit(<<Error>>, "err")
     /\ upstream'.sent = upstream.sent
  \/ Emit(<<Done>>, "ok") /\ upstream'.sent = upstream.sent /\ Announced'
  \/ \E line \in LineType :
       /\ upstream'.sent = Append(upstream.sent, line)
       /\ \/ Emit(Translated(line), "read")
          \/ Emit(Translated(line) \o Closing(line), "ok") /\ Announced'

LEMMA StreamRelays ==
  ASSUME TypeOK, sse, Request \/ ReadStream \/ ReadWhole \/ Expire
  PROVE  /\ prov.at \in {"request", "reading"} /\ Relays
         /\ UNCHANGED <<request, channel, handler, client, status, delete>>
<1>1. upstream \in [sent : Seq(LineType), end : {"open", "done", "eof", "broken"}]
  BY DEF TypeOK
<1>2. Lines \subseteq LineType /\ LastLines \subseteq LineType
  BY DEF Lines, LastLines, LineType
<1>3. CASE Request
  BY <1>3 DEF Request, Refuse, Relays
<1>4. CASE ReadStream
  <2>1. prov.at = "reading" /\ UNCHANGED <<request, channel, handler, client, status, delete>>
    BY <1>4 DEF ReadStream
  <2>2. ASSUME NEW line \in Lines, Says(line), Emit(Translated(line), "read") PROVE Relays
    BY <1>1, <1>2, <2>2 DEF Says, Relays
  <2>3. ASSUME Finish PROVE Relays
    <3>1. CASE provider = "openai"
      <4>1. Ends("done") /\ Emit(<<Done>>, "ok")
        BY <2>3, <3>1 DEF Finish
      <4>2. upstream'.sent = upstream.sent /\ upstream'.end = "done"
        BY <1>1, <4>1 DEF Ends
      <4>3. Announced'
        BY <4>2 DEF Announced
      <4> QED BY <4>1, <4>2, <4>3 DEF Relays
    <3>2. CASE provider # "openai"
      <4>1. PICK line \in LastLines :
              /\ upstream' = [sent |-> Append(upstream.sent, line), end |-> "done"]
              /\ Emit(Translated(line) \o Closing(line), "ok")
        BY <2>3, <3>2 DEF Finish, Closing
      <4>2. upstream'.sent = Append(upstream.sent, line) /\ upstream'.end = "done"
        BY <4>1
      <4>3. Announced'
        BY <4>2 DEF Announced
      <4>4. line \in LineType
        BY <1>2
      <4> QED BY <4>1, <4>2, <4>3, <4>4 DEF Relays
    <3> QED BY <3>1, <3>2
  <2>4. ASSUME Ends("eof"), EndOfFile PROVE Relays
    <3>1. upstream'.sent = upstream.sent /\ upstream'.end = "eof" /\ provider' = provider
      BY <1>1, <2>1, <2>4 DEF Ends, request
    <3>2. provider \in {"openai", "ollama"}
      BY DirectAssumption DEF TypeOK
    <3>3. CASE Emit(<<>>, "ok") \/ Emit(<<Error>>, "err")
      BY <3>1, <3>3 DEF Relays
    <3>4. CASE provider = "ollama" /\ Emit(<<Done>>, "ok")
      <4>1. Announced'
        BY <3>1, <3>4 DEF Announced
      <4> QED BY <3>1, <3>4, <4>1 DEF Relays
    <3> QED BY <2>4, <3>2, <3>3, <3>4 DEF EndOfFile
  <2>5. ASSUME Ends("broken"), Emit(<<Error>>, "err") PROVE Relays
    <3>1. upstream'.sent = upstream.sent
      BY <1>1, <2>5 DEF Ends
    <3> QED BY <2>5, <3>1 DEF Relays
  <2> QED BY <1>4, <2>1, <2>2, <2>3, <2>4, <2>5 DEF ReadStream
<1>5. CASE ReadWhole
  BY <1>5 DEF ReadWhole
<1>6. CASE Expire
  <2>1. upstream'.sent = upstream.sent
    BY <1>1, <1>6 DEF Expire, Ends
  <2> QED BY <1>6, <2>1 DEF Expire, Relays
<1> QED BY <1>3, <1>4, <1>5, <1>6

-----------------------------------------------------------------------------
(* The worker's aggregator and the gateway's read a stream alike.            *)

Deltas(s) == \A i \in DOMAIN s : s[i].form = "delta"

\* All chunks of a stream are deltas, and what has been made of them agrees.
Alike == RoutesAgree /\ (sse => Deltas(events) /\ Deltas(prov.out))

\* A chunk with one choice says the same to both.
LEMMA AbsorbAlike ==
  ASSUME NEW a \in Answers, NEW c \in Events, c.form = "delta", c.texts < 2
  PROVE  workerAbsorb(a, c) = absorb(a, c)
<1>1. c.texts \in 0 .. 2 /\ a.content \in Seq(Tokens)
  BY DEF Events, Answers
<1>4. workerAbsorb(a, c).content = absorb(a, c).content => workerAbsorb(a, c) = absorb(a, c)
  BY DEF workerAbsorb, absorb
<1>5. /\ workerAbsorb(a, c).content = a.content \o Pieces(c.line, c.texts)
      /\ absorb(a, c).content = IF c.texts > 0 THEN Append(a.content, <<c.line, 1>>) ELSE a.content
  BY DEF workerAbsorb, absorb
<1>2. CASE c.texts = 0
  <2>1. Pieces(c.line, c.texts) = <<>>
    BY <1>2 DEF Pieces
  <2>2. a.content \o <<>> = a.content
    BY <1>1
  <2>3. a.content \o Pieces(c.line, c.texts) = a.content
    BY <2>1, <2>2
  <2>4. absorb(a, c).content = a.content
    BY <1>2, <1>5
  <2> QED BY <2>3, <2>4, <1>4, <1>5
<1>3. CASE c.texts = 1
  <2>1. Pieces(c.line, c.texts) = <<<<c.line, 1>>>>
    BY <1>3 DEF Pieces
  <2>2. a.content \o <<<<c.line, 1>>>> = Append(a.content, <<c.line, 1>>)
    BY <1>1
  <2>3. a.content \o Pieces(c.line, c.texts) = Append(a.content, <<c.line, 1>>)
    BY <2>1, <2>2
  <2>4. absorb(a, c).content = Append(a.content, <<c.line, 1>>)
    BY <1>3, <1>5
  <2> QED BY <2>3, <2>4, <1>4, <1>5
<1> QED BY <1>1, <1>2, <1>3

LEMMA DeltasAppend ==
  ASSUME NEW s \in Seq(Events), Deltas(s), NEW e \in Events, e.form = "delta"
  PROVE  Deltas(Append(s, e))
<1>1. \A i \in DOMAIN Append(s, e) : Append(s, e)[i] = e \/ (i \in DOMAIN s /\ Append(s, e)[i] = s[i])
  OBVIOUS
<1> QED BY <1>1 DEF Deltas

LEMMA DeltasTail ==
  ASSUME NEW s \in Seq(Events), s # <<>>, Deltas(s)
  PROVE  Head(s).form = "delta" /\ Deltas(Tail(s))
<1>1. 1 \in DOMAIN s /\ Head(s) = s[1]
  OBVIOUS
<1>2. \A i \in DOMAIN Tail(s) : i + 1 \in DOMAIN s /\ Tail(s)[i] = s[i + 1]
  OBVIOUS
<1> QED BY <1>1, <1>2 DEF Deltas

LEMMA EmptyBefore ==
  ASSUME NEW e
  PROVE  <<>> \o <<e>> = <<e>>
<1>1. <<e>> \in Seq({e}) /\ <<>> \in Seq({e})
  OBVIOUS
<1> QED BY <1>1

LEMMA OneAfter ==
  ASSUME NEW d, NEW e
  PROVE  <<d>> \o <<e>> = <<d, e>> /\ <<d>> \o <<>> = <<d>>
<1>1. <<d>> \in Seq({d, e}) /\ <<e>> \in Seq({d, e}) /\ <<>> \in Seq({d, e})
  OBVIOUS
<1>2. <<d>> \o <<>> = <<d>>
  BY <1>1
<1>3. <<d>> \o <<e>> = <<d, e>>
  <2>1. <<d, e>> \in Seq({d, e}) /\ Len(<<d, e>>) = 2 /\ <<d, e>>[1] = d /\ <<d, e>>[2] = e
    BY PairType
  <2>2. /\ <<d>> \o <<e>> \in Seq({d, e}) /\ Len(<<d>> \o <<e>>) = 2
        /\ (<<d>> \o <<e>>)[1] = d /\ (<<d>> \o <<e>>)[2] = e
    BY <1>1, ConcatProperties
  <2>3. \A i \in 1 .. Len(<<d>> \o <<e>>) : (<<d>> \o <<e>>)[i] = <<d, e>>[i]
    <3>1. \A i \in 1 .. 2 : i = 1 \/ i = 2
      OBVIOUS
    <3> QED BY <2>1, <2>2, <3>1
  <2>4. Len(<<d>> \o <<e>>) = Len(<<d, e>>)
    BY <2>1, <2>2
  <2>5. <<d>> \o <<e>> \in Seq({d, e}) /\ <<d, e>> \in Seq({d, e})
    BY <2>1, <2>2
  <2> QED BY <2>3, <2>4, <2>5, SeqEqual
<1> QED BY <1>2, <1>3

\* The chunks of a line: what an OpenAI-compatible server sends goes on as it
\* is; of Ollama's, the role before the first line, and the text if there is any.
LEMMA TranslatedCases ==
  ASSUME NEW line
  PROVE  LET n == Len(upstream.sent) + 1
             r == Delta(1, 0, "none")
             t == Delta(n, line.texts, line.reason)
             u == Delta(n, line.texts, "none")
         IN  \/ Translated(line) = <<t>>
             \/ line.texts = 0 /\ Translated(line) \in {<<>>, <<r>>}
             \/ line.texts # 0 /\ n # 1 /\ Translated(line) = <<u>>
             \/ line.texts # 0 /\ n = 1 /\ Translated(line) = <<r, u>>
<1> DEFINE n == Len(upstream.sent) + 1
           r == Delta(1, 0, "none")
           t == Delta(n, line.texts, line.reason)
           u == Delta(n, line.texts, "none")
<1>1. Translated(line) = IF provider = "openai" THEN <<t>>
                         ELSE (IF n = 1 THEN <<r>> ELSE <<>>)
                                \o (IF line.texts = 0 THEN <<>> ELSE <<u>>)
  BY DEF Translated
<1> HIDE DEF n, r, t, u
<1>2. <<r>> \o <<u>> = <<r, u>> /\ <<r>> \o <<>> = <<r>>
  BY OneAfter
<1>7. <<>> \o <<u>> = <<u>>
  BY EmptyBefore
<1>8. <<>> \o <<>> = <<>>
  OBVIOUS
<1>3. CASE provider = "openai"
  BY <1>1, <1>3 DEF n, r, t, u
<1>4. CASE provider # "openai" /\ line.texts = 0
  <2>1. Translated(line) \in {<<>>, <<r>>}
    BY <1>1, <1>2, <1>4, <1>8
  <2> QED BY <1>4, <2>1 DEF r
<1>5. CASE provider # "openai" /\ line.texts # 0 /\ n # 1
  <2>1. Translated(line) = <<u>>
    BY <1>1, <1>7, <1>5
  <2> QED BY <1>5, <2>1 DEF u, n
<1>6. CASE provider # "openai" /\ line.texts # 0 /\ n = 1
  <2>1. Translated(line) = <<r, u>>
    BY <1>1, <1>2, <1>6
  <2> QED BY <1>6, <2>1 DEF u, n, r
<1> QED BY <1>3, <1>4, <1>5, <1>6

LEMMA DeltasOuts ==
  /\ Deltas(<<>>) /\ Deltas(<<Done>>) /\ Deltas(<<Error>>)
  /\ \A line : Deltas(Translated(line)) /\ Deltas(Translated(line) \o Closing(line))
<1>1. Deltas(<<>>) /\ Deltas(<<Done>>) /\ Deltas(<<Error>>)
  BY DEF Deltas, Done, Error, Event
<1>2. Done.form = "delta" /\ \A i, texts, reason : Delta(i, texts, reason).form = "delta"
  BY DEF Done, Event, Delta
<1>3. ASSUME NEW line PROVE Deltas(Translated(line)) /\ Deltas(Translated(line) \o Closing(line))
  <2> DEFINE d == Delta(Len(upstream.sent) + 1, 0, OrStop(line.reason))
             r == Delta(1, 0, "none")
             t == Delta(Len(upstream.sent) + 1, line.texts, line.reason)
             u == Delta(Len(upstream.sent) + 1, line.texts, "none")
  <2>1. d.form = "delta" /\ r.form = "delta" /\ t.form = "delta" /\ u.form = "delta"
    BY <1>2
  <2>2. Translated(line) \in {<<>>, <<r>>, <<t>>, <<u>>, <<r, u>>}
    BY TranslatedCases
  <2>3. Closing(line) = <<d, Done>>
    BY DEF Closing
  <2> HIDE DEF d, r, t, u
  <2> QED BY <1>2, <2>1, <2>2, <2>3 DEF Deltas
<1> QED BY <1>1, <1>3
LEMMA AlikeInit == Init => Alike
<1> SUFFICES ASSUME Init PROVE Alike
  OBVIOUS
<1>1. events = <<>> /\ prov.out = <<>> /\ aggregates.worker = aggregates.gateway
  BY DEF Init
<1> QED BY <1>1, DeltasOuts DEF Alike, RoutesAgree

LEMMA AlikeNext == TypeOK /\ Alike /\ [Next]_vars => Alike'
<1> SUFFICES ASSUME TypeOK, Alike, [Next]_vars PROVE Alike'
  OBVIOUS
<1> USE DEF request, channel, client
<1>0. sse' = sse /\ (sse => Deltas(events) /\ Deltas(prov.out)) /\ RoutesAgree
  BY DEF Alike, Next, vars, ProviderStep, Request, ReadStream, ReadWhole, Expire, Send, Return,
         HandlerStep, Take, RangeEnds, Result, Disconnect,
         DeleteStep, CancelGet, CancelUpdate, CancelPublish, ApplyCancelled
<1>1. ASSUME UNCHANGED <<sse, events, written, aggregates>>, sse => Deltas(prov'.out) PROVE Alike'
  <2>1. RoutesAgree'
    BY <1>0, <1>1 DEF RoutesAgree
  <2>2. sse' => Deltas(events') /\ Deltas(prov'.out)
    BY <1>0, <1>1
  <2> QED BY <2>1, <2>2 DEF Alike
<1>2. CASE UNCHANGED vars
  BY <1>0, <1>1, <1>2 DEF vars
<1>3. CASE Request \/ ReadStream \/ ReadWhole \/ Expire
  <2>1. UNCHANGED <<sse, events, written, aggregates>>
    BY <1>3 DEF Request, ReadStream, ReadWhole, Expire
  <2>2. ASSUME sse PROVE Deltas(prov'.out)
    <3>1. Relays
      BY <1>3, <2>2, StreamRelays
    <3>2. CASE prov' = [prov EXCEPT !.at = "reading"]
      <4>1. prov'.out = prov.out
        BY <3>2 DEF TypeOK, Goroutines
      <4> QED BY <1>0, <2>2, <4>1
    <3>3. ASSUME NEW out, NEW then, Emit(out, then), Deltas(out) PROVE Deltas(prov'.out)
      BY <3>3 DEF Emit
    <3>4. CASE Emit(<<>>, "open") \/ Emit(<<>>, "ok") \/ Emit(<<Error>>, "err") \/ Emit(<<Done>>, "ok")
      BY <3>3, <3>4, DeltasOuts
    <3>5. ASSUME NEW line, Emit(Translated(line), "read")
                           \/ Emit(Translated(line) \o Closing(line), "ok")
          PROVE  Deltas(prov'.out)
      BY <3>3, <3>5, DeltasOuts
    <3> QED BY <3>1, <3>2, <3>4, <3>5 DEF Relays
  <2> QED BY <1>1, <2>1, <2>2
<1>4. CASE Send
  <2>1. prov.out # <<>> /\ prov.out \in Seq(Events) /\ events \in Seq(Events)
        /\ events' = Append(events, Head(prov.out)) /\ prov'.out = Tail(prov.out)
    BY <1>4 DEF Send, TypeOK, Goroutines
  <2>2. Head(prov.out) \in Events
    BY <2>1
  <2>3. sse => Deltas(events') /\ Deltas(prov'.out)
    BY <1>0, <2>1, <2>2, DeltasTail, DeltasAppend
  <2>4. UNCHANGED <<sse, written, aggregates>>
    BY <1>4 DEF Send
  <2>5. RoutesAgree'
    BY <1>0, <2>4 DEF RoutesAgree
  <2> QED BY <2>3, <2>4, <2>5 DEF Alike
<1>5. CASE Return
  <2>1. prov'.out = prov.out
    BY <1>5 DEF Return, TypeOK, Goroutines
  <2>2. UNCHANGED <<sse, events, written, aggregates>>
    BY <1>5 DEF Return
  <2> QED BY <1>0, <1>1, <2>1, <2>2
<1>6. CASE Take
  <2>1. events \in Seq(Events) /\ events # <<>> /\ events' = Tail(events) /\ prov' = prov
    BY <1>6 DEF Take, TypeOK
  <2>2. Head(events) \in Events
    BY <2>1
  <2>3. sse => Deltas(events') /\ Deltas(prov'.out) /\ Head(events).form = "delta"
    BY <1>0, <2>1, DeltasTail
  <2>4. ASSUME sse, \A i \in DOMAIN written' : written'[i].texts < 2
        PROVE  aggregates'.worker = aggregates'.gateway
    <3>1. CASE written' = written
      <4>1. aggregates' = aggregates
        BY <1>6, <3>1 DEF Take
      <4> QED BY <1>0, <2>4, <3>1, <4>1 DEF RoutesAgree
    <3>2. CASE written' # written
      <4>1. StreamEvent(Head(events)) /\ Head(events).type \in {"raw", "done", "error"}
        BY <1>6, <2>2, <2>4 DEF Take, Events
      <4>2. written' = Append(written, Head(events))
        BY <3>2, <4>1 DEF StreamEvent, OnError
      <4>3. written \in Seq(Events)
        BY DEF TypeOK
      <4>4. /\ \A i \in 1 .. Len(written) : i \in DOMAIN written' /\ written'[i] = written[i]
            /\ Len(written) + 1 \in DOMAIN written' /\ written'[Len(written) + 1] = Head(events)
        BY <2>2, <4>2, <4>3
      <4>5. (\A i \in DOMAIN written : written[i].texts < 2) /\ Head(events).texts < 2
        BY <2>4, <4>3, <4>4
      <4>6. aggregates.worker = aggregates.gateway
        BY <1>0, <2>4, <4>5 DEF RoutesAgree
      <4>7. aggregates.worker \in Answers
        BY DEF TypeOK
      <4>8. aggregates' = [worker |-> workerAbsorb(aggregates.worker, Head(events)),
                           gateway |-> absorb(aggregates.gateway, Head(events))]
        BY <1>6, <3>2 DEF Take
      <4> QED BY <2>2, <2>3, <2>4, <4>5, <4>6, <4>7, <4>8, AbsorbAlike
    <3> QED BY <3>1, <3>2
  <2> QED BY <1>0, <2>3, <2>4 DEF Alike, RoutesAgree
<1>7. CASE RangeEnds \/ Result \/ Disconnect \/ DeleteStep
  <2>1. UNCHANGED <<sse, events, written, aggregates, prov>>
    BY <1>7 DEF RangeEnds, Result, Disconnect, DeleteStep, CancelGet, CancelUpdate, CancelPublish,
                ApplyCancelled
  <2> QED BY <1>0, <1>1, <2>1
<1> QED BY <1>2, <1>3, <1>4, <1>5, <1>6, <1>7 DEF Next, ProviderStep, HandlerStep

\* Of a stream with one choice, the gateway of a direct request and the worker
\* of a queued one would make the same answer, however it comes in pieces.
THEOREM RoutesMakeTheSame == Spec => []RoutesAgree
<1>1. Alike => RoutesAgree
  BY DEF Alike
<1> QED BY <1>1, AlikeInit, AlikeNext, DirectTypeCorrect, PTL DEF Spec
-----------------------------------------------------------------------------
(* What a stream's client has been sent says what the upstream server said.  *)

LEMMA AppendFacts ==
  ASSUME NEW S, NEW s \in Seq(S), NEW e \in S
  PROVE  /\ Append(s, e) \in Seq(S) /\ Len(s) \in Nat
         /\ DOMAIN s = 1 .. Len(s) /\ DOMAIN Append(s, e) = 1 .. Len(s) + 1
         /\ \A k \in 1 .. Len(s) : Append(s, e)[k] = s[k]
         /\ Append(s, e)[Len(s) + 1] = e
BY AppendProperties

\* A chunk without text changes nothing.
LEMMA TranscribesEmpty ==
  ASSUME NEW s \in Seq(Events), NEW l \in Seq(LineType), NEW e \in Events, e.texts = 0
  PROVE  Transcribes(Append(s, e), l) <=> Transcribes(s, l)
<1> DEFINE t == Append(s, e)
<1>1. /\ Len(s) \in Nat /\ DOMAIN s = 1 .. Len(s) /\ DOMAIN t = 1 .. Len(s) + 1
      /\ \A k \in 1 .. Len(s) : t[k] = s[k]
      /\ t[Len(s) + 1] = e
  BY AppendFacts
<1> HIDE DEF t
<1>2. \A k \in DOMAIN t : t[k].texts > 0 => k \in DOMAIN s /\ t[k] = s[k]
  BY <1>1
<1>3. \A k \in DOMAIN s : k \in DOMAIN t /\ t[k] = s[k]
  BY <1>1
<1>4. \A k \in DOMAIN s : \A j \in 1 .. k - 1 : j \in DOMAIN s /\ t[j] = s[j]
  BY <1>1
<1>5. ASSUME Transcribes(s, l) PROVE Transcribes(t, l)
  <2>1. ASSUME NEW k \in DOMAIN t, t[k].texts > 0
        PROVE  /\ t[k].line \in DOMAIN l
               /\ t[k].texts = l[t[k].line].texts
               /\ \A j \in 1 .. k - 1 : t[j].texts > 0 => t[j].line < t[k].line
    BY <1>2, <1>4, <1>5, <2>1 DEF Transcribes
  <2>2. ASSUME NEW i \in DOMAIN l, l[i].texts > 0
        PROVE  \E k \in DOMAIN t : t[k].line = i /\ t[k].texts > 0
    BY <1>3, <1>5, <2>2 DEF Transcribes
  <2> QED BY <2>1, <2>2 DEF Transcribes
<1>6. ASSUME Transcribes(t, l) PROVE Transcribes(s, l)
  <2>1. ASSUME NEW k \in DOMAIN s, s[k].texts > 0
        PROVE  /\ s[k].line \in DOMAIN l
               /\ s[k].texts = l[s[k].line].texts
               /\ \A j \in 1 .. k - 1 : s[j].texts > 0 => s[j].line < s[k].line
    BY <1>3, <1>4, <1>6, <2>1 DEF Transcribes
  <2>2. ASSUME NEW i \in DOMAIN l, l[i].texts > 0
        PROVE  \E k \in DOMAIN s : s[k].line = i /\ s[k].texts > 0
    BY <1>2, <1>6, <2>2 DEF Transcribes
  <2> QED BY <2>1, <2>2 DEF Transcribes
<1> QED BY <1>5, <1>6 DEF t

\* A line without text needs no chunk.
LEMMA TranscribesSilent ==
  ASSUME NEW s \in Seq(Events), NEW l \in Seq(LineType), NEW line \in LineType, line.texts = 0,
         Transcribes(s, l)
  PROVE  Transcribes(s, Append(l, line))
<1> DEFINE m == Append(l, line)
<1>1. /\ Len(l) \in Nat /\ DOMAIN l = 1 .. Len(l) /\ DOMAIN m = 1 .. Len(l) + 1
      /\ \A i \in 1 .. Len(l) : m[i] = l[i]
      /\ m[Len(l) + 1] = line
  BY AppendFacts
<1> HIDE DEF m
<1>2. \A i \in DOMAIN l : i \in DOMAIN m /\ m[i] = l[i]
  BY <1>1
<1>3. \A i \in DOMAIN m : m[i].texts > 0 => i \in DOMAIN l /\ m[i] = l[i]
  BY <1>1
<1>4. ASSUME NEW k \in DOMAIN s, s[k].texts > 0
      PROVE  /\ s[k].line \in DOMAIN m
             /\ s[k].texts = m[s[k].line].texts
             /\ \A j \in 1 .. k - 1 : s[j].texts > 0 => s[j].line < s[k].line
  BY <1>2, <1>4 DEF Transcribes
<1>5. ASSUME NEW i \in DOMAIN m, m[i].texts > 0
      PROVE  \E k \in DOMAIN s : s[k].line = i /\ s[k].texts > 0
  BY <1>3, <1>5 DEF Transcribes
<1>6. Transcribes(s, m)
  BY <1>4, <1>5 DEF Transcribes
<1> QED BY <1>6 DEF m

\* The text of the next line goes into the next chunk.
LEMMA TranscribesNext ==
  ASSUME NEW s \in Seq(Events), NEW l \in Seq(LineType), NEW line \in LineType, NEW e \in Events,
         Transcribes(s, l), e.texts = line.texts, e.line = Len(l) + 1
  PROVE  Transcribes(Append(s, e), Append(l, line))
<1> DEFINE m == Append(l, line)
           t == Append(s, e)
<1>1. /\ Len(l) \in Nat /\ DOMAIN l = 1 .. Len(l) /\ DOMAIN m = 1 .. Len(l) + 1
      /\ \A i \in 1 .. Len(l) : m[i] = l[i]
      /\ m[Len(l) + 1] = line
  BY AppendFacts
<1>2. /\ Len(s) \in Nat /\ DOMAIN s = 1 .. Len(s) /\ DOMAIN t = 1 .. Len(s) + 1
      /\ \A k \in 1 .. Len(s) : t[k] = s[k]
      /\ t[Len(s) + 1] = e
  BY AppendFacts
<1> HIDE DEF m, t
<1>3. \A k \in DOMAIN s : s[k].texts > 0 =>
        s[k].line \in 1 .. Len(l) /\ s[k].texts = l[s[k].line].texts
  BY <1>1 DEF Transcribes
<1>4. ASSUME NEW k \in DOMAIN t, t[k].texts > 0
      PROVE  /\ t[k].line \in DOMAIN m
             /\ t[k].texts = m[t[k].line].texts
             /\ \A j \in 1 .. k - 1 : t[j].texts > 0 => t[j].line < t[k].line
  <2>1. CASE k \in 1 .. Len(s)
    <3>1. t[k] = s[k] /\ \A j \in 1 .. k - 1 : t[j] = s[j]
      BY <1>2, <2>1
    <3>2. s[k].line \in 1 .. Len(l) /\ s[k].texts = l[s[k].line].texts
      BY <1>2, <1>3, <1>4, <2>1, <3>1
    <3>3. \A j \in 1 .. k - 1 : s[j].texts > 0 => s[j].line < s[k].line
      BY <1>2, <1>4, <2>1, <3>1 DEF Transcribes
    <3> QED BY <1>1, <3>1, <3>2, <3>3
  <2>2. CASE k = Len(s) + 1
    <3>1. t[k] = e /\ \A j \in 1 .. k - 1 : j \in DOMAIN s /\ t[j] = s[j]
      BY <1>2, <2>2
    <3>2. \A j \in 1 .. k - 1 : t[j].texts > 0 => t[j].line \in 1 .. Len(l)
      BY <1>3, <3>1
    <3> QED BY <1>1, <3>1, <3>2
  <2> QED BY <1>2, <2>1, <2>2
<1>5. ASSUME NEW i \in DOMAIN m, m[i].texts > 0
      PROVE  \E k \in DOMAIN t : t[k].line = i /\ t[k].texts > 0
  <2>1. CASE i \in 1 .. Len(l)
    <3>1. PICK k \in DOMAIN s : s[k].line = i /\ s[k].texts > 0
      BY <1>1, <1>5, <2>1 DEF Transcribes
    <3>2. k \in DOMAIN t /\ t[k] = s[k]
      BY <1>2, <3>1
    <3> QED BY <3>1, <3>2
  <2>2. CASE i = Len(l) + 1
    <3>1. Len(s) + 1 \in DOMAIN t /\ t[Len(s) + 1].line = i /\ t[Len(s) + 1].texts > 0
      BY <1>1, <1>2, <1>5, <2>2
    <3> QED BY <3>1
  <2> QED BY <1>1, <2>1, <2>2
<1>6. Transcribes(t, m)
  BY <1>4, <1>5 DEF Transcribes
<1> QED BY <1>6 DEF m, t
\* The chunks of a line say what the line says.
LEMMA TranslatedTranscribes ==
  ASSUME TypeOK, NEW line \in LineType, NEW s \in Seq(Events), Transcribes(s, upstream.sent)
  PROVE  /\ s \o Translated(line) \in Seq(Events)
         /\ Transcribes(s \o Translated(line), Append(upstream.sent, line))
<1> DEFINE n == Len(upstream.sent) + 1
           r == Delta(1, 0, "none")
           t == Delta(n, line.texts, line.reason)
           u == Delta(n, line.texts, "none")
           m == Append(upstream.sent, line)
<1>1. upstream.sent \in Seq(LineType) /\ n \in Nat /\ line.texts \in 0 .. 2 /\ line.reason \in Reasons
  BY DEF TypeOK, LineType, Reasons
<1>2. r \in Events /\ t \in Events /\ u \in Events
  BY <1>1, EventTypes DEF Reasons
<1>3. /\ r.texts = 0
      /\ t.texts = line.texts /\ t.line = n
      /\ u.texts = line.texts /\ u.line = n
  BY DEF Delta
<1>4. \/ Translated(line) = <<t>>
      \/ line.texts = 0 /\ Translated(line) \in {<<>>, <<r>>}
      \/ line.texts # 0 /\ n # 1 /\ Translated(line) = <<u>>
      \/ line.texts # 0 /\ n = 1 /\ Translated(line) = <<r, u>>
  BY TranslatedCases
<1>5. Translated(line) \in Seq(Events)
  BY TranslatedType
<1>6. s \o Translated(line) \in Seq(Events)
  BY <1>5
<1>7. m \in Seq(LineType)
  BY <1>1
<1>8. ASSUME NEW q \in Seq(Events), Transcribes(q, upstream.sent), NEW e \in {t, u}
      PROVE  Transcribes(Append(q, e), m)
  BY <1>1, <1>2, <1>3, <1>8, TranscribesNext
<1>9. Append(s, r) \in Seq(Events) /\ Transcribes(Append(s, r), upstream.sent)
  BY <1>1, <1>2, <1>3, TranscribesEmpty
<1>10. Transcribes(s \o Translated(line), m)
  <2> HIDE DEF n, r, t, u, m
  <2>1. CASE Translated(line) \in {<<t>>, <<u>>}
    <3>1. PICK e \in {t, u} : Translated(line) = <<e>>
      BY <2>1
    <3>2. s \o <<e>> = Append(s, e)
      BY <1>2
    <3>3. Transcribes(Append(s, e), m)
      BY <1>8
    <3> QED BY <3>1, <3>2, <3>3
  <2>2. CASE line.texts = 0 /\ Translated(line) \in {<<>>, <<r>>}
    <3>1. s \o <<>> = s /\ s \o <<r>> = Append(s, r)
      BY <1>2
    <3>2. s \o Translated(line) \in {s, Append(s, r)}
      BY <2>2, <3>1
    <3>3. \A q \in Seq(Events) : Transcribes(q, upstream.sent) => Transcribes(q, m)
      BY <1>1, <2>2, TranscribesSilent DEF m
    <3> QED BY <1>9, <3>2, <3>3
  <2>3. CASE Translated(line) = <<r, u>>
    <3>1. s \o <<r, u>> = Append(Append(s, r), u)
      BY <1>2
    <3>2. Transcribes(Append(Append(s, r), u), m)
      BY <1>8, <1>9
    <3> QED BY <2>3, <3>1, <3>2
  <2> QED BY <1>4, <2>1, <2>2, <2>3
<1> QED BY <1>6, <1>10

LEMMA ConcatAppend ==
  ASSUME NEW S, NEW s \in Seq(S), NEW q \in Seq(S), NEW e \in S
  PROVE  s \o Append(q, e) = Append(s \o q, e)
OBVIOUS

LEMMA ConcatAssociates ==
  ASSUME NEW S, NEW s \in Seq(S), NEW q \in Seq(S), NEW t \in Seq(S)
  PROVE  (s \o q) \o t = s \o (q \o t)
OBVIOUS

\* If there is a done event in s, it is the last one.
DoneIsLast(s) == \A i \in DOMAIN s : s[i].type = "done" => i = Len(s) /\ s[i] = Done
NoDone(s) == \A i \in DOMAIN s : s[i].type # "done"

\* What the provider emits continues what it has emitted before, and a done event
\* comes last, once the upstream server has said that it is done.
LEMMA RelaysTranscribe ==
  ASSUME TypeOK, Relays, prov.out = <<>>, NEW s \in Seq(Events)
  PROVE  /\ prov'.out \in Seq(Events)
         /\ Transcribes(s, upstream.sent) => Transcribes(s \o prov'.out, upstream'.sent)
         /\ DoneIsLast(prov'.out)
         /\ NoDone(prov'.out) \/ (prov'.then = "ok" /\ Announced')
<1>1. upstream.sent \in Seq(LineType)
  BY DEF TypeOK
<1>2. Done \in Events /\ Error \in Events /\ Done.texts = 0 /\ Error.texts = 0
  BY EventTypes DEF Done, Error, Event
<1>3. Done.type = "done" /\ Error.type # "done"
  BY DEF Done, Error, Event
<1>4. CASE prov' = [prov EXCEPT !.at = "reading"] /\ upstream'.sent = upstream.sent
  <2>1. prov'.out = <<>>
    BY <1>4 DEF TypeOK, Goroutines
  <2>2. s \o <<>> = s /\ <<>> \in Seq(Events)
    OBVIOUS
  <2>3. DoneIsLast(<<>>) /\ NoDone(<<>>)
    BY DEF DoneIsLast, NoDone
  <2> QED BY <1>4, <2>1, <2>2, <2>3
<1>5. CASE /\ Emit(<<>>, "open") \/ Emit(<<>>, "ok") \/ Emit(<<Error>>, "err")
           /\ upstream'.sent = upstream.sent
  <2>1. prov'.out \in {<<>>, <<Error>>}
    BY <1>5 DEF Emit
  <2>2. s \o <<>> = s /\ s \o <<Error>> = Append(s, Error)
    BY <1>2
  <2>5. Transcribes(s, upstream.sent) => Transcribes(Append(s, Error), upstream.sent)
    BY <1>1, <1>2, TranscribesEmpty
  <2>3. Transcribes(s, upstream.sent) => Transcribes(s \o prov'.out, upstream.sent)
    BY <2>1, <2>2, <2>5
  <2>6. DoneIsLast(<<>>) /\ NoDone(<<>>) /\ <<>> \in Seq(Events)
    BY DEF DoneIsLast, NoDone
  <2>7. DoneIsLast(<<Error>>) /\ NoDone(<<Error>>) /\ <<Error>> \in Seq(Events)
    BY <1>2, <1>3 DEF DoneIsLast, NoDone
  <2>4. DoneIsLast(prov'.out) /\ NoDone(prov'.out) /\ prov'.out \in Seq(Events)
    BY <2>1, <2>6, <2>7
  <2> QED BY <1>5, <2>3, <2>4
<1>6. CASE Emit(<<Done>>, "ok") /\ upstream'.sent = upstream.sent /\ Announced'
  <2>1. prov'.out = <<Done>> /\ prov'.then = "ok"
    BY <1>6 DEF Emit
  <2>2. s \o <<Done>> = Append(s, Done)
    BY <1>2
  <2>5. Transcribes(s, upstream.sent) => Transcribes(Append(s, Done), upstream.sent)
    BY <1>1, <1>2, TranscribesEmpty
  <2>3. Transcribes(s, upstream.sent) => Transcribes(s \o prov'.out, upstream.sent)
    BY <2>1, <2>2, <2>5
  <2>4. DoneIsLast(prov'.out) /\ prov'.out \in Seq(Events)
    BY <1>2, <2>1 DEF DoneIsLast
  <2> QED BY <1>6, <2>1, <2>3, <2>4
<1>7. ASSUME NEW line \in LineType, upstream'.sent = Append(upstream.sent, line),
             \/ Emit(Translated(line), "read")
             \/ Emit(Translated(line) \o Closing(line), "ok") /\ Announced'
      PROVE  /\ prov'.out \in Seq(Events)
             /\ Transcribes(s, upstream.sent) => Transcribes(s \o prov'.out, upstream'.sent)
             /\ DoneIsLast(prov'.out)
             /\ NoDone(prov'.out) \/ (prov'.then = "ok" /\ Announced')
  <2> DEFINE d == Delta(Len(upstream.sent) + 1, 0, OrStop(line.reason))
             T == Translated(line)
             m == Append(upstream.sent, line)
  <2>1. /\ T \in Seq(Events) /\ s \o T \in Seq(Events) /\ m \in Seq(LineType)
        /\ Transcribes(s, upstream.sent) => Transcribes(s \o T, m)
    <3>1. T \in Seq(Events)
      BY TranslatedType
    <3>2. Transcribes(s, upstream.sent) => Transcribes(s \o T, m)
      BY TranslatedTranscribes
    <3> HIDE DEF T
    <3> QED BY <1>1, <3>1, <3>2
  <2>2. d \in Events /\ d.texts = 0 /\ d.type = "raw"
    <3>1. OrStop(line.reason) \in Reasons /\ Len(upstream.sent) + 1 \in Nat
      BY <1>1 DEF LineType, OrStop, Reasons
    <3> QED BY <3>1, EventTypes DEF Delta
  <2>3. \A i \in DOMAIN T : T[i].type = "raw"
    <3> DEFINE n == Len(upstream.sent) + 1
               r == Delta(1, 0, "none")
               t == Delta(n, line.texts, line.reason)
               u == Delta(n, line.texts, "none")
    <3>1. r.type = "raw" /\ t.type = "raw" /\ u.type = "raw"
      BY DEF Delta
    <3>2. T \in {<<t>>, <<>>, <<r>>, <<u>>, <<r, u>>}
      BY TranslatedCases
    <3> HIDE DEF r, t, u, T
    <3> QED BY <3>1, <3>2
  <2>4. Closing(line) = <<d, Done>>
    BY DEF Closing
  <2> HIDE DEF d, T, m
  <2>5. CASE Emit(T, "read")
    <3>1. prov'.out = T
      BY <2>5 DEF Emit
    <3>2. DoneIsLast(T) /\ NoDone(T)
      BY <2>3 DEF DoneIsLast, NoDone
    <3> QED BY <1>7, <2>1, <3>1, <3>2 DEF m
  <2>6. CASE Emit(T \o <<d, Done>>, "ok") /\ Announced'
    <3>1. prov'.out = T \o <<d, Done>> /\ prov'.then = "ok"
      BY <2>6 DEF Emit
    <3>2. T \o <<d, Done>> = Append(Append(T, d), Done)
      BY <1>2, <2>1, <2>2
    <3>3. Append(T, d) \in Seq(Events) /\ Append(Append(T, d), Done) \in Seq(Events)
      BY <1>2, <2>1, <2>2
    <3>4. s \o (T \o <<d, Done>>) = Append(Append(s \o T, d), Done)
      <4>1. s \o Append(T, d) = Append(s \o T, d)
        BY <2>1, <2>2, ConcatAppend
      <4>3. \A q \in Seq(Events) : s \o Append(q, Done) = Append(s \o q, Done)
        BY <1>2, ConcatAppend
      <4>2. s \o Append(Append(T, d), Done) = Append(s \o Append(T, d), Done)
        BY <3>3, <4>3
      <4> QED BY <3>2, <4>1, <4>2
    <3>5. Transcribes(s, upstream.sent) => Transcribes(Append(Append(s \o T, d), Done), m)
      <4>1. /\ Append(s \o T, d) \in Seq(Events)
            /\ Transcribes(s, upstream.sent) => Transcribes(Append(s \o T, d), m)
        <5>1. Transcribes(Append(s \o T, d), m) <=> Transcribes(s \o T, m)
          BY <2>1, <2>2, TranscribesEmpty
        <5> QED BY <2>1, <2>2, <5>1
      <4> QED BY <1>2, <2>1, <4>1, TranscribesEmpty
    <3>6. DoneIsLast(Append(Append(T, d), Done))
      <4> DEFINE q == Append(T, d)
      <4>1. \A i \in 1 .. Len(q) : q[i].type = "raw"
        BY <2>1, <2>2, <2>3
      <4> HIDE DEF q
      <4>2. /\ DOMAIN Append(q, Done) = 1 .. Len(q) + 1 /\ Len(q) \in Nat
            /\ \A i \in 1 .. Len(q) : Append(q, Done)[i] = q[i]
            /\ Append(q, Done)[Len(q) + 1] = Done /\ Len(Append(q, Done)) = Len(q) + 1
        BY <1>2, <3>3 DEF q
      <4>3. DoneIsLast(Append(q, Done))
        BY <4>1, <4>2 DEF DoneIsLast
      <4> QED BY <4>3 DEF q
    <3> QED BY <1>7, <2>6, <3>1, <3>2, <3>3, <3>4, <3>5, <3>6 DEF m
  <2> QED BY <1>7, <2>4, <2>5, <2>6 DEF T
<1> QED BY <1>4, <1>5, <1>6, <1>7 DEF Relays
\* What has been sent to the handler of a stream, and what has not, make up what
\* the upstream server has said; a done event is the last that will be sent.
Flowing ==
  /\ prov.at \in {"request", "reading"} => prov.out = <<>>
  /\ sse => /\ handler = "range" => Transcribes(written \o Due, upstream.sent)
            /\ DoneIsLast(Due)
            /\ NoDone(Due) \/ (prov.then = "ok" /\ Announced)
            /\ status = "completed" => /\ handler = "ended" /\ prov.then = "ok" /\ Announced
                                       /\ Transcribes(written, upstream.sent)

\* An event that changes places does not change the whole.
LEMMA Shift ==
  ASSUME NEW S, NEW s \in Seq(S), NEW q \in Seq(S), q # <<>>
  PROVE  Append(s, Head(q)) \o Tail(q) = s \o q
OBVIOUS

LEMMA DoneConcat ==
  ASSUME NEW s \in Seq(Events), NEW q \in Seq(Events), NoDone(s), DoneIsLast(q)
  PROVE  DoneIsLast(s \o q) /\ (NoDone(q) => NoDone(s \o q))
<1> DEFINE t == s \o q
<1>1. /\ Len(s) \in Nat /\ Len(q) \in Nat /\ Len(t) = Len(s) + Len(q) /\ DOMAIN t = 1 .. Len(t)
      /\ DOMAIN s = 1 .. Len(s) /\ DOMAIN q = 1 .. Len(q)
      /\ \A i \in 1 .. Len(t) : t[i] = IF i <= Len(s) THEN s[i] ELSE q[i - Len(s)]
  BY ConcatProperties
<1> HIDE DEF t
<1>2. ASSUME NEW i \in DOMAIN t
      PROVE  t[i].type # "done" \/ (i - Len(s) \in DOMAIN q /\ t[i] = q[i - Len(s)])
  <2>1. CASE i <= Len(s)
    BY <1>1, <2>1 DEF NoDone
  <2>2. CASE ~(i <= Len(s))
    BY <1>1, <2>2
  <2> QED BY <2>1, <2>2
<1>3. ASSUME NEW i \in DOMAIN t, t[i].type = "done" PROVE i = Len(t) /\ t[i] = Done
  BY <1>1, <1>2, <1>3 DEF DoneIsLast
<1>4. ASSUME NoDone(q), NEW i \in DOMAIN t PROVE t[i].type # "done"
  BY <1>2, <1>4 DEF NoDone
<1>5. DoneIsLast(t) /\ (NoDone(q) => NoDone(t))
  BY <1>3, <1>4 DEF DoneIsLast, NoDone
<1> QED BY <1>5 DEF t

LEMMA DoneTail ==
  ASSUME NEW s \in Seq(Events), s # <<>>, DoneIsLast(s)
  PROVE  /\ DoneIsLast(Tail(s)) /\ (NoDone(s) => NoDone(Tail(s)))
         /\ Head(s).type = "done" => s = <<Done>>
<1>1. /\ Len(s) \in Nat /\ Len(Tail(s)) = Len(s) - 1 /\ 1 \in DOMAIN s /\ Head(s) = s[1]
      /\ \A i \in DOMAIN Tail(s) : i \in Nat /\ i + 1 \in DOMAIN s /\ Tail(s)[i] = s[i + 1]
  OBVIOUS
<1>2. DoneIsLast(Tail(s))
  BY <1>1 DEF DoneIsLast
<1>3. NoDone(s) => NoDone(Tail(s))
  BY <1>1 DEF NoDone
<1>4. ASSUME Head(s).type = "done" PROVE s = <<Done>>
  <2>1. Len(s) = 1 /\ s[1] = Done
    BY <1>1, <1>4 DEF DoneIsLast
  <2> QED BY <2>1
<1> QED BY <1>2, <1>3, <1>4

LEMMA FlowingInit == Init => Flowing
<1> SUFFICES ASSUME Init PROVE Flowing
  OBVIOUS
<1>1. /\ prov.out = <<>> /\ events = <<>> /\ written = <<>> /\ upstream.sent = <<>>
      /\ status = "running"
  BY DEF Init
<1>2. <<>> \o <<>> = <<>>
  OBVIOUS
<1>3. Transcribes(<<>>, <<>>) /\ DoneIsLast(<<>>) /\ NoDone(<<>>)
  BY DEF Transcribes, DoneIsLast, NoDone
<1> QED BY <1>1, <1>2, <1>3 DEF Flowing, Due

LEMMA FlowingNext == TypeOK /\ Settling /\ Flowing /\ [Next]_vars => Flowing'
<1> SUFFICES ASSUME TypeOK, ProviderInOrder, Flowing, [Next]_vars PROVE Flowing'
  BY DEF Settling
<1> USE DEF request, channel, client
<1>0. /\ sse' = sse
      /\ events \in Seq(Events) /\ prov.out \in Seq(Events) /\ Due \in Seq(Events)
      /\ upstream.sent \in Seq(LineType) /\ written \in Seq(Events)
  <2>1. sse' = sse
    BY DEF Next, vars, ProviderStep, Request, ReadStream, ReadWhole, Expire, Send, Return,
           HandlerStep, Take, RangeEnds, Result, Disconnect,
           DeleteStep, CancelGet, CancelUpdate, CancelPublish, ApplyCancelled
  <2> QED BY <2>1, DueType
<1>1. CASE Request \/ ReadStream \/ ReadWhole \/ Expire
  <2>1. prov.at \in {"request", "reading"} /\ UNCHANGED <<sse, events, handler, written, status>>
    BY <1>1 DEF Request, ReadStream, ReadWhole, Expire
  <2>2. prov.out = <<>> /\ prov.then = "read"
    BY <2>1 DEF Flowing, ProviderInOrder
  <2>3. prov'.at \in {"request", "reading"} => prov'.out = <<>>
    <3>1. \/ prov' = [prov EXCEPT !.at = "reading"]
          \/ \E out, then : Emit(out, then)
      <4>1. CASE Request
        BY <4>1 DEF Request, Refuse
      <4>2. CASE ReadStream
        BY <4>2 DEF ReadStream, Finish, EndOfFile
      <4>3. CASE ReadWhole
        BY <4>3 DEF ReadWhole
      <4>4. CASE Expire
        BY <4>4 DEF Expire
      <4> QED BY <1>1, <4>1, <4>2, <4>3, <4>4
    <3>2. CASE prov' = [prov EXCEPT !.at = "reading"]
      BY <2>2, <3>2 DEF TypeOK, Goroutines
    <3>3. ASSUME NEW out, NEW then, Emit(out, then) PROVE prov'.at = "sending"
      BY <3>3 DEF Emit
    <3> QED BY <3>1, <3>2, <3>3
  <2>4. ASSUME sse
        PROVE  /\ handler' = "range" => Transcribes(written' \o Due', upstream'.sent)
               /\ DoneIsLast(Due')
               /\ NoDone(Due') \/ (prov'.then = "ok" /\ Announced')
               /\ status' # "completed"
    <3>1. Relays
      BY <1>1, <2>4, StreamRelays
    <3>2. Due = events /\ Due' = events \o prov'.out
      BY <1>0, <2>1, <2>2 DEF Due
    <3>3. NoDone(events) /\ status # "completed"
      BY <2>2, <2>4, <3>2 DEF Flowing
    <3>4. written \o events \in Seq(Events)
      BY <1>0
    <3>5. /\ prov'.out \in Seq(Events)
          /\ Transcribes(written \o events, upstream.sent)
               => Transcribes((written \o events) \o prov'.out, upstream'.sent)
          /\ DoneIsLast(prov'.out)
          /\ NoDone(prov'.out) \/ (prov'.then = "ok" /\ Announced')
      BY <2>2, <3>1, <3>4, RelaysTranscribe
    <3>6. (written \o events) \o prov'.out = written \o (events \o prov'.out)
      <4>1. \A s, q, t \in Seq(Events) : (s \o q) \o t = s \o (q \o t)
        BY ConcatAssociates
      <4>2. written \in Seq(Events) /\ events \in Seq(Events) /\ prov'.out \in Seq(Events)
        BY <1>0, <3>5
      <4> QED BY <4>1, <4>2
    <3>7. DoneIsLast(events \o prov'.out) /\ (NoDone(prov'.out) => NoDone(events \o prov'.out))
      BY <1>0, <3>3, <3>5, DoneConcat
    <3>8. handler' = "range" => Transcribes(written \o events, upstream.sent)
      BY <2>1, <2>4, <3>2 DEF Flowing
    <3>9. handler' = "range" => Transcribes(written' \o Due', upstream'.sent)
      BY <2>1, <3>2, <3>5, <3>6, <3>8
    <3> QED BY <2>1, <3>2, <3>3, <3>5, <3>7, <3>9
  <2> QED BY <1>0, <2>3, <2>4 DEF Flowing
<1>2. ASSUME UNCHANGED <<provider, upstream>>, Due' = Due, prov'.then = prov.then,
             prov'.at \in {"request", "reading"} => prov'.out = <<>>,
             UNCHANGED written, handler' = handler \/ handler' \in {"result", "ended"},
             sse => status' = status \/ status' = "cancelled",
             handler' = handler \/ handler \in {"range", "result"}
      PROVE  Flowing'
  <2>1. Announced' <=> Announced
    BY <1>2 DEF Announced
  <2>2. ASSUME sse
        PROVE  /\ handler' = "range" => Transcribes(written' \o Due', upstream'.sent)
               /\ DoneIsLast(Due')
               /\ NoDone(Due') \/ (prov'.then = "ok" /\ Announced')
               /\ status' = "completed" => /\ handler' = "ended" /\ prov'.then = "ok" /\ Announced'
                                           /\ Transcribes(written', upstream'.sent)
    <3>1. handler' = "range" => handler = "range"
      BY <1>2
    <3>2. status' = "completed" => status = "completed"
      BY <1>2, <2>2
    <3> QED BY <1>2, <2>1, <2>2, <3>1, <3>2 DEF Flowing
  <2> QED BY <1>0, <1>2, <2>2 DEF Flowing
<1>3. CASE UNCHANGED vars
  <2>1. Due' = Due
    BY <1>3 DEF Due, vars
  <2> QED BY <1>2, <1>3, <2>1 DEF vars, Flowing
<1>4. CASE Send
  <2>1. /\ prov.out # <<>> /\ prov.at = "sending"
        /\ events' = Append(events, Head(prov.out)) /\ prov' = [prov EXCEPT !.out = Tail(@)]
        /\ UNCHANGED <<provider, upstream, written, handler, status>>
    BY <1>4 DEF Send
  <2>2. prov'.out = Tail(prov.out) /\ prov'.at = "sending" /\ prov'.then = prov.then
    BY <2>1 DEF TypeOK, Goroutines
  <2>3. Append(events, Head(prov.out)) \o Tail(prov.out) = events \o prov.out
    BY <1>0, <2>1, Shift
  <2>4. Due' = Due
    BY <2>1, <2>2, <2>3 DEF Due
  <2> QED BY <1>2, <2>1, <2>2, <2>4
<1>5. CASE Return
  <2>1. prov'.out = prov.out /\ prov.out = <<>> /\ prov'.then = prov.then
    BY <1>5 DEF Return, TypeOK, Goroutines
  <2>2. UNCHANGED <<provider, upstream, events, written, handler, status>>
    BY <1>5 DEF Return
  <2>3. Due' = Due
    BY <2>1, <2>2 DEF Due
  <2> QED BY <1>2, <2>1, <2>2, <2>3
<1>6. CASE Take
  <2>0. /\ handler = "range" /\ events # <<>> /\ events' = Tail(events)
        /\ UNCHANGED <<provider, upstream, prov>>
    BY <1>6 DEF Take
  <2>1. /\ Due # <<>> /\ Head(Due) = Head(events) /\ Tail(Due) = Tail(events) \o prov.out
    BY <1>0, <2>0 DEF Due
  <2>2. Due' = Tail(Due)
    BY <2>0, <2>1 DEF Due
  <2>3. prov'.at \in {"request", "reading"} => prov'.out = <<>>
    BY <2>0 DEF Flowing
  <2>4. Announced' <=> Announced
    BY <2>0 DEF Announced
  <2>5. ASSUME sse
        PROVE  /\ handler' = "range" => Transcribes(written' \o Due', upstream'.sent)
               /\ DoneIsLast(Due')
               /\ NoDone(Due') \/ (prov'.then = "ok" /\ Announced')
               /\ status' = "completed" => /\ handler' = "ended" /\ prov'.then = "ok" /\ Announced'
                                           /\ Transcribes(written', upstream'.sent)
    <3>1. /\ Transcribes(written \o Due, upstream.sent) /\ DoneIsLast(Due) /\ status # "completed"
          /\ NoDone(Due) \/ (prov.then = "ok" /\ Announced)
      BY <2>0, <2>5 DEF Flowing
    <3>2. DoneIsLast(Due') /\ (NoDone(Due) => NoDone(Due'))
      BY <1>0, <2>1, <2>2, <3>1, DoneTail
    <3>3. NoDone(Due') \/ (prov'.then = "ok" /\ Announced')
      BY <2>0, <2>4, <3>1, <3>2
    <3>4. StreamEvent(Head(Due)) /\ Head(Due) \in Events
      BY <1>0, <1>6, <2>1, <2>5 DEF Take
    <3>5. Head(Due).type \in {"raw", "done", "error"}
      BY <3>4 DEF Events
    <3>6. CASE Head(Due).type = "raw"
      <4>1. \/ written' = Append(written, Head(Due)) /\ status' = status
            \/ handler' = "ended" /\ status' = status
        BY <3>4, <3>6 DEF StreamEvent
      <4>2. Append(written, Head(Due)) \o Tail(Due) = written \o Due
        BY <1>0, <2>1, Shift
      <4>3. handler' = "range" => Transcribes(written' \o Due', upstream'.sent)
        BY <2>0, <2>2, <3>1, <4>1, <4>2
      <4> QED BY <3>1, <3>2, <3>3, <4>1, <4>3
    <3>7. CASE Head(Due).type = "done"
      <4>1. handler' = "ended" /\ written' = written
        BY <3>4, <3>7 DEF StreamEvent
      <4>2. Due = <<Done>>
        BY <1>0, <2>1, <3>1, <3>7, DoneTail
      <4>3. prov.then = "ok" /\ Announced
        <5>1. ~NoDone(Due)
          BY <4>2 DEF NoDone, Done, Event
        <5> QED BY <3>1, <5>1
      <4>4. Transcribes(written, upstream.sent)
        <5>1. Done \in Events /\ Done.texts = 0
          BY EventTypes DEF Done, Event
        <5>2. written \o <<Done>> = Append(written, Done)
          BY <1>0, <5>1
        <5>3. Transcribes(Append(written, Done), upstream.sent) <=> Transcribes(written, upstream.sent)
          BY <1>0, <5>1, TranscribesEmpty
        <5> QED BY <3>1, <4>2, <5>2, <5>3
      <4> QED BY <2>0, <2>4, <3>2, <3>3, <4>1, <4>3, <4>4
    <3>8. CASE Head(Due).type = "error"
      <4>1. handler' = "ended" /\ status' = "failed"
        BY <3>4, <3>8 DEF StreamEvent, OnError
      <4> QED BY <3>2, <3>3, <4>1
    <3> QED BY <3>5, <3>6, <3>7, <3>8
  <2> QED BY <1>0, <2>3, <2>5 DEF Flowing
<1>7. CASE RangeEnds \/ Result \/ Disconnect \/ DeleteStep
  <2>1. /\ UNCHANGED <<provider, upstream, events, prov, written>>
        /\ handler' = handler \/ handler' \in {"result", "ended"}
        /\ handler' = handler \/ handler \in {"range", "result"}
    BY <1>7 DEF RangeEnds, Result, Disconnect, DeleteStep, CancelGet, CancelUpdate, CancelPublish,
                ApplyCancelled
  <2>2. sse => status' = status \/ status' = "cancelled"
    BY <1>7 DEF RangeEnds, Result, Disconnect, DeleteStep, CancelGet, CancelUpdate, CancelPublish,
                ApplyCancelled
  <2>3. Due' = Due
    BY <2>1 DEF Due
  <2> QED BY <1>2, <2>1, <2>2, <2>3 DEF Flowing
<1> QED BY <1>1, <1>3, <1>4, <1>5, <1>6, <1>7 DEF Next, ProviderStep, HandlerStep

\* A stream whose job is completed is a whole one, whenever a DELETE came: the
\* server was at its end, and the client was sent all that it had said.
THEOREM CompletedStreamsAreWhole == Spec => []CompletedIsWhole
<1>1. Flowing => CompletedIsWhole
  BY DEF Flowing, CompletedIsWhole
<1>2. Spec => []TypeOK
  BY DirectTypeCorrect
<1>3. Spec => []Settling
  BY <1>2, SettlingInit, SettlingNext, PTL DEF Spec
<1> QED BY <1>1, <1>2, <1>3, FlowingInit, FlowingNext, PTL DEF Spec
-----------------------------------------------------------------------------
(* Sequences of a few elements.                                              *)

LEMMA OneAppend ==
  ASSUME NEW c, NEW d
  PROVE  Append(<<c>>, d) = <<c, d>>
<1>1. /\ <<c>> \in Seq({c, d}) /\ Len(<<c>>) = 1 /\ <<c>>[1] = c
      /\ <<c, d>> \in Seq({c, d}) /\ Len(<<c, d>>) = 2 /\ <<c, d>>[1] = c /\ <<c, d>>[2] = d
  BY PairType
<1>2. /\ Append(<<c>>, d) \in Seq({c, d}) /\ Len(Append(<<c>>, d)) = 2
      /\ Append(<<c>>, d)[1] = c /\ Append(<<c>>, d)[2] = d
  BY <1>1, AppendProperties
<1>3. \A i \in 1 .. 2 : i = 1 \/ i = 2
  OBVIOUS
<1>4. \A i \in 1 .. Len(Append(<<c>>, d)) : Append(<<c>>, d)[i] = <<c, d>>[i]
  BY <1>1, <1>2, <1>3
<1>5. Len(Append(<<c>>, d)) = Len(<<c, d>>)
  BY <1>1, <1>2
<1> QED BY <1>1, <1>2, <1>4, <1>5, SeqEqual

LEMMA TwoAppend ==
  ASSUME NEW c, NEW d, NEW e
  PROVE  Append(<<c, d>>, e) = <<c, d, e>>
<1>1. /\ <<c, d>> \in Seq({c, d, e}) /\ Len(<<c, d>>) = 2 /\ <<c, d>>[1] = c /\ <<c, d>>[2] = d
  BY PairType
<1>2. /\ <<c, d, e>> \in Seq({c, d, e}) /\ Len(<<c, d, e>>) = 3
      /\ <<c, d, e>>[1] = c /\ <<c, d, e>>[2] = d /\ <<c, d, e>>[3] = e
  OBVIOUS
<1>3. /\ Append(<<c, d>>, e) \in Seq({c, d, e}) /\ Len(Append(<<c, d>>, e)) = 3
      /\ Append(<<c, d>>, e)[1] = c /\ Append(<<c, d>>, e)[2] = d /\ Append(<<c, d>>, e)[3] = e
  BY <1>1, AppendProperties
<1>4. \A i \in 1 .. 3 : i = 1 \/ i = 2 \/ i = 3
  OBVIOUS
<1>5. \A i \in 1 .. Len(Append(<<c, d>>, e)) : Append(<<c, d>>, e)[i] = <<c, d, e>>[i]
  BY <1>2, <1>3, <1>4
<1>6. Len(Append(<<c, d>>, e)) = Len(<<c, d, e>>)
  BY <1>2, <1>3
<1> QED BY <1>2, <1>3, <1>5, <1>6, SeqEqual

LEMMA TwoTail ==
  ASSUME NEW c, NEW d
  PROVE  Head(<<c, d>>) = c /\ Tail(<<c, d>>) = <<d>>
OBVIOUS

LEMMA ThreeTail ==
  ASSUME NEW c, NEW d, NEW e
  PROVE  Head(<<c, d, e>>) = c /\ Tail(<<c, d, e>>) = <<d, e>>
OBVIOUS
-----------------------------------------------------------------------------
(* What completeDirectJSON makes of an answer in one piece is that answer.   *)

Chunk(c) == c \in Events /\ c.type = "raw"

\* What is still due after a has been absorbed makes the answer m of it.
Makes(a, due, m) ==
  \/ due \in {<<>>, <<Done>>} /\ a = m
  \/ \E c \in Events : Chunk(c) /\ due = <<c, Done>> /\ absorb(a, c) = m
  \/ \E c, d \in Events : Chunk(c) /\ Chunk(d) /\ due = <<c, d, Done>> /\ absorb(absorb(a, c), d) = m

\* The server has given one line in answer, which is in the handler's accumulator
\* or in the events due to it.
InOnePiece ==
  upstream.end = "done" /\ \E line \in LineType : upstream.sent = <<line>> /\ Makes(acc, Due, Meant(line))

AnswerIsMeant ==
  prov.then = "ok" /\ upstream.end = "done"
  /\ \E line \in LineType : upstream.sent = <<line>> /\ answer = Meant(line)

Collecting ==
  /\ done = "ok" => prov.at = "returned" /\ prov.then = "ok"
  /\ sse => answer = NoAnswer
  /\ answer # NoAnswer => AnswerIsMeant
  /\ ~sse => /\ prov.then = "read" => Due = <<>> /\ acc = NoAnswer /\ answer = NoAnswer
             /\ prov.then = "ok" => InOnePiece
             /\ handler = "result" => prov.at = "returned" /\ Due = <<>>

LEMMA WholeMakes ==
  ASSUME NEW line \in Lines \cup LastLines
  PROVE  Makes(NoAnswer, Append(Whole(line), Done), Meant(line))
<1> DEFINE r == OrStop(line.reason)
           c == Delta(1, 1, "none")
           d == Delta(1, 0, r)
           e == [Delta(1, line.texts, r) EXCEPT !.form = "message"]
<1>1. line.texts \in 0 .. 2 /\ line.reason \in {"none", "length"} /\ r \in Reasons /\ r # "none"
  BY DEF Lines, LastLines, OrStop, Reasons
<1>2. c \in Events /\ d \in Events
  BY <1>1, EventTypes DEF Reasons
<1>3. e \in Events
  BY <1>1 DEF Delta, Events
<1>4. Chunk(c) /\ Chunk(d) /\ Chunk(e)
  BY <1>2, <1>3 DEF Chunk, Delta
<1>5. Whole(line) = IF provider = "openai" THEN (IF line.texts = 0 THEN <<>> ELSE <<c>>) \o <<d>>
                    ELSE <<e>>
  BY DEF Whole
<1>6. Meant(line) = [content |-> IF line.texts > 0 THEN <<<<1, 1>>>> ELSE <<>>, finish |-> r]
  BY DEF Meant
<1>7. NoAnswer = [content |-> <<>>, finish |-> "none"]
  BY DEF NoAnswer
<1>8. /\ c.texts = 1 /\ c.line = 1 /\ c.reason = "none"
      /\ d.texts = 0 /\ d.line = 1 /\ d.reason = r
      /\ e.texts = line.texts /\ e.line = 1 /\ e.reason = r
  BY DEF Delta
<1> HIDE DEF c, d, e, r
<1>9. Append(<<>>, <<1, 1>>) = <<<<1, 1>>>>
  OBVIOUS
<1>10. absorb(NoAnswer, d) = [content |-> <<>>, finish |-> r]
  BY <1>1, <1>7, <1>8 DEF absorb
<1>11. absorb(NoAnswer, c) = [content |-> <<<<1, 1>>>>, finish |-> "none"]
  BY <1>7, <1>8, <1>9 DEF absorb
<1>12. absorb([content |-> <<<<1, 1>>>>, finish |-> "none"], d) = [content |-> <<<<1, 1>>>>, finish |-> r]
  BY <1>1, <1>8 DEF absorb
<1>13. absorb(NoAnswer, e) = [content |-> IF line.texts > 0 THEN <<<<1, 1>>>> ELSE <<>>, finish |-> r]
  BY <1>1, <1>7, <1>8, <1>9 DEF absorb
<1>14. CASE provider = "openai" /\ line.texts = 0
  <2>1. Whole(line) = <<d>>
    BY <1>5, <1>14, EmptyBefore
  <2>2. Append(<<d>>, Done) = <<d, Done>>
    BY OneAppend
  <2>3. Meant(line) = absorb(NoAnswer, d)
    BY <1>1, <1>6, <1>10, <1>14
  <2> QED BY <1>2, <1>4, <2>1, <2>2, <2>3 DEF Makes
<1>15. CASE provider = "openai" /\ line.texts # 0
  <2>1. Whole(line) = <<c, d>>
    BY <1>5, <1>15, OneAfter
  <2>2. Append(<<c, d>>, Done) = <<c, d, Done>>
    BY TwoAppend
  <2>3. Meant(line) = absorb(absorb(NoAnswer, c), d)
    BY <1>1, <1>6, <1>11, <1>12, <1>15
  <2> QED BY <1>2, <1>4, <2>1, <2>2, <2>3 DEF Makes
<1>16. CASE provider # "openai"
  <2>1. Whole(line) = <<e>>
    BY <1>5, <1>16
  <2>2. Append(<<e>>, Done) = <<e, Done>>
    BY OneAppend
  <2>3. Meant(line) = absorb(NoAnswer, e)
    BY <1>6, <1>13
  <2> QED BY <1>3, <1>4, <2>1, <2>2, <2>3 DEF Makes
<1> QED BY <1>14, <1>15, <1>16

\* To absorb the next chunk changes the parts and not the whole.
LEMMA MakesTail ==
  ASSUME NEW a, NEW m, NEW s \in Seq(Events), s # <<>>, Makes(a, s, m)
  PROVE  Makes(IF Head(s).type = "raw" THEN absorb(a, Head(s)) ELSE a, Tail(s), m)
<1>1. Done.type # "raw"
  BY DEF Done, Event
<1>2. CASE s = <<Done>> /\ a = m
  <2>1. Head(s) = Done /\ Tail(s) = <<>>
    BY <1>2
  <2> QED BY <1>1, <1>2, <2>1 DEF Makes
<1>3. ASSUME NEW c \in Events, Chunk(c), s = <<c, Done>>, absorb(a, c) = m
      PROVE  Makes(IF Head(s).type = "raw" THEN absorb(a, Head(s)) ELSE a, Tail(s), m)
  <2>1. Head(s) = c /\ Tail(s) = <<Done>>
    BY <1>3, TwoTail
  <2> QED BY <1>3, <2>1 DEF Makes, Chunk
<1>4. ASSUME NEW c \in Events, NEW d \in Events, Chunk(c), Chunk(d), s = <<c, d, Done>>,
             absorb(absorb(a, c), d) = m
      PROVE  Makes(IF Head(s).type = "raw" THEN absorb(a, Head(s)) ELSE a, Tail(s), m)
  <2>1. Head(s) = c /\ Tail(s) = <<d, Done>>
    BY <1>4, ThreeTail
  <2> QED BY <1>4, <2>1 DEF Makes, Chunk
<1> QED BY <1>2, <1>3, <1>4 DEF Makes
LEMMA EmptyTwice == <<>> \o <<>> = <<>>
OBVIOUS
\* With nothing left to come, the accumulator is the answer.
LEMMA MadeOfAll ==
  ASSUME NEW a, NEW m, Makes(a, <<>>, m)
  PROVE  a = m
BY DEF Makes

LEMMA MeantIsFinished ==
  ASSUME NEW line \in LineType
  PROVE  [Meant(line) EXCEPT !.finish = OrStop(@)] = Meant(line)
BY DEF Meant, OrStop

LEMMA CollectingInit == Init => Collecting
<1> SUFFICES ASSUME Init PROVE Collecting
  OBVIOUS
<1>1. /\ prov.then = "read" /\ prov.out = <<>> /\ events = <<>> /\ handler = "range" /\ done = "none"
      /\ acc = NoAnswer /\ answer = NoAnswer
  BY DEF Init
<1>2. <<>> \o <<>> = <<>>
  OBVIOUS
<1> QED BY <1>1, <1>2 DEF Collecting, Due

LEMMA CollectingNext == TypeOK /\ Settling /\ Collecting /\ [Next]_vars => Collecting'
<1> SUFFICES ASSUME TypeOK, ProviderInOrder, Collecting, [Next]_vars PROVE Collecting'
  BY DEF Settling
<1> USE DEF request, channel, client
<1>0. sse' = sse /\ events \in Seq(Events) /\ prov.out \in Seq(Events) /\ Due \in Seq(Events)
  <2>1. sse' = sse
    BY DEF Next, vars, ProviderStep, Request, ReadStream, ReadWhole, Expire, Send, Return,
           HandlerStep, Take, RangeEnds, Result, Disconnect,
           DeleteStep, CancelGet, CancelUpdate, CancelPublish, ApplyCancelled
  <2> QED BY <2>1, DueType
<1>1. CASE Request \/ ReadStream \/ ReadWhole \/ Expire
  <2>1. /\ prov.at \in {"request", "reading"}
        /\ UNCHANGED <<sse, events, done, handler, acc, answer>>
    BY <1>1 DEF Request, ReadStream, ReadWhole, Expire
  <2>2. prov.then = "read" /\ done # "ok" /\ answer = NoAnswer
    BY <2>1 DEF Collecting, ProviderInOrder, AnswerIsMeant
  <2>3. ASSUME ~sse
        PROVE  /\ prov'.then = "read" => Due' = <<>> /\ acc' = NoAnswer /\ answer' = NoAnswer
               /\ prov'.then = "ok" => InOnePiece'
               /\ handler' = "result" => prov'.at = "returned" /\ Due' = <<>>
    <3>1. Due = <<>> /\ acc = NoAnswer /\ handler # "result"
      BY <2>1, <2>2, <2>3 DEF Collecting
    <3>2. CASE prov' = [prov EXCEPT !.at = "reading"]
      <4>1. prov'.then = "read" /\ prov'.out = prov.out
        BY <2>2, <3>2 DEF TypeOK, Goroutines
      <4>2. Due' = Due
        BY <2>1, <4>1 DEF Due
      <4> QED BY <2>1, <2>2, <3>1, <4>1, <4>2
    <3>3. CASE Emit(<<>>, "open") \/ Emit(<<Error>>, "err")
      <4>1. prov'.then \notin {"read", "ok"}
        BY <3>3 DEF Emit
      <4> QED BY <2>1, <3>1, <4>1
    <3>4. ASSUME NEW line \in Lines \cup LastLines, upstream' = [sent |-> <<line>>, end |-> "done"],
                 Emit(Append(Whole(line), Done), "ok")
          PROVE  /\ prov'.then = "ok" /\ InOnePiece'
      <4>1. prov'.then = "ok" /\ prov'.out = Append(Whole(line), Done)
        BY <3>4 DEF Emit
      <4>2. events = <<>>
        BY <1>0, <3>1 DEF Due
      <4>3. Append(Whole(line), Done) \in Seq(Events)
        BY WholeType, EventTypes
      <4>4. \A s \in Seq(Events) : <<>> \o s = s
        OBVIOUS
      <4>5. Due' = Append(Whole(line), Done)
        BY <2>1, <4>1, <4>2, <4>3, <4>4 DEF Due
      <4>6. Makes(acc', Due', Meant(line))
        BY <2>1, <3>1, <4>5, WholeMakes
      <4>7. upstream'.end = "done" /\ upstream'.sent = <<line>> /\ line \in LineType
        BY <3>4, LinesType
      <4> QED BY <4>1, <4>6, <4>7 DEF InOnePiece
    <3>5. CASE Request
      BY <3>2, <3>3, <3>5 DEF Request, Refuse
    <3>6. CASE ReadStream
      BY <2>3, <3>6 DEF ReadStream
    <3>7. CASE ReadWhole
      BY <2>1, <3>1, <3>3, <3>4, <3>7 DEF ReadWhole
    <3>8. CASE Expire
      BY <3>3, <3>8 DEF Expire
    <3> QED BY <1>1, <3>5, <3>6, <3>7, <3>8
  <2> QED BY <1>0, <2>1, <2>2, <2>3 DEF Collecting
\* A step that keeps what is due, and what has been made of the rest.
<1>2. ASSUME UNCHANGED <<upstream, acc, answer>>, Due' = Due, prov'.then = prov.then,
             done' = "ok" => prov'.at = "returned" /\ prov'.then = "ok",
             ~sse /\ handler' = "result" => prov'.at = "returned" /\ Due' = <<>>
      PROVE  Collecting'
  <2>1. AnswerIsMeant' <=> AnswerIsMeant
    BY <1>2 DEF AnswerIsMeant
  <2>2. InOnePiece' <=> InOnePiece
    BY <1>2 DEF InOnePiece
  <2> QED BY <1>0, <1>2, <2>1, <2>2 DEF Collecting
<1>3. CASE UNCHANGED vars
  <2>1. Due' = Due
    BY <1>3 DEF Due, vars
  <2> QED BY <1>2, <1>3, <2>1 DEF vars, Collecting
<1>4. CASE Send
  <2>1. /\ prov.out # <<>> /\ prov.at = "sending"
        /\ events' = Append(events, Head(prov.out)) /\ prov' = [prov EXCEPT !.out = Tail(@)]
        /\ UNCHANGED <<upstream, acc, answer, done, handler>>
    BY <1>4 DEF Send
  <2>2. prov'.out = Tail(prov.out) /\ prov'.at = "sending" /\ prov'.then = prov.then
    BY <2>1 DEF TypeOK, Goroutines
  <2>3. Append(events, Head(prov.out)) \o Tail(prov.out) = events \o prov.out
    BY <1>0, <2>1, Shift
  <2>4. Due' = Due
    BY <2>1, <2>2, <2>3 DEF Due
  <2>5. done # "ok" /\ (~sse => handler # "result")
    BY <2>1 DEF Collecting
  <2> QED BY <1>2, <2>1, <2>2, <2>4, <2>5
<1>5. CASE Return
  <2>1. prov'.out = prov.out /\ prov.at = "sending" /\ prov'.then = prov.then
    BY <1>5 DEF Return, TypeOK, Goroutines
  <2>2. UNCHANGED <<upstream, acc, answer, events, handler>>
    BY <1>5 DEF Return
  <2>3. Due' = Due
    BY <2>1, <2>2 DEF Due
  <2>4. done # "ok" /\ (~sse => handler # "result")
    BY <2>1 DEF Collecting
  <2>5. done' = "ok" => prov'.at = "returned" /\ prov'.then = "ok"
    <3>1. CASE prov.then = "read"
      BY <1>5, <2>4, <3>1 DEF Return
    <3>2. CASE prov.then # "read"
      <4>1. prov'.at = "returned"
        BY <1>5, <3>2 DEF Return, TypeOK, Goroutines
      <4>2. done' = "ok" => prov.then = "ok"
        BY <1>5, <3>2 DEF Return
      <4> QED BY <2>1, <4>1, <4>2
    <3> QED BY <3>1, <3>2
  <2> QED BY <1>2, <2>1, <2>2, <2>3, <2>4, <2>5
<1>6. CASE Take
  <2>0. /\ handler = "range" /\ events # <<>> /\ events' = Tail(events)
        /\ UNCHANGED <<upstream, prov, done, answer>>
    BY <1>6 DEF Take
  <2>1. Due # <<>> /\ Head(Due) = Head(events) /\ Tail(Due) = Tail(events) \o prov.out
    BY <1>0, <2>0 DEF Due
  <2>2. Due' = Tail(Due)
    BY <2>0, <2>1 DEF Due
  <2>3. AnswerIsMeant' <=> AnswerIsMeant
    BY <2>0 DEF AnswerIsMeant
  <2>4. ASSUME ~sse
        PROVE  /\ prov'.then = "read" => Due' = <<>> /\ acc' = NoAnswer /\ answer' = NoAnswer
               /\ prov'.then = "ok" => InOnePiece'
               /\ handler' = "result" => prov'.at = "returned" /\ Due' = <<>>
    <3>1. JSONEvent(Head(Due))
      BY <1>6, <2>1, <2>4 DEF Take
    <3>2. acc' = IF Head(Due).type = "raw" THEN absorb(acc, Head(Due)) ELSE acc
      BY <3>1 DEF JSONEvent
    <3>3. handler' = "range"
      BY <2>0, <3>1 DEF JSONEvent
    <3>4. prov.then # "read"
      BY <2>1, <2>4 DEF Collecting
    <3>5. ASSUME prov.then = "ok" PROVE InOnePiece'
      <4>1. upstream.end = "done"
        BY <2>4, <3>5 DEF Collecting, InOnePiece
      <4>2. PICK line \in LineType : upstream.sent = <<line>> /\ Makes(acc, Due, Meant(line))
        BY <2>4, <3>5 DEF Collecting, InOnePiece
      <4>3. Makes(acc', Due', Meant(line))
        BY <1>0, <2>1, <2>2, <3>2, <4>2, MakesTail
      <4>4. upstream' = upstream
        BY <2>0
      <4> QED BY <4>1, <4>2, <4>3, <4>4 DEF InOnePiece
    <3> QED BY <2>0, <3>3, <3>4, <3>5
  <2> QED BY <1>0, <2>0, <2>3, <2>4 DEF Collecting
<1>7. CASE RangeEnds
  <2>1. /\ events = <<>> /\ closed /\ UNCHANGED <<upstream, prov, events, done, acc, answer>>
    BY <1>7 DEF RangeEnds
  <2>2. prov.at = "returned" /\ prov.out = <<>>
    BY <2>1 DEF ProviderInOrder
  <2>3. Due = <<>> /\ Due' = Due
    BY <2>1, <2>2, EmptyTwice DEF Due
  <2> QED BY <1>2, <2>1, <2>2, <2>3 DEF Collecting
<1>8. CASE Result
  <2>1. /\ handler = "result" /\ handler' = "ended"
        /\ UNCHANGED <<upstream, prov, events, done, acc>>
    BY <1>8 DEF Result
  <2>2. Due' = Due
    BY <2>1 DEF Due
  <2>3. CASE answer' = answer
    BY <1>2, <2>1, <2>2, <2>3 DEF Collecting
  <2>4. CASE ~sse /\ done = "ok" /\ answer' = [acc EXCEPT !.finish = OrStop(@)]
    <3>1. prov.then = "ok" /\ Due = <<>> /\ InOnePiece
      BY <2>1, <2>4 DEF Collecting
    <3>2. upstream.end = "done"
      BY <3>1 DEF InOnePiece
    <3>3. PICK line \in LineType : upstream.sent = <<line>> /\ Makes(acc, <<>>, Meant(line))
      BY <3>1 DEF InOnePiece
    <3>4. acc = Meant(line)
      BY <3>3, MadeOfAll
    <3>5. answer' = Meant(line)
      BY <2>4, <3>4, MeantIsFinished
    <3>6. AnswerIsMeant'
      BY <2>1, <3>1, <3>2, <3>3, <3>5 DEF AnswerIsMeant
    <3>7. InOnePiece' <=> InOnePiece
      BY <2>1, <2>2 DEF InOnePiece
    <3> QED BY <1>0, <2>1, <2>4, <3>1, <3>6, <3>7 DEF Collecting
  <2> QED BY <1>8, <2>3, <2>4 DEF Result, TypeOK
<1>9. CASE Disconnect \/ DeleteStep
  <2>1. UNCHANGED <<upstream, prov, events, done, handler, acc, answer>>
    BY <1>9 DEF Disconnect, DeleteStep, CancelGet, CancelUpdate, CancelPublish, ApplyCancelled
  <2>2. Due' = Due
    BY <2>1 DEF Due
  <2> QED BY <1>2, <2>1, <2>2 DEF Collecting
<1> QED BY <1>1, <1>3, <1>4, <1>5, <1>6, <1>7, <1>8, <1>9 DEF Next, ProviderStep, HandlerStep

\* The answer in one piece is the one the upstream server gave.
THEOREM AnswersAreWhole == Spec => []AnswerIsWhole
<1>1. Collecting => AnswerIsWhole
  BY DEF Collecting, AnswerIsMeant, AnswerIsWhole
<1>2. Spec => []TypeOK
  BY DirectTypeCorrect
<1>3. Spec => []Settling
  BY <1>2, SettlingInit, SettlingNext, PTL DEF Spec
<1> QED BY <1>1, <1>2, <1>3, CollectingInit, CollectingNext, PTL DEF Spec
=============================================================================
