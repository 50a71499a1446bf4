--------------------------- MODULE StreamingProofs ---------------------------
(***************************************************************************)
(* Proofs about module Streaming: what a client sees of a job over all its *)
(* streams, and that no connection misses the end of the job.              *)
(*                                                                         *)
(* Only the stream the client reads matters to what it sees.  The          *)
(* invariant says of it (Joins) that its number is that of the last event  *)
(* seen, that what it is to write comes after what is seen, and that of    *)
(* the events dispatched since it registered none is missing from what is  *)
(* seen, to be written or in its channel.  A step of anyone else leaves    *)
(* that as it is (QuietJoins, OthersSpare); each step of its handler has a *)
(* lemma.                                                                  *)
(***************************************************************************)
EXTENDS Streaming, TLAPS

Lasts == {"none", "started", "raw_sse", "completed", "failed"}
Opening == {"enqueue", "announce"}
Reading == {"replay", "writing", "live"}

\* Before the first connection there is nothing.
Nothing ==
  ~claimed => /\ ~requested /\ log = <<>> /\ worker = [last |-> "none", seq |-> 0]
              /\ seen = <<>> /\ \A c \in Conns : conn[c].at = "none"

\* The event at i has a number; only queued events have none.
Numbered(i) == i \in DOMAIN log /\ log[i].seq > 0

\* Where the handler of c may be, and what it holds there: every event is in
\* the log, and those to be written have a number.
Place(c) ==
  /\ Len(conn[c].ch) <= Buffer
  /\ c \in Streams => conn[c].at \notin {"check", "wait"}
  /\ c \in Waiters => conn[c].at \notin Reading
  /\ c \in Streams /\ conn[c].at \in Reading => listening = c
  /\ c \in Streams /\ conn[c].at \in {"none", "broken"} => listening # c
  /\ c \in Streams /\ conn[c].at \in Opening =>
       conn[c].lastSent = 0 /\ (listening = c => seen = <<>>)
  /\ conn[c].at = "none" => conn[c].ch = <<>> /\ current # c
  /\ conn[c].at # "writing" => conn[c].todo = {}
  /\ \A k \in DOMAIN conn[c].ch : conn[c].ch[k] \in DOMAIN log
  /\ \A i \in conn[c].todo : Numbered(i)

Places ==
  /\ worker.last \in Lasts
  /\ dispatched <= applied /\ applied <= dispatched + 1
  /\ \A i \in DOMAIN log : log[i].seq = 0 => log[i].type = "queued"
  /\ \A k \in DOMAIN seen : Numbered(seen[k])
  /\ \A c \in Conns : Place(c)

Base == TypeOK /\ Nothing /\ Places

\* The numbers of the log go up, but for redelivered requests and heartbeats.
LogOrdered ==
  "redelivery" \notin flaws =>
    /\ \A i \in DOMAIN log : log[i].seq <= worker.seq + 1
    /\ \A i, j \in DOMAIN log :
         i < j /\ log[i].seq > 0 /\ log[j].seq > 0 => log[i].seq <= log[j].seq
LogStrict ==
  flaws \cap {"redelivery", "heartbeat"} = {} =>
    /\ \A i \in DOMAIN log : log[i].seq <= worker.seq
    /\ \A i, j \in DOMAIN log :
         i < j /\ log[i].seq > 0 /\ log[j].seq > 0 => log[i].seq < log[j].seq

\* When the client has seen the end, its stream is done.
EndSeen ==
  (\E k \in DOMAIN seen : TerminalType(log[seen[k]].type)) =>
    listening \in Streams /\ conn[listening].at = "done"

-----------------------------------------------------------------------------
(* The stream c the client reads. *)

\* Its number is that of the last event seen.
Marked(c) ==
  conn[c].at \in Reading =>
    /\ conn[c].lastSent = 0 \/ \E k \in DOMAIN seen : conn[c].lastSent = log[seen[k]].seq
    /\ "redelivery" \notin flaws => \A k \in DOMAIN seen : log[seen[k]].seq <= conn[c].lastSent

\* What it is to write comes after what is seen.
Ahead(c) ==
  "redelivery" \notin flaws =>
    \A i \in conn[c].todo, k \in DOMAIN seen : seen[k] < i

\* The event at i is seen or to be written.
Kept(c, i) == i \in Range(seen) \/ i \in conn[c].todo

\* Of the events before one that is to be written, or stands in the channel,
\* none is missing; and none of those dispatched while the stream is registered.
Joined(c) ==
  flaws = {} /\ conn[c].at \in Opening \cup {"writing", "live"} =>
    /\ \A i \in conn[c].todo, j \in Nat : Numbered(j) /\ j < i => Kept(c, j)
    /\ \A k \in DOMAIN conn[c].ch, i \in Nat : Numbered(i) /\ i < conn[c].ch[k] =>
         Kept(c, i) \/ \E l \in DOMAIN conn[c].ch : l < k /\ conn[c].ch[l] = i
    /\ current = c => \A i \in Nat : Numbered(i) /\ i <= dispatched =>
         Kept(c, i) \/ \E l \in DOMAIN conn[c].ch : conn[c].ch[l] = i

Joins(c) == Marked(c) /\ Ahead(c) /\ Joined(c)
Joint == \A c \in Streams : listening = c => Joins(c)

\* A registered waiter has the end in its channel, or is about to get it.
Woken ==
  \A c \in Waiters :
    conn[c].at = "wait" /\ current = c /\ Terminal(status) /\ "overflow" \notin flaws =>
      \/ \E k \in DOMAIN conn[c].ch : TerminalType(log[conn[c].ch[k]].type)
      \/ applied = dispatched + 1 /\ TerminalType(log[applied].type)
-----------------------------------------------------------------------------
(* The record of a connection. *)

Ats == {"none", "enqueue", "announce", "replay", "writing", "live",
        "check", "wait", "done", "broken", "gone"}

LEMMA ConnFacts ==
  ASSUME TypeOK, NEW c \in Conns
  PROVE  /\ conn \in [Conns -> ConnType] /\ conn[c] \in ConnType
         /\ conn[c].at \in Ats /\ conn[c].ch \in Seq(Nat) /\ conn[c].lastSent \in Nat
         /\ conn[c].todo \in SUBSET Nat
         /\ Len(conn[c].ch) \in Nat /\ Len(conn[c].ch) <= Buffer
         /\ DOMAIN conn[c].ch = 1 .. Len(conn[c].ch)
<1>1. conn \in [Conns -> ConnType] /\ Len(conn[c].ch) <= Buffer
  BY DEF TypeOK
<1>2. conn[c] \in ConnType
  BY <1>1
<1>3. /\ conn[c].at \in Ats /\ conn[c].ch \in Seq(Nat) /\ conn[c].lastSent \in Nat
      /\ conn[c].todo \in SUBSET Nat
  BY <1>2 DEF ConnType, Ats
<1> QED  BY <1>1, <1>2, <1>3

LEMMA LogFacts ==
  ASSUME TypeOK
  PROVE  /\ log \in Seq([type : Types, seq : Nat]) /\ Len(log) \in Nat
         /\ DOMAIN log = 1 .. Len(log)
         /\ \A i \in DOMAIN log : log[i].type \in Types /\ log[i].seq \in Nat
         /\ worker.seq \in Nat
         /\ seen \in Seq(Nat) /\ Len(seen) \in Nat /\ DOMAIN seen = 1 .. Len(seen)
         /\ applied \in Nat /\ dispatched \in Nat
         /\ applied <= Len(log) /\ dispatched <= Len(log)
<1> DEFINE E == [type : Types, seq : Nat]
<1>1. log \in Seq(E) /\ seen \in Seq(Nat)
  BY DEF TypeOK
<1>e. \A e \in E : e.type \in Types /\ e.seq \in Nat
  OBVIOUS
<1>d. worker.seq \in Nat
  BY DEF TypeOK
<1>2. Len(log) \in Nat /\ DOMAIN log = 1 .. Len(log)
      /\ Len(seen) \in Nat /\ DOMAIN seen = 1 .. Len(seen)
  BY <1>1
<1>3. \A i \in DOMAIN log : log[i] \in E
  <2> HIDE DEF E
  <2> QED  BY <1>1, <1>2
<1>4. \A i \in DOMAIN log : log[i].type \in Types /\ log[i].seq \in Nat
  BY <1>3, <1>e
<1>6. applied \in 0 .. Len(log) /\ dispatched \in 0 .. Len(log)
  BY DEF TypeOK
<1> QED  BY <1>1, <1>2, <1>4, <1>d, <1>6

\* A record of a connection with these fields; a step that sets that of c.
Is(r, a, h, l, t) ==
  r \in ConnType /\ r.at = a /\ r.ch = h /\ r.lastSent = l /\ r.todo = t

Puts(c, a, h, l, t) ==
  /\ conn' \in [Conns -> ConnType]
  /\ \A d \in Conns : d # c => conn'[d] = conn[d]
  /\ Is(conn'[c], a, h, l, t)

LEMMA PutsRecord ==
  ASSUME TypeOK, NEW c \in Conns, NEW r, NEW a, NEW h, NEW l, NEW t,
         Is(r, a, h, l, t), conn' = [conn EXCEPT ![c] = r]
  PROVE  Puts(c, a, h, l, t)
<1>1. conn \in [Conns -> ConnType] /\ r \in ConnType
  BY DEF TypeOK, Is
<1>2. conn' \in [Conns -> ConnType] /\ conn'[c] = r
      /\ \A d \in Conns : d # c => conn'[d] = conn[d]
  BY <1>1
<1> QED  BY <1>2 DEF Puts

LEMMA EmptyIs ==
  ASSUME NEW a \in Ats
  PROVE  Is([NoConn EXCEPT !.at = a], a, <<>>, 0, {})
<1> DEFINE r == [NoConn EXCEPT !.at = a]
<1>1. <<>> \in Seq(Nat) /\ {} \in SUBSET Nat
  OBVIOUS
<1>2. r = [at |-> a, ch |-> <<>>, lastSent |-> 0, todo |-> {}]
  BY DEF NoConn
<1>3. r \in ConnType
  <2> HIDE DEF r
  <2>1. \A h \in Seq(Nat), t \in SUBSET Nat :
          [at |-> a, ch |-> h, lastSent |-> 0, todo |-> t] \in ConnType
    BY DEF ConnType, Ats
  <2>2. [at |-> a, ch |-> <<>>, lastSent |-> 0, todo |-> {}] \in ConnType
    BY <1>1, <2>1
  <2> QED  BY <1>2, <2>2
<1>4. Is(r, a, <<>>, 0, {})
  <2> HIDE DEF r
  <2> QED  BY <1>2, <1>3 DEF Is
<1> QED  BY <1>4

LEMMA PutsEmpty ==
  ASSUME TypeOK, NEW c \in Conns, NEW a \in Ats,
         conn' = [conn EXCEPT ![c] = [NoConn EXCEPT !.at = a]]
  PROVE  Puts(c, a, <<>>, 0, {})
  BY EmptyIs, PutsRecord

LEMMA PutsAt ==
  ASSUME TypeOK, NEW c \in Conns, NEW a \in Ats, conn' = [conn EXCEPT ![c].at = a]
  PROVE  Puts(c, a, conn[c].ch, conn[c].lastSent, conn[c].todo)
<1> DEFINE r == [conn[c] EXCEPT !.at = a]
<1>1. Is(r, a, conn[c].ch, conn[c].lastSent, conn[c].todo)
  BY ConnFacts DEF Is, ConnType, Ats
<1>2. conn' = [conn EXCEPT ![c] = r]
  OBVIOUS
<1> HIDE DEF r
<1> QED  BY <1>1, <1>2, PutsRecord

LEMMA PutsChannel ==
  ASSUME TypeOK, NEW c \in Conns, NEW h \in Seq(Nat), conn' = [conn EXCEPT ![c].ch = h]
  PROVE  Puts(c, conn[c].at, h, conn[c].lastSent, conn[c].todo)
<1> DEFINE r == [conn[c] EXCEPT !.ch = h]
<1>1. Is(r, conn[c].at, h, conn[c].lastSent, conn[c].todo)
  BY ConnFacts DEF Is, ConnType, Ats
<1>2. conn' = [conn EXCEPT ![c] = r]
  OBVIOUS
<1> HIDE DEF r
<1> QED  BY <1>1, <1>2, PutsRecord

LEMMA PutsAtNumber ==
  ASSUME TypeOK, NEW c \in Conns, NEW a \in Ats, NEW l \in Nat,
         conn' = [conn EXCEPT ![c].at = a, ![c].lastSent = l]
  PROVE  Puts(c, a, conn[c].ch, l, conn[c].todo)
<1> DEFINE r == [conn[c] EXCEPT !.at = a, !.lastSent = l]
<1>1. Is(r, a, conn[c].ch, l, conn[c].todo)
  BY ConnFacts DEF Is, ConnType, Ats
<1>2. conn' = [conn EXCEPT ![c] = r]
  OBVIOUS
<1> HIDE DEF r
<1> QED  BY <1>1, <1>2, PutsRecord

LEMMA PutsAtTodo ==
  ASSUME TypeOK, NEW c \in Conns, NEW a \in Ats, NEW t \in SUBSET Nat,
         conn' = [conn EXCEPT ![c].at = a, ![c].todo = t]
  PROVE  Puts(c, a, conn[c].ch, conn[c].lastSent, t)
<1> DEFINE r == [conn[c] EXCEPT !.at = a, !.todo = t]
<1>1. Is(r, a, conn[c].ch, conn[c].lastSent, t)
  BY ConnFacts DEF Is, ConnType, Ats
<1>2. conn' = [conn EXCEPT ![c] = r]
  OBVIOUS
<1> HIDE DEF r
<1> QED  BY <1>1, <1>2, PutsRecord

LEMMA PutsTodoNumber ==
  ASSUME TypeOK, NEW c \in Conns, NEW t \in SUBSET Nat, NEW l \in Nat,
         conn' = [conn EXCEPT ![c].todo = t, ![c].lastSent = l]
  PROVE  Puts(c, conn[c].at, conn[c].ch, l, t)
<1> DEFINE r == [conn[c] EXCEPT !.todo = t, !.lastSent = l]
<1>1. Is(r, conn[c].at, conn[c].ch, l, t)
  BY ConnFacts DEF Is, ConnType, Ats
<1>2. conn' = [conn EXCEPT ![c] = r]
  OBVIOUS
<1> HIDE DEF r
<1> QED  BY <1>1, <1>2, PutsRecord

LEMMA PutsChannelNumber ==
  ASSUME TypeOK, NEW c \in Conns, NEW h \in Seq(Nat), NEW l \in Nat,
         conn' = [conn EXCEPT ![c].ch = h, ![c].lastSent = l]
  PROVE  Puts(c, conn[c].at, h, l, conn[c].todo)
<1> DEFINE r == [conn[c] EXCEPT !.ch = h, !.lastSent = l]
<1>1. Is(r, conn[c].at, h, l, conn[c].todo)
  BY ConnFacts DEF Is, ConnType, Ats
<1>2. conn' = [conn EXCEPT ![c] = r]
  OBVIOUS
<1> HIDE DEF r
<1> QED  BY <1>1, <1>2, PutsRecord

LEMMA BeginFacts ==
  ASSUME NEW c \in Conns
  PROVE  /\ c \in Waiters => Begin(c) = "check"
         /\ c \in Streams => Begin(c) \in {"broken", "replay", "live"}
         /\ c \in Streams /\ Begin(c) = "broken" => conn[c].at # "none" /\ listening # c
         /\ c \in Streams /\ Begin(c) = "replay" => seen # <<>>
         /\ c \in Streams /\ Begin(c) = "live" => seen = <<>>
         /\ c \in Streams /\ Begin(c) # "broken" => conn[c].at = "none" \/ listening = c
         /\ c \in Streams <=> c \notin Waiters
<1>1. c \in Streams <=> c \notin Waiters
  BY StreamingAssumption DEF Conns
<1>2. c \in Waiters => Begin(c) = "check"
  BY DEF Begin
<1>3. ASSUME c \in Streams
      PROVE  /\ Begin(c) \in {"broken", "replay", "live"}
             /\ Begin(c) = "broken" => conn[c].at # "none" /\ listening # c
             /\ Begin(c) = "replay" => seen # <<>>
             /\ Begin(c) = "live" => seen = <<>>
             /\ Begin(c) # "broken" => conn[c].at = "none" \/ listening = c
  BY <1>1, <1>3 DEF Begin
<1> QED  BY <1>1, <1>2, <1>3

LEMMA LastIDFacts ==
  ASSUME Base, NEW c \in Conns
  PROVE  /\ LastEventID(c) \in Nat
         /\ c \in Waiters \/ seen = <<>> => LastEventID(c) = 0
         /\ c \in Streams /\ seen # <<>> =>
              LastEventID(c) = log[seen[Len(seen)]].seq /\ Len(seen) \in DOMAIN seen
<1>1. seen \in Seq(Nat) /\ Len(seen) \in Nat /\ DOMAIN seen = 1 .. Len(seen)
      /\ \A i \in DOMAIN log : log[i].seq \in Nat
  BY LogFacts DEF Base
<1>2. seen # <<>> => Len(seen) \in DOMAIN seen
  BY <1>1
<1>3. seen # <<>> => log[seen[Len(seen)]].seq \in Nat
  BY <1>1, <1>2 DEF Base, Places, Numbered
<1> QED  BY <1>2, <1>3, StreamingAssumption DEF LastEventID, Last

-----------------------------------------------------------------------------
(* What the steps of a handler do to its record. *)

LEMMA MissingFacts ==
  ASSUME TypeOK, NEW n \in 0 .. Len(log), NEW after \in Nat
  PROVE  /\ Missing(n, after) \in SUBSET Nat
         /\ \A i \in Missing(n, after) : i \in DOMAIN log /\ log[i].seq > after
         /\ n = Len(log) =>
              \A i \in DOMAIN log : log[i].seq > after => i \in Missing(n, after)
<1>1. Len(log) \in Nat /\ DOMAIN log = 1 .. Len(log)
  BY LogFacts
<1> QED  BY <1>1 DEF Missing

LEMMA EnterEffect ==
  ASSUME Base, NEW c \in Conns, Enter(c)
  PROVE  Puts(c, IF claimed THEN Begin(c) ELSE "enqueue",
              conn[c].ch, LastEventID(c), conn[c].todo)
<1> DEFINE a == IF claimed THEN Begin(c) ELSE "enqueue"
<1>1. a \in Ats
  BY BeginFacts DEF Ats
<1>2. conn' = [conn EXCEPT ![c].at = a, ![c].lastSent = LastEventID(c)]
  BY DEF Enter
<1>3. LastEventID(c) \in Nat
  BY LastIDFacts
<1> HIDE DEF a
<1>4. Puts(c, a, conn[c].ch, LastEventID(c), conn[c].todo)
  BY <1>1, <1>2, <1>3, PutsAtNumber DEF Base
<1> QED  BY <1>4 DEF a

LEMMA EnqueueEffect ==
  ASSUME TypeOK, NEW c \in Conns, NEW out \in Outcomes,
         conn' = [conn EXCEPT ![c].at = IF out.ok THEN "announce" ELSE "gone"]
  PROVE  \E a \in {"announce", "gone"} :
           /\ a = IF out.ok THEN "announce" ELSE "gone"
           /\ Puts(c, a, conn[c].ch, conn[c].lastSent, conn[c].todo)
<1> DEFINE a == IF out.ok THEN "announce" ELSE "gone"
<1>1. a \in Ats /\ a \in {"announce", "gone"}
  BY DEF Ats
<1>2. conn' = [conn EXCEPT ![c].at = a]
  OBVIOUS
<1> HIDE DEF a
<1>3. Puts(c, a, conn[c].ch, conn[c].lastSent, conn[c].todo)
  BY <1>1, <1>2, PutsAt
<1> QED  BY <1>1, <1>3 DEF a

LEMMA AnnounceEffect ==
  ASSUME TypeOK, NEW c \in Conns, Announce(c)
  PROVE  Puts(c, Begin(c), conn[c].ch, conn[c].lastSent, conn[c].todo)
<1>1. Begin(c) \in Ats
  BY BeginFacts DEF Ats
<1>2. conn' = [conn EXCEPT ![c].at = Begin(c)]
  BY DEF Announce
<1> QED  BY <1>1, <1>2, PutsAt

LEMMA ReplayEffect ==
  ASSUME TypeOK, NEW c \in Conns, Replay(c)
  PROVE  \E n \in 0 .. Len(log) :
           /\ n # Len(log) => "short" \in flaws'
           /\ Puts(c, "writing", conn[c].ch, conn[c].lastSent, Missing(n, conn[c].lastSent))
<1>1. PICK n \in 0 .. Len(log) :
        /\ IF n = Len(log) THEN UNCHANGED <<flaws, faults>> ELSE Fault /\ Flaw({"short"})
        /\ conn' = [conn EXCEPT ![c].at = "writing", ![c].todo = Missing(n, conn[c].lastSent)]
  BY DEF Replay
<1>2. n # Len(log) => "short" \in flaws'
  BY <1>1 DEF Flaw
<1>3. Missing(n, conn[c].lastSent) \in SUBSET Nat
  BY ConnFacts, MissingFacts
<1>4. "writing" \in Ats
  BY DEF Ats
<1>5. Puts(c, "writing", conn[c].ch, conn[c].lastSent, Missing(n, conn[c].lastSent))
  BY <1>1, <1>3, <1>4, PutsAtTodo
<1> QED  BY <1>2, <1>5

LEMMA FinishEffect ==
  ASSUME TypeOK, NEW c \in Conns, Finish(c)
  PROVE  Puts(c, "done", <<>>, 0, {}) /\ current' = None
  BY PutsEmpty DEF Finish, Unregister, Ats

LEMMA WriteEffect ==
  ASSUME Base, NEW c \in Conns, WriteMissing(c)
  PROVE  \E i \in conn[c].todo :
           /\ \A k \in conn[c].todo : i <= k
           /\ seen' = Append(seen, i)
           /\ \/ /\ TerminalType(log[i].type)
                 /\ Puts(c, "done", <<>>, 0, {}) /\ current' = None
              \/ /\ ~TerminalType(log[i].type)
                 /\ UNCHANGED current
                 /\ \E l \in Nat :
                      /\ l = IF log[i].seq > conn[c].lastSent THEN log[i].seq
                             ELSE conn[c].lastSent
                      /\ Puts(c, "writing", conn[c].ch, l, conn[c].todo \ {i})
<1>1. PICK i \in conn[c].todo :
        /\ \A k \in conn[c].todo : i <= k
        /\ seen' = Append(seen, i)
        /\ IF TerminalType(log[i].type) THEN Finish(c)
           ELSE /\ conn' = [conn EXCEPT ![c].todo = @ \ {i},
                              ![c].lastSent = IF log[i].seq > @ THEN log[i].seq ELSE @]
                /\ UNCHANGED current
  BY DEF WriteMissing
<1>2. CASE TerminalType(log[i].type)
  BY <1>1, <1>2, FinishEffect DEF Base
<1>3. CASE ~TerminalType(log[i].type)
  <2> DEFINE l == IF log[i].seq > conn[c].lastSent THEN log[i].seq ELSE conn[c].lastSent
             t == conn[c].todo \ {i}
  <2>1. conn[c].lastSent \in Nat /\ conn[c].todo \in SUBSET Nat
    BY ConnFacts DEF Base
  <2>2. l \in Nat
    <3>1. Numbered(i)
      BY DEF Base, Places, Place
    <3>2. log[i].seq \in Nat
      BY <3>1, LogFacts DEF Base, Numbered
    <3> QED  BY <2>1, <3>2
  <2>3. t \in SUBSET Nat
    BY <2>1
  <2>4. conn' = [conn EXCEPT ![c].todo = t, ![c].lastSent = l]
    BY <1>1, <1>3
  <2>5. conn[c].at = "writing"
    BY DEF WriteMissing
  <2> HIDE DEF l, t
  <2>6. Puts(c, "writing", conn[c].ch, l, t)
    BY <2>2, <2>3, <2>4, <2>5, PutsTodoNumber DEF Base
  <2> USE DEF l, t
  <2> QED  BY <1>1, <1>3, <2>2, <2>6
<1> QED  BY <1>2, <1>3

LEMMA DeliverEffect ==
  ASSUME Base, NEW c \in Conns, Deliver(c)
  PROVE  \/ /\ ~Fresh(c, Head(conn[c].ch))
            /\ UNCHANGED <<current, seen>>
            /\ Puts(c, "live", Tail(conn[c].ch), conn[c].lastSent, conn[c].todo)
         \/ /\ Fresh(c, Head(conn[c].ch))
            /\ seen' = Append(seen, Head(conn[c].ch))
            /\ TerminalType(log[Head(conn[c].ch)].type)
            /\ Puts(c, "done", <<>>, 0, {}) /\ current' = None
         \/ /\ Fresh(c, Head(conn[c].ch))
            /\ seen' = Append(seen, Head(conn[c].ch))
            /\ ~TerminalType(log[Head(conn[c].ch)].type)
            /\ UNCHANGED current
            /\ Puts(c, "live", Tail(conn[c].ch), log[Head(conn[c].ch)].seq, conn[c].todo)
<1> DEFINE h == conn[c].ch
           i == Head(h)
<1>1. h \in Seq(Nat) /\ conn[c].lastSent \in Nat /\ conn[c].at = "live" /\ h # <<>>
  BY ConnFacts DEF Deliver, Base
<1>2. Tail(h) \in Seq(Nat)
  BY <1>1
<1>3. CASE ~Fresh(c, i)
  <2>1. conn' = [conn EXCEPT ![c].ch = Tail(h)] /\ UNCHANGED <<current, seen>>
    BY <1>3 DEF Deliver
  <2> HIDE DEF h
  <2>2. Puts(c, "live", Tail(h), conn[c].lastSent, conn[c].todo)
    BY <1>1, <1>2, <2>1, PutsChannel DEF Base
  <2> USE DEF h
  <2> QED  BY <1>3, <2>1, <2>2
<1>4. CASE Fresh(c, i) /\ TerminalType(log[i].type)
  BY <1>4, FinishEffect DEF Deliver, Base
<1>5. CASE Fresh(c, i) /\ ~TerminalType(log[i].type)
  <2> DEFINE l == log[i].seq
  <2>1. conn' = [conn EXCEPT ![c].ch = Tail(h), ![c].lastSent = l]
        /\ UNCHANGED current /\ seen' = Append(seen, i)
    BY <1>5 DEF Deliver
  <2>2. l \in Nat
    <3>1. 1 \in DOMAIN h /\ i = h[1]
      BY <1>1
    <3>2. i \in DOMAIN log
      BY <3>1 DEF Base, Places, Place
    <3> QED  BY <3>2, LogFacts DEF Base
  <2> HIDE DEF h, l, i
  <2>3. Puts(c, "live", Tail(h), l, conn[c].todo)
    BY <1>1, <1>2, <2>1, <2>2, PutsChannelNumber DEF Base
  <2> USE DEF h, i, l
  <2> QED  BY <1>5, <2>1, <2>3
<1> QED  BY <1>3, <1>4, <1>5

-----------------------------------------------------------------------------
(* The base of the invariant: types, places, positions. *)

\* An event of the log stays what it is.
Grows == \A i \in DOMAIN log : i \in DOMAIN log' /\ log'[i] = log[i]

\* What a step leaves to the connection d.
Spares(d) ==
  /\ conn'[d] = conn[d]
  /\ listening' = d <=> listening = d
  /\ current' = d => current = d
  /\ seen' = seen \/ listening # d

\* The base but for the connections.
Frame ==
  /\ claimed = TRUE /\ requested \in BOOLEAN
  /\ log \in Seq([type : Types, seq : Nat])
  /\ worker \in [last : Types \cup {"none"}, seq : Nat] /\ worker.last \in Lasts
  /\ status \in Statuses
  /\ applied \in 0 .. Len(log) /\ dispatched \in 0 .. Len(log)
  /\ dispatched <= applied /\ applied <= dispatched + 1
  /\ current \in Conns \cup {None}
  /\ listening \in Streams \cup {None}
  /\ seen \in Seq(Nat)
  /\ flaws \subseteq {"heartbeat", "redelivery", "overflow", "late", "short"}
  /\ faults \in 0 .. MaxFaults
  /\ \A i \in DOMAIN log : log[i].seq = 0 => log[i].type = "queued"
  /\ \A k \in DOMAIN seen : Numbered(seen[k])

LEMMA FrameHolds ==
  ASSUME Base, claimed
  PROVE  Frame
  BY DEF Frame, Base, TypeOK, Places

LEMMA BaseFromFrame ==
  ASSUME Frame', conn' \in [Conns -> ConnType], \A d \in Conns : Place(d)'
  PROVE  Base'
<1>1. TypeOK'
  BY DEF Frame, Place, TypeOK
<1>2. Nothing'
  BY DEF Frame, Nothing
<1>3. Places'
  BY DEF Frame, Places
<1> QED  BY <1>1, <1>2, <1>3 DEF Base

LEMMA Claimed ==
  ASSUME Base
  PROVE  /\ claimed \in BOOLEAN
         /\ requested \/ Len(log) > 0 \/ worker.last # "none" \/ worker.seq > 0 => claimed
         /\ \A c \in Conns : conn[c].at # "none" => claimed
  BY DEF Base, Nothing, TypeOK

LEMMA GrowsBy ==
  ASSUME TypeOK, NEW e \in [type : Types, seq : Nat], log' = Append(log, e)
  PROVE  /\ Grows
         /\ log' \in Seq([type : Types, seq : Nat])
         /\ Len(log') = Len(log) + 1 /\ DOMAIN log' = 1 .. Len(log) + 1
         /\ log'[Len(log) + 1] = e
         /\ \A i \in DOMAIN log' : i \in DOMAIN log \/ i = Len(log) + 1
<1> DEFINE E == [type : Types, seq : Nat]
<1> HIDE DEF E
<1>1. log \in Seq(E) /\ Len(log) \in Nat /\ DOMAIN log = 1 .. Len(log)
  BY LogFacts DEF E
<1>2. e \in E
  BY DEF E
<1>3. log' \in Seq(E) /\ Len(log') = Len(log) + 1 /\ DOMAIN log' = 1 .. Len(log) + 1
      /\ log'[Len(log) + 1] = e /\ \A i \in DOMAIN log : log'[i] = log[i]
  BY <1>1, <1>2
<1> QED  BY <1>1, <1>3 DEF Grows, E

LEMMA SeenGrowsBy ==
  ASSUME TypeOK, NEW i \in Nat, seen' = Append(seen, i)
  PROVE  /\ seen' \in Seq(Nat) /\ DOMAIN seen' = 1 .. Len(seen) + 1
         /\ seen'[Len(seen) + 1] = i
         /\ \A k \in DOMAIN seen : k \in DOMAIN seen' /\ seen'[k] = seen[k]
         /\ \A k \in DOMAIN seen' : k \in DOMAIN seen \/ k = Len(seen) + 1
         /\ \A j : j \in Range(seen') <=> j \in Range(seen) \/ j = i
<1>1. seen \in Seq(Nat) /\ Len(seen) \in Nat /\ DOMAIN seen = 1 .. Len(seen)
  BY LogFacts
<1>2. /\ seen' \in Seq(Nat) /\ DOMAIN seen' = 1 .. Len(seen) + 1
      /\ seen'[Len(seen) + 1] = i
      /\ \A k \in DOMAIN seen : k \in DOMAIN seen' /\ seen'[k] = seen[k]
      /\ \A k \in DOMAIN seen' : k \in DOMAIN seen \/ k = Len(seen) + 1
  BY <1>1
<1>3. \A j : j \in Range(seen') <=> j \in Range(seen) \/ j = i
  <2> TAKE j
  <2>1. j \in Range(seen') <=> \E k \in DOMAIN seen' : seen'[k] = j
    BY DEF Range
  <2>2. j \in Range(seen) <=> \E k \in DOMAIN seen : seen[k] = j
    BY DEF Range
  <2>3. Len(seen) + 1 \in DOMAIN seen'
    BY <1>1, <1>2
  <2> QED  BY <2>1, <2>2, <2>3, <1>2
<1> QED  BY <1>2, <1>3

LEMMA NumberedStays ==
  ASSUME Grows, NEW i, Numbered(i)
  PROVE  Numbered(i)'
  BY DEF Grows, Numbered

LEMMA SparedPlace ==
  ASSUME Base, Grows, NEW d \in Conns, Spares(d)
  PROVE  Place(d)'
<1>1. Place(d)
  BY DEF Base, Places
<1>2. \A i : Numbered(i) => Numbered(i)'
  BY NumberedStays
<1>3. /\ \A k \in DOMAIN conn'[d].ch : conn'[d].ch[k] \in DOMAIN log'
      /\ \A i \in conn'[d].todo : Numbered(i)'
  BY <1>1, <1>2 DEF Place, Grows, Spares
<1>4. /\ d \in Streams /\ conn'[d].at \in Opening =>
           conn'[d].lastSent = 0 /\ (listening' = d => seen' = <<>>)
      /\ conn'[d].at = "none" => conn'[d].ch = <<>> /\ current' # d
      /\ d \in Streams /\ conn'[d].at \in Reading => listening' = d
      /\ d \in Streams /\ conn'[d].at \in {"none", "broken"} => listening' # d
      /\ Len(conn'[d].ch) <= Buffer
  BY <1>1 DEF Place, Spares
<1>5. /\ d \in Streams => conn'[d].at \notin {"check", "wait"}
      /\ d \in Waiters => conn'[d].at \notin Reading
      /\ conn'[d].at # "writing" => conn'[d].todo = {}
  BY <1>1 DEF Place, Spares
<1> QED  BY <1>3, <1>4, <1>5 DEF Place

\* A step that sets no record.
LEMMA RestingBase ==
  ASSUME Base, Grows, Frame', UNCHANGED <<conn, seen, listening>>, current' \in {current, None}
  PROVE  Base'
<1>1. \A d \in Conns : Spares(d)
  BY StreamingAssumption DEF Spares, Conns
<1>2. conn' \in [Conns -> ConnType]
  BY DEF Base, TypeOK
<1>3. \A d \in Conns : Place(d)'
  BY <1>1, SparedPlace
<1> QED  BY <1>2, <1>3, BaseFromFrame

\* A step that sets the record of c.
LEMMA PuttingBase ==
  ASSUME Base, Grows, Frame', NEW c \in Conns, NEW a, NEW h, NEW l, NEW t,
         Puts(c, a, h, l, t), current' \in {current, None, c},
         Place(c)', seen' = seen \/ listening = c,
         listening' = listening \/ (listening \in {c, None} /\ listening' \in {c, None})
  PROVE  Base'
<1>1. \A d \in Conns : d # c => Spares(d)
  BY StreamingAssumption DEF Spares, Conns, Puts
<1>2. conn' \in [Conns -> ConnType]
  BY DEF Puts
<1>3. \A d \in Conns : Place(d)'
  BY <1>1, SparedPlace
<1> QED  BY <1>2, <1>3, BaseFromFrame

LEMMA GrowsStill ==
  ASSUME UNCHANGED log
  PROVE  Grows
  BY DEF Grows

LEMMA Faulty ==
  ASSUME Frame, Fault \/ UNCHANGED faults
  PROVE  faults' \in 0 .. MaxFaults
  BY StreamingAssumption DEF Frame, Fault

LEMMA NumberedSeen ==
  ASSUME Frame, Grows, UNCHANGED seen
  PROVE  (\A k \in DOMAIN seen : Numbered(seen[k]))'
<1>1. \A k \in DOMAIN seen : Numbered(seen[k])
  BY DEF Frame
<1>2. \A i : Numbered(i) => Numbered(i)'
  BY NumberedStays
<1> QED  BY <1>1, <1>2 DEF Numbered

\* A log that grows by an event keeps the frame.
LEMMA FrameGrows ==
  ASSUME Base, Frame, NEW e \in [type : Types, seq : Nat], e.seq = 0 => e.type = "queued",
         log' = Append(log, e), UNCHANGED <<claimed, requested, consumer, seen>>,
         worker' \in [last : Types \cup {"none"}, seq : Nat], worker'.last \in Lasts,
         current' \in Conns \cup {None}, listening' \in Streams \cup {None},
         flaws' \subseteq {"heartbeat", "redelivery", "overflow", "late", "short"},
         Fault \/ UNCHANGED faults
  PROVE  Frame' /\ Grows
<1>1. /\ Grows /\ log' \in Seq([type : Types, seq : Nat]) /\ Len(log') = Len(log) + 1
      /\ log'[Len(log) + 1] = e /\ \A i \in DOMAIN log' : i \in DOMAIN log \/ i = Len(log) + 1
  BY GrowsBy DEF Base
<1>2. \A i \in DOMAIN log' : log'[i].seq = 0 => log'[i].type = "queued"
  BY <1>1 DEF Grows, Frame
<1>3. (\A k \in DOMAIN seen : Numbered(seen[k]))'
  BY <1>1, NumberedSeen
<1>4. faults' \in 0 .. MaxFaults
  BY Faulty
<1>5. /\ applied' \in 0 .. Len(log') /\ dispatched' \in 0 .. Len(log')
      /\ dispatched' <= applied' /\ applied' <= dispatched' + 1
  BY <1>1, LogFacts DEF Frame, consumer, Base
<1> QED  BY <1>1, <1>2, <1>3, <1>4, <1>5 DEF Frame, consumer

\* A log that stays keeps the frame.
LEMMA FrameStays ==
  ASSUME Frame, UNCHANGED <<log, worker, seen>>,
         claimed', requested' \in BOOLEAN, claimed' \in BOOLEAN, status' \in Statuses,
         applied' \in 0 .. Len(log), dispatched' \in 0 .. Len(log),
         dispatched' <= applied', applied' <= dispatched' + 1,
         current' \in Conns \cup {None}, listening' \in Streams \cup {None},
         flaws' \subseteq {"heartbeat", "redelivery", "overflow", "late", "short"},
         Fault \/ UNCHANGED faults
  PROVE  Frame' /\ Grows
<1>1. Grows
  BY GrowsStill
<1>2. (\A k \in DOMAIN seen : Numbered(seen[k]))'
  BY <1>1, NumberedSeen
<1>3. faults' \in 0 .. MaxFaults
  BY Faulty
<1> QED  BY <1>1, <1>2, <1>3 DEF Frame

LEMMA WorkerEventBase ==
  ASSUME Base, WorkerEvent
  PROVE  Base'
<1>1. Frame
  BY Claimed, FrameHolds DEF WorkerEvent
<1>2. PICK type \in Follows(worker.last) :
        /\ Fault \/ UNCHANGED faults
        /\ log' = Append(log, [type |-> type, seq |-> worker.seq + 1])
        /\ worker' = [last |-> type, seq |-> worker.seq + 1]
  BY DEF WorkerEvent
<1>3. type \in Types /\ type \in Lasts
  BY <1>1 DEF Follows, Types, Lasts, Frame
<1>4. worker.seq \in Nat
  BY LogFacts DEF Base
<1> DEFINE e == [type |-> type, seq |-> worker.seq + 1]
<1>5. e \in [type : Types, seq : Nat] /\ (e.seq = 0 => e.type = "queued")
  BY <1>3, <1>4
<1>6. worker' \in [last : Types \cup {"none"}, seq : Nat] /\ worker'.last \in Lasts
  BY <1>2, <1>3, <1>4
<1>7. log' = Append(log, e)
  BY <1>2
<1> HIDE DEF e
<1>8. UNCHANGED <<claimed, requested, consumer, current, conn, client, flaws>>
  BY DEF WorkerEvent
<1>9. Frame' /\ Grows
  BY <1>1, <1>2, <1>5, <1>6, <1>7, <1>8, FrameGrows DEF Frame, client
<1> QED  BY <1>8, <1>9, RestingBase DEF client

LEMMA HeartbeatBase ==
  ASSUME Base, Heartbeat
  PROVE  Base'
<1>1. Frame
  BY Claimed, FrameHolds DEF Heartbeat
<1>2. worker.seq \in Nat
  BY LogFacts DEF Base
<1> DEFINE e == [type |-> "heartbeat", seq |-> worker.seq + 1]
<1>3. e \in [type : Types, seq : Nat] /\ (e.seq = 0 => e.type = "queued")
  BY <1>2 DEF Types
<1>4. log' = Append(log, e)
  BY DEF Heartbeat
<1> HIDE DEF e
<1>5. UNCHANGED <<job, consumer, current, conn, client>> /\ Fault
      /\ flaws' = flaws \cup {"heartbeat"}
  BY DEF Heartbeat, Flaw
<1>6. Frame' /\ Grows
  BY <1>1, <1>3, <1>4, <1>5, FrameGrows DEF Frame, client, job
<1> QED  BY <1>5, <1>6, RestingBase DEF client

LEMMA RedeliverBase ==
  ASSUME Base, Redeliver
  PROVE  Base'
<1>1. Frame
  BY Claimed, FrameHolds DEF Redeliver
<1>2. /\ UNCHANGED <<claimed, requested, log, consumer, current, conn, client>> /\ Fault
      /\ flaws' = flaws \cup {"redelivery"} /\ worker' = [last |-> "none", seq |-> 0]
  BY DEF Redeliver, Flaw
<1>3. worker' \in [last : Types \cup {"none"}, seq : Nat] /\ worker'.last \in Lasts
  BY <1>2 DEF Lasts
<1>4. Grows
  BY <1>2, GrowsStill
<1>5. (\A k \in DOMAIN seen : Numbered(seen[k]))'
  BY <1>1, <1>2, <1>4, NumberedSeen DEF client
<1>6. faults' \in 0 .. MaxFaults
  BY <1>1, <1>2, Faulty
<1>7. Frame'
  BY <1>1, <1>2, <1>3, <1>5, <1>6 DEF Frame, client, consumer
<1> QED  BY <1>2, <1>4, <1>7, RestingBase DEF client

LEMMA ApplyEventBase ==
  ASSUME Base, ApplyEvent
  PROVE  Base'
<1>0. Len(log) \in Nat /\ applied \in Nat /\ dispatched \in Nat /\ DOMAIN log = 1 .. Len(log)
  BY LogFacts DEF Base
<1>1. Frame
  BY <1>0, Claimed, FrameHolds DEF ApplyEvent
<1>2. /\ applied' = applied + 1 /\ applied < Len(log) /\ applied <= dispatched
      /\ UNCHANGED <<job, log, dispatched, current, conn, client, flaws, faults>>
  BY DEF ApplyEvent
<1>3. status' \in Statuses
  <2> DEFINE e == log[applied + 1]
  <2>1. status' = IF status # "none" /\ SetsStatus(e) THEN StatusOf[e.type] ELSE status
    BY DEF ApplyEvent
  <2>2. SetsStatus(e) => StatusOf[e.type] \in Statuses
    BY DEF SetsStatus, StatusOf, Statuses
  <2> HIDE DEF e
  <2> QED  BY <1>1, <2>1, <2>2 DEF Frame
<1>4. /\ applied' \in 0 .. Len(log) /\ dispatched' \in 0 .. Len(log)
      /\ dispatched' <= applied' /\ applied' <= dispatched' + 1
  BY <1>0, <1>1, <1>2 DEF Frame
<1>5. Frame' /\ Grows
  BY <1>1, <1>2, <1>3, <1>4, FrameStays DEF Frame, client, job
<1> QED  BY <1>2, <1>5, RestingBase DEF client

LEMMA RewindBase ==
  ASSUME Base, Rewind
  PROVE  Base'
<1>0. Len(log) \in Nat /\ applied \in Nat /\ dispatched \in Nat
      /\ applied <= Len(log) /\ dispatched <= Len(log)
  BY LogFacts DEF Base
<1>2. PICK o \in 0 .. dispatched - 1 : dispatched' = o /\ applied' = o
  BY DEF Rewind
<1>3. UNCHANGED <<job, log, status, current, conn, client, flaws>> /\ Fault
  BY DEF Rewind
<1>1. Frame
  BY <1>0, <1>2, Claimed, FrameHolds
<1>4. /\ applied' \in 0 .. Len(log) /\ dispatched' \in 0 .. Len(log)
      /\ dispatched' <= applied' /\ applied' <= dispatched' + 1
  BY <1>0, <1>2
<1>5. Frame' /\ Grows
  BY <1>1, <1>3, <1>4, FrameStays DEF Frame, client, job
<1> QED  BY <1>3, <1>5, RestingBase DEF client

LEMMA PutPlace ==
  ASSUME NEW c \in Conns, NEW a, NEW h, NEW l, NEW t, Puts(c, a, h, l, t),
         a # "none", Len(h) <= Buffer,
         c \in Streams => a \notin {"check", "wait"},
         c \in Waiters => a \notin Reading,
         c \in Streams /\ a \in Reading => listening' = c,
         c \in Streams /\ a = "broken" => listening' # c,
         c \in Streams /\ a \in Opening => l = 0 /\ (listening' = c => seen' = <<>>),
         a # "writing" => t = {},
         \A k \in DOMAIN h : h[k] \in DOMAIN log',
         \A i \in t : Numbered(i)'
  PROVE  Place(c)'
  BY DEF Puts, Is, Place

\* What is known of the record of a connection.
LEMMA PlaceFacts ==
  ASSUME Base, NEW c \in Conns
  PROVE  /\ Place(c) /\ Len(conn[c].ch) <= Buffer
         /\ conn[c].ch \in Seq(Nat) /\ conn[c].lastSent \in Nat /\ conn[c].todo \in SUBSET Nat
         /\ \A k \in DOMAIN conn[c].ch : conn[c].ch[k] \in DOMAIN log
         /\ \A i \in conn[c].todo : Numbered(i)
         /\ c \in Streams <=> c \notin Waiters
         /\ Len(<<>>) <= Buffer
<1>1. c \in Streams <=> c \notin Waiters
  BY StreamingAssumption DEF Conns
<1>2. Len(<<>>) <= Buffer
  BY StreamingAssumption
<1> QED  BY <1>1, <1>2, ConnFacts DEF Base, Places, Place

\* A handler that changes neither the log nor what is seen.
LEMMA QuietBase ==
  ASSUME Base, UNCHANGED <<job, log, consumer, client, flaws>>, Fault \/ UNCHANGED faults,
         NEW c \in Conns, conn[c].at # "none", NEW a, NEW h, NEW l, NEW t,
         Puts(c, a, h, l, t), current' \in {current, None}, Place(c)'
  PROVE  Base'
<1>1. Frame
  BY Claimed, FrameHolds
<1>2. Frame' /\ Grows
  BY <1>1, FrameStays DEF Frame, client, job, consumer
<1> QED  BY <1>2, PuttingBase DEF client

LEMMA FinishPlace ==
  ASSUME Base, NEW c \in Conns, Puts(c, "done", <<>>, 0, {})
  PROVE  Place(c)'
<1>1. \A k \in DOMAIN <<>> : <<>>[k] \in DOMAIN log'
  OBVIOUS
<1> QED  BY <1>1, PutPlace, PlaceFacts DEF Opening, Reading

LEMMA EnterBase ==
  ASSUME Base, NEW c \in Conns, Enter(c)
  PROVE  Base'
<1> DEFINE a == IF claimed THEN Begin(c) ELSE "enqueue"
<1>1. /\ conn[c].at = "none" /\ (c \in Streams => listening = None)
      /\ listening' = IF c \in Streams THEN c ELSE listening
      /\ claimed' = TRUE /\ current' = c
      /\ flaws' = flaws \cup IF claimed /\ Begin(c) = "live" /\ dispatched > 0
                             THEN {"late"} ELSE {}
      /\ UNCHANGED <<requested, log, worker, consumer, seen, faults>>
  BY DEF Enter, Flaw
<1>2. Puts(c, a, conn[c].ch, LastEventID(c), conn[c].todo)
  BY EnterEffect
<1>3. Grows
  BY <1>1, GrowsStill
<1>4. Frame'
  <2>1. current' \in Conns \cup {None} /\ listening' \in Streams \cup {None}
    BY <1>1 DEF Base, TypeOK
  <2>2. (\A k \in DOMAIN seen : Numbered(seen[k]))'
    BY <1>1, <1>3, NumberedStays DEF Base, Places
  <2>3. flaws' \subseteq {"heartbeat", "redelivery", "overflow", "late", "short"}
    BY <1>1 DEF Base, TypeOK
  <2> QED  BY <1>1, <2>1, <2>2, <2>3 DEF Frame, Base, TypeOK, Places, consumer
<1>5. conn[c].ch = <<>> /\ conn[c].todo = {}
  BY <1>1, PlaceFacts DEF Place
<1>6. Place(c)'
  <2>1. a # "none" /\ a # "broken" /\ a # "writing"
    BY <1>1, BeginFacts, PlaceFacts
  <2>2. c \in Streams => a \notin {"check", "wait"} /\ listening' = c
    BY <1>1, BeginFacts
  <2>3. c \in Waiters => a \notin Reading
    BY BeginFacts DEF Reading
  <2>4. a \in Opening => LastEventID(c) = 0 /\ seen' = <<>>
    <3>1. a \in Opening => ~claimed
      BY BeginFacts, PlaceFacts DEF Opening
    <3>2. ~claimed => seen = <<>>
      BY DEF Base, Nothing
    <3> QED  BY <1>1, <3>1, <3>2, LastIDFacts
  <2> HIDE DEF a
  <2>5. \A k \in DOMAIN conn[c].ch : conn[c].ch[k] \in DOMAIN log'
    BY <1>5
  <2> QED  BY <1>2, <1>5, <2>1, <2>2, <2>3, <2>4, <2>5, PutPlace, PlaceFacts
<1> HIDE DEF a
<1> QED  BY <1>1, <1>2, <1>3, <1>4, <1>6, PuttingBase

LEMMA EnqueueBase ==
  ASSUME Base, NEW c \in Conns, Enqueue(c)
  PROVE  Base'
<1>1. PICK out \in Outcomes :
        /\ Publish(out) /\ requested' = out.stored
        /\ conn' = [conn EXCEPT ![c].at = IF out.ok THEN "announce" ELSE "gone"]
        /\ IF out.ok THEN UNCHANGED <<current, listening>>
           ELSE Unregister /\ listening' = IF listening = c THEN None ELSE listening
  BY DEF Enqueue
<1>2. PICK a \in {"announce", "gone"} :
        /\ a = IF out.ok THEN "announce" ELSE "gone"
        /\ Puts(c, a, conn[c].ch, conn[c].lastSent, conn[c].todo)
  BY <1>1, EnqueueEffect DEF Base
<1>3. /\ conn[c].at = "enqueue" /\ status' = "queued"
      /\ UNCHANGED <<claimed, log, worker, applied, dispatched, seen, flaws>>
  BY DEF Enqueue
<1>4. Frame
  BY <1>3, Claimed, FrameHolds
<1>5. /\ current' \in {current, None} /\ (listening' = listening \/ (listening = c /\ listening' = None))
      /\ requested' \in BOOLEAN /\ (Fault \/ UNCHANGED faults)
  <2>1. out.ok \in BOOLEAN /\ out.stored \in BOOLEAN
    <3>1. \A s, o \in BOOLEAN : LET r == [stored |-> s, ok |-> o]
                                IN  r.ok \in BOOLEAN /\ r.stored \in BOOLEAN
      OBVIOUS
    <3>2. PICK s, o \in BOOLEAN : out = [stored |-> s, ok |-> o]
      BY DEF Outcomes
    <3> QED  BY <3>1, <3>2
  <2>2. requested' \in BOOLEAN /\ (Fault \/ UNCHANGED faults)
    BY <1>1, <2>1 DEF Publish
  <2>3. CASE out.ok
    BY <1>1, <2>2, <2>3
  <2>4. CASE ~out.ok
    BY <1>1, <2>2, <2>4 DEF Unregister
  <2> QED  BY <2>1, <2>3, <2>4
<1>6. Frame' /\ Grows
  BY <1>3, <1>4, <1>5, FrameStays DEF Frame, Statuses
<1>7. Place(c)'
  <2>1. /\ conn[c].todo = {}
        /\ c \in Streams => conn[c].lastSent = 0 /\ (listening = c => seen = <<>>)
    BY <1>3, PlaceFacts DEF Place, Opening
  <2>2. c \in Streams /\ listening' = c => seen' = <<>>
    BY <1>3, <1>5, <2>1, StreamingAssumption
  <2> QED  BY <1>2, <1>3, <2>1, <2>2, PutPlace, PlaceFacts DEF Reading
<1> QED  BY <1>2, <1>3, <1>5, <1>6, <1>7, PuttingBase

LEMMA AnnounceBase ==
  ASSUME Base, NEW c \in Conns, Announce(c)
  PROVE  Base'
<1>1. PICK out \in Outcomes :
        /\ Publish(out)
        /\ log' = IF out.stored THEN Append(log, [type |-> "queued", seq |-> 0]) ELSE log
  BY DEF Announce
<1>2. conn[c].at = "announce" /\ UNCHANGED <<job, consumer, current, client, flaws>>
  BY DEF Announce
<1>3. Puts(c, Begin(c), conn[c].ch, conn[c].lastSent, conn[c].todo)
  BY AnnounceEffect DEF Base
<1>4. Frame
  BY <1>2, Claimed, FrameHolds
<1>5. Fault \/ UNCHANGED faults
  BY <1>1 DEF Publish
<1>6. Frame' /\ Grows
  <2>1. CASE log' = log
    BY <1>2, <1>4, <1>5, <2>1, FrameStays DEF Frame, client, job, consumer
  <2>2. CASE log' = Append(log, [type |-> "queued", seq |-> 0])
    <3> DEFINE e == [type |-> "queued", seq |-> 0]
    <3>1. e \in [type : Types, seq : Nat] /\ (e.seq = 0 => e.type = "queued")
      BY DEF Types
    <3>2. log' = Append(log, e)
      BY <2>2
    <3> HIDE DEF e
    <3> QED  BY <1>2, <1>4, <1>5, <3>1, <3>2, FrameGrows DEF Frame, client, job, consumer
  <2> QED  BY <1>1, <2>1, <2>2
<1>7. Place(c)'
  <2>1. conn[c].todo = {}
    BY <1>2, PlaceFacts DEF Place
  <2>2. \A k \in DOMAIN conn[c].ch : conn[c].ch[k] \in DOMAIN log'
    BY <1>6, PlaceFacts DEF Grows
  <2>3. c \in Waiters => Begin(c) = "check"
    BY BeginFacts
  <2>4. c \in Streams => /\ Begin(c) \in {"broken", "live", "replay"}
                         /\ Begin(c) = "broken" => listening' # c
                         /\ Begin(c) # "broken" => listening' = c
    BY <1>2, BeginFacts DEF client
  <2> QED  BY <1>2, <1>3, <2>1, <2>2, <2>3, <2>4, PutPlace, PlaceFacts DEF Opening, Reading
<1> QED  BY <1>2, <1>3, <1>6, <1>7, PuttingBase DEF client

LEMMA ReplayBase ==
  ASSUME Base, NEW c \in Conns, Replay(c)
  PROVE  Base'
<1>1. PICK n \in 0 .. Len(log) :
        Puts(c, "writing", conn[c].ch, conn[c].lastSent, Missing(n, conn[c].lastSent))
  BY ReplayEffect DEF Base
<1>2. /\ conn[c].at = "replay" /\ UNCHANGED <<job, log, consumer, current, client>>
      /\ Fault \/ UNCHANGED faults
      /\ flaws' = flaws \/ flaws' = flaws \cup {"short"}
  BY DEF Replay, Flaw
<1>3. Frame
  BY <1>2, Claimed, FrameHolds
<1>4. Frame' /\ Grows
  BY <1>2, <1>3, FrameStays DEF Frame, client, job, consumer
<1>5. Place(c)'
  <2>1. \A i \in Missing(n, conn[c].lastSent) : Numbered(i)'
    <3>1. conn[c].lastSent \in Nat
      BY PlaceFacts
    <3>2. \A i \in Missing(n, conn[c].lastSent) : i \in DOMAIN log /\ log[i].seq > 0
      <4>1. \A i \in Missing(n, conn[c].lastSent) :
              i \in DOMAIN log /\ log[i].seq > conn[c].lastSent
        BY <3>1, MissingFacts DEF Base
      <4>2. \A i \in DOMAIN log : log[i].seq \in Nat
        BY LogFacts DEF Base
      <4> QED  BY <3>1, <4>1, <4>2
    <3> QED  BY <1>2, <3>2 DEF Numbered
  <2>2. c \in Streams /\ listening' = c
    BY <1>2, PlaceFacts DEF Place, Reading, client
  <2>3. \A k \in DOMAIN conn[c].ch : conn[c].ch[k] \in DOMAIN log'
    BY <1>2, PlaceFacts
  <2> QED  BY <1>1, <2>1, <2>2, <2>3, PutPlace, PlaceFacts DEF Opening
<1> QED  BY <1>1, <1>2, <1>4, <1>5, PuttingBase DEF client

\* What is seen next is in the log and has a number.
LEMMA SeeingFrame ==
  ASSUME Base, UNCHANGED <<job, log, consumer, listening, flaws, faults>>, claimed,
         current' \in {current, None}, NEW i, Numbered(i), seen' = Append(seen, i)
  PROVE  Frame' /\ Grows
<1>1. Frame
  BY FrameHolds
<1>2. Grows
  BY GrowsStill
<1>3. i \in Nat
  BY LogFacts DEF Numbered, Base
<1>4. seen' \in Seq(Nat) 
      /\ (\A k \in DOMAIN seen' : seen'[k] = i \/ Numbered(seen'[k]))
  <2>1. /\ seen' \in Seq(Nat) /\ seen'[Len(seen) + 1] = i
        /\ \A k \in DOMAIN seen : seen'[k] = seen[k]
        /\ \A k \in DOMAIN seen' : k \in DOMAIN seen \/ k = Len(seen) + 1
    BY <1>3, SeenGrowsBy DEF Base
  <2> QED  BY <1>1, <2>1 DEF Frame, Numbered
<1>5. (\A k \in DOMAIN seen : Numbered(seen[k]))'
  BY <1>4 DEF Numbered
<1> QED  BY <1>1, <1>2, <1>4, <1>5 DEF Frame, job, consumer

LEMMA WriteMissingBase ==
  ASSUME Base, NEW c \in Conns, WriteMissing(c)
  PROVE  Base'
<1>1. PICK i \in conn[c].todo :
           /\ seen' = Append(seen, i)
           /\ \/ Puts(c, "done", <<>>, 0, {}) /\ current' = None
              \/ /\ UNCHANGED current
                 /\ \E l \in Nat : Puts(c, "writing", conn[c].ch, l, conn[c].todo \ {i})
  BY WriteEffect
<1>2. conn[c].at = "writing" /\ UNCHANGED <<job, log, consumer, listening, flaws, faults>>
  BY DEF WriteMissing
<1>3. claimed
  BY <1>2, Claimed
<1>4. Numbered(i)
  BY PlaceFacts
<1>5. Frame' /\ Grows
  BY <1>1, <1>2, <1>3, <1>4, SeeingFrame
<1>6. c \in Streams /\ listening = c
  BY <1>2, PlaceFacts DEF Place, Reading
<1>7. CASE Puts(c, "done", <<>>, 0, {}) /\ current' = None
  <2>1. Place(c)'
    BY <1>7, FinishPlace
  <2> QED  BY <1>2, <1>5, <1>6, <1>7, <2>1, PuttingBase
<1>8. ASSUME UNCHANGED current, NEW l \in Nat,
             Puts(c, "writing", conn[c].ch, l, conn[c].todo \ {i})
      PROVE  Base'
  <2>1. \A k \in conn[c].todo \ {i} : Numbered(k)'
    BY <1>2, PlaceFacts DEF Numbered
  <2>2. \A k \in DOMAIN conn[c].ch : conn[c].ch[k] \in DOMAIN log'
    BY <1>2, PlaceFacts
  <2>3. Place(c)'
    BY <1>2, <1>6, <1>8, <2>1, <2>2, PutPlace, PlaceFacts DEF Opening
  <2> QED  BY <1>2, <1>5, <1>6, <1>8, <2>3, PuttingBase
<1> QED  BY <1>1, <1>7, <1>8

LEMMA GoLiveBase ==
  ASSUME Base, NEW c \in Conns, GoLive(c)
  PROVE  Base'
<1>1. /\ conn[c].at = "writing" /\ conn[c].todo = {} /\ conn' = [conn EXCEPT ![c].at = "live"]
      /\ UNCHANGED <<job, log, consumer, current, client, flaws, faults>>
  BY DEF GoLive
<1>2. Puts(c, "live", conn[c].ch, conn[c].lastSent, conn[c].todo)
  BY <1>1, PutsAt DEF Ats, Base
<1>3. c \in Streams /\ listening' = c
  BY <1>1, PlaceFacts DEF Place, Reading, client
<1>4. \A k \in DOMAIN conn[c].ch : conn[c].ch[k] \in DOMAIN log'
  BY <1>1, PlaceFacts
<1>5. Place(c)'
  BY <1>1, <1>2, <1>3, <1>4, PutPlace, PlaceFacts DEF Opening
<1> QED  BY <1>1, <1>2, <1>5, QuietBase

\* The rest of a channel.
LEMMA TailFacts ==
  ASSUME Base, NEW c \in Conns, conn[c].ch # <<>>
  PROVE  /\ 1 \in DOMAIN conn[c].ch /\ Head(conn[c].ch) = conn[c].ch[1]
         /\ Tail(conn[c].ch) \in Seq(Nat) /\ Len(Tail(conn[c].ch)) <= Buffer
         /\ \A k \in DOMAIN Tail(conn[c].ch) :
              k + 1 \in DOMAIN conn[c].ch /\ Tail(conn[c].ch)[k] = conn[c].ch[k + 1]
         /\ \A k \in DOMAIN conn[c].ch : k = 1 \/ k - 1 \in DOMAIN Tail(conn[c].ch)
         /\ DOMAIN conn[c].ch \subseteq Nat /\ DOMAIN Tail(conn[c].ch) \subseteq Nat
         /\ Head(conn[c].ch) \in DOMAIN log
<1> DEFINE h == conn[c].ch
<1>1. h \in Seq(Nat) /\ h # <<>> /\ Len(h) <= Buffer
  BY PlaceFacts
<1>2. Buffer \in Nat
  BY StreamingAssumption
<1>3. \A k \in DOMAIN h : h[k] \in DOMAIN log
  BY PlaceFacts
<1> HIDE DEF h
<1>4. /\ 1 \in DOMAIN h /\ Head(h) = h[1] /\ Tail(h) \in Seq(Nat) /\ Len(Tail(h)) = Len(h) - 1
      /\ Len(h) \in Nat /\ DOMAIN h = 1 .. Len(h) /\ DOMAIN Tail(h) = 1 .. Len(h) - 1
      /\ \A k \in DOMAIN Tail(h) : Tail(h)[k] = h[k + 1]
  BY <1>1
<1>5. /\ 1 \in DOMAIN h /\ Head(h) = h[1]
      /\ Tail(h) \in Seq(Nat) /\ Len(Tail(h)) <= Buffer
      /\ \A k \in DOMAIN Tail(h) : k + 1 \in DOMAIN h /\ Tail(h)[k] = h[k + 1]
      /\ \A k \in DOMAIN h : k = 1 \/ k - 1 \in DOMAIN Tail(h)
      /\ DOMAIN h \subseteq Nat /\ DOMAIN Tail(h) \subseteq Nat
      /\ Head(h) \in DOMAIN log
  BY <1>1, <1>2, <1>3, <1>4
<1> QED  BY <1>5 DEF h

LEMMA DeliverBase ==
  ASSUME Base, NEW c \in Conns, Deliver(c)
  PROVE  Base'
<1> DEFINE i == Head(conn[c].ch)
<1>1. /\ conn[c].at = "live" /\ conn[c].ch # <<>>
      /\ UNCHANGED <<job, log, consumer, listening, flaws, faults>>
  BY DEF Deliver
<1>2. claimed
  BY <1>1, Claimed
<1>3. c \in Streams /\ listening = c /\ conn[c].todo = {}
  BY <1>1, PlaceFacts DEF Place, Reading
<1>4. \A k \in DOMAIN Tail(conn[c].ch) : Tail(conn[c].ch)[k] \in DOMAIN log'
  BY <1>1, TailFacts, PlaceFacts
<1>5. ASSUME NEW l, Puts(c, "live", Tail(conn[c].ch), l, conn[c].todo)
      PROVE  Place(c)'
  BY <1>1, <1>3, <1>4, <1>5, PutPlace, PlaceFacts, TailFacts DEF Opening
<1>6. CASE ~Fresh(c, i)
  <2>1. UNCHANGED <<current, seen>> /\ Puts(c, "live", Tail(conn[c].ch), conn[c].lastSent, conn[c].todo)
    BY <1>6, DeliverEffect
  <2> QED  BY <1>1, <1>5, <2>1, QuietBase DEF client
<1>7. CASE Fresh(c, i)
  <2>1. /\ seen' = Append(seen, i)
        /\ \/ Puts(c, "done", <<>>, 0, {}) /\ current' = None
           \/ Puts(c, "live", Tail(conn[c].ch), log[i].seq, conn[c].todo) /\ UNCHANGED current
    BY <1>7, DeliverEffect
  <2>2. Numbered(i)
    <3>1. i \in DOMAIN log
      BY <1>1, TailFacts
    <3>2. log[i].seq \in Nat /\ conn[c].lastSent \in Nat
      BY <3>1, LogFacts, PlaceFacts DEF Base
    <3>3. log[i].seq > conn[c].lastSent
      BY <1>7 DEF Fresh
    <3> QED  BY <3>1, <3>2, <3>3 DEF Numbered
  <2> HIDE DEF i
  <2>3. Frame' /\ Grows
    BY <1>1, <1>2, <2>1, <2>2, SeeingFrame
  <2>4. CASE Puts(c, "done", <<>>, 0, {}) /\ current' = None
    <3>1. Place(c)'
      BY <2>4, FinishPlace
    <3> QED  BY <1>1, <1>3, <2>3, <2>4, <3>1, PuttingBase
  <2>5. CASE Puts(c, "live", Tail(conn[c].ch), log[i].seq, conn[c].todo) /\ UNCHANGED current
    <3>1. Place(c)'
      BY <1>5, <2>5
    <3> QED  BY <1>1, <1>3, <2>3, <2>5, <3>1, PuttingBase
  <2> QED  BY <2>1, <2>4, <2>5
<1> QED  BY <1>6, <1>7

LEMMA CheckBase ==
  ASSUME Base, NEW c \in Conns, Check(c)
  PROVE  Base'
<1>1. conn[c].at = "check" /\ UNCHANGED <<job, log, consumer, client, flaws, faults>>
  BY DEF Check
<1>2. c \in Waiters /\ conn[c].todo = {}
  BY <1>1, PlaceFacts DEF Place
<1>3. CASE Terminal(status)
  <2>1. Puts(c, "done", <<>>, 0, {}) /\ current' = None
    BY <1>3, FinishEffect DEF Check, Base
  <2>2. Place(c)'
    BY <2>1, FinishPlace
  <2> QED  BY <1>1, <2>1, <2>2, QuietBase
<1>4. CASE ~Terminal(status)
  <2>1. Puts(c, "wait", conn[c].ch, conn[c].lastSent, conn[c].todo) /\ UNCHANGED current
    BY <1>4, PutsAt DEF Check, Base, Ats
  <2>2. \A k \in DOMAIN conn[c].ch : conn[c].ch[k] \in DOMAIN log'
    BY <1>1, PlaceFacts
  <2>3. Place(c)'
    BY <1>2, <2>1, <2>2, PutPlace, PlaceFacts DEF Opening, Reading
  <2> QED  BY <1>1, <2>1, <2>3, QuietBase
<1> QED  BY <1>3, <1>4

LEMMA AwaitEffect ==
  ASSUME Base, NEW c \in Conns, Await(c)
  PROVE  /\ conn[c].at = "wait" /\ conn[c].ch # <<>>
         /\ UNCHANGED <<job, log, consumer, client, flaws, faults>>
         /\ \/ TerminalType(log[Head(conn[c].ch)].type)
               /\ Puts(c, "done", <<>>, 0, {}) /\ current' = None
            \/ ~TerminalType(log[Head(conn[c].ch)].type)
               /\ Puts(c, "wait", Tail(conn[c].ch), conn[c].lastSent, conn[c].todo)
               /\ UNCHANGED current
<1>1. conn[c].at = "wait" /\ conn[c].ch # <<>>
      /\ UNCHANGED <<job, log, consumer, client, flaws, faults>>
  BY DEF Await
<1>2. CASE TerminalType(log[Head(conn[c].ch)].type)
  BY <1>1, <1>2, FinishEffect DEF Await, Base
<1>3. CASE ~TerminalType(log[Head(conn[c].ch)].type)
  <2> DEFINE h == Tail(conn[c].ch)
  <2>1. conn' = [conn EXCEPT ![c].ch = h] /\ UNCHANGED current
    BY <1>3 DEF Await
  <2>2. h \in Seq(Nat)
    BY <1>1, TailFacts
  <2> HIDE DEF h
  <2>3. Puts(c, "wait", h, conn[c].lastSent, conn[c].todo)
    BY <1>1, <2>1, <2>2, PutsChannel DEF Base
  <2> USE DEF h
  <2> QED  BY <1>1, <1>3, <2>1, <2>3
<1> QED  BY <1>2, <1>3

LEMMA AwaitBase ==
  ASSUME Base, NEW c \in Conns, Await(c)
  PROVE  Base'
<1>1. /\ conn[c].at = "wait" /\ conn[c].ch # <<>>
      /\ UNCHANGED <<job, log, consumer, client, flaws, faults>>
  BY AwaitEffect
<1>2. c \in Waiters /\ conn[c].todo = {}
  BY <1>1, PlaceFacts DEF Place
<1>3. CASE Puts(c, "done", <<>>, 0, {}) /\ current' = None
  <2>1. Place(c)'
    BY <1>3, FinishPlace
  <2> QED  BY <1>1, <1>3, <2>1, QuietBase
<1>4. CASE Puts(c, "wait", Tail(conn[c].ch), conn[c].lastSent, conn[c].todo) /\ UNCHANGED current
  <2>1. \A k \in DOMAIN Tail(conn[c].ch) : Tail(conn[c].ch)[k] \in DOMAIN log'
    BY <1>1, TailFacts, PlaceFacts
  <2>2. Place(c)'
    BY <1>1, <1>2, <1>4, <2>1, PutPlace, PlaceFacts, TailFacts DEF Opening, Reading
  <2> QED  BY <1>1, <1>4, <2>2, QuietBase
<1> QED  BY <1>3, <1>4, AwaitEffect

LEMMA GoneBase ==
  ASSUME Base, NEW c \in Conns, Notice(c) \/ GiveUp(c)
  PROVE  Base' /\ Puts(c, "gone", <<>>, 0, {})
<1>1. /\ conn[c].at \in {"broken", "wait"} /\ current' = None
      /\ conn' = [conn EXCEPT ![c] = [NoConn EXCEPT !.at = "gone"]]
      /\ UNCHANGED <<job, log, consumer, client, flaws>>
      /\ Fault \/ UNCHANGED faults
  BY DEF Notice, GiveUp, Unregister
<1>2. Puts(c, "gone", <<>>, 0, {})
  BY <1>1, PutsEmpty DEF Base, Ats
<1>3. \A k \in DOMAIN <<>> : <<>>[k] \in DOMAIN log'
  OBVIOUS
<1>4. Place(c)'
  BY <1>2, <1>3, PutPlace, PlaceFacts DEF Opening, Reading
<1>5. conn[c].at # "none"
  BY <1>1
<1>6. Base'
  BY <1>1, <1>2, <1>4, <1>5, QuietBase
<1> QED  BY <1>2, <1>6

LEMMA LoseEffect ==
  ASSUME Base, Lose
  PROVE  /\ listening \in Streams /\ listening' = None
         /\ UNCHANGED <<job, log, consumer, current, seen, flaws, faults>>
         /\ conn[listening].at # "none"
         /\ \/ UNCHANGED conn
            \/ Puts(listening, "broken", <<>>, 0, {})
<1> DEFINE c == listening
<1>1. c \in Streams /\ c \in Conns
  BY DEF Lose, Base, TypeOK, Conns
<1>2. conn[c].at # "none"
  BY <1>1, PlaceFacts DEF Place
<1>3. conn' = conn \/ conn' = [conn EXCEPT ![c] = [NoConn EXCEPT !.at = "broken"]]
  BY DEF Lose
<1>4. conn' # conn => Puts(c, "broken", <<>>, 0, {})
  <2> HIDE DEF c
  <2> QED  BY <1>1, <1>3, PutsEmpty DEF Base, Ats
<1> QED  BY <1>1, <1>2, <1>4 DEF Lose

LEMMA LoseBase ==
  ASSUME Base, Lose
  PROVE  Base'
<1>1. PICK c \in Streams : c = listening
  BY LoseEffect
<1>2. /\ c \in Conns /\ listening' = None /\ conn[c].at # "none"
      /\ UNCHANGED <<job, log, consumer, current, seen, flaws, faults>>
      /\ UNCHANGED conn \/ Puts(c, "broken", <<>>, 0, {})
  BY <1>1, LoseEffect DEF Conns
<1>3. Frame
  BY <1>2, Claimed, FrameHolds
<1>4. Frame' /\ Grows
  BY <1>2, <1>3, FrameStays DEF Frame, job, consumer
<1>5. CASE Puts(c, "broken", <<>>, 0, {})
  <2>1. \A k \in DOMAIN <<>> : <<>>[k] \in DOMAIN log'
    OBVIOUS
  <2>2. listening' # c
    BY <1>1, <1>2, StreamingAssumption
  <2>3. Place(c)'
    BY <1>2, <1>5, <2>1, <2>2, PutPlace, PlaceFacts DEF Opening, Reading
  <2> QED  BY <1>1, <1>2, <1>4, <1>5, <2>3, PuttingBase
<1>6. CASE UNCHANGED conn
  <2>1. CASE conn[c].at \in {"done"} \cup Opening
    <3>1. \A d \in Conns : d # c => Spares(d)
      BY <1>1, <1>2, <1>6, StreamingAssumption DEF Spares, Conns
    <3>2. \A d \in Conns : d # c => Place(d)'
      BY <1>4, <3>1, SparedPlace
    <3>3. Place(c)'
      <4>1. \A k \in DOMAIN conn[c].ch : conn[c].ch[k] \in DOMAIN log'
        BY <1>2, PlaceFacts
      <4>2. conn[c].todo = {} /\ (conn[c].at \in Opening => conn[c].lastSent = 0)
        BY <1>2, <2>1, PlaceFacts DEF Place, Opening
      <4>3. listening' # c
        BY <1>1, <1>2, StreamingAssumption
      <4>4. Puts(c, conn[c].at, conn[c].ch, conn[c].lastSent, conn[c].todo)
        BY <1>2, <1>6, ConnFacts DEF Puts, Is, Base, TypeOK
      <4> QED  BY <1>2, <2>1, <4>1, <4>2, <4>3, <4>4, PutPlace, PlaceFacts DEF Opening, Reading
    <3>4. conn' \in [Conns -> ConnType]
      BY <1>6 DEF Base, TypeOK
    <3> QED  BY <1>4, <3>2, <3>3, <3>4, BaseFromFrame
  <2>2. CASE conn[c].at \notin {"done"} \cup Opening
    <3>1. conn' = [conn EXCEPT ![c] = [NoConn EXCEPT !.at = "broken"]]
      BY <1>1, <2>2 DEF Lose, Opening
    <3>2. Puts(c, "broken", <<>>, 0, {})
      BY <1>2, <3>1, PutsEmpty DEF Base, Ats
    <3> QED  BY <1>5, <3>2
  <2> QED  BY <2>1, <2>2
<1> QED  BY <1>2, <1>5, <1>6

\* What the dispatcher does to the channel of the connection c.
LEMMA HandEffect ==
  ASSUME Base, DispatchEvent
  PROVE  /\ dispatched + 1 = applied /\ dispatched' = dispatched + 1
         /\ dispatched + 1 \in DOMAIN log /\ dispatched \in Nat
         /\ UNCHANGED <<job, log, status, applied, current, client, faults>>
         /\ \/ UNCHANGED <<conn, flaws>>
               /\ (current = None \/ (current \in Conns /\ conn[current].at = "broken"))
            \/ /\ UNCHANGED conn /\ flaws' = flaws \cup {"overflow"} /\ current \in Conns
            \/ /\ current \in Conns /\ conn[current].at # "broken" /\ UNCHANGED flaws
               /\ Len(conn[current].ch) < Buffer
               /\ Puts(current, conn[current].at, Append(conn[current].ch, dispatched + 1),
                       conn[current].lastSent, conn[current].todo)
<1>1. /\ applied > dispatched /\ Hand(dispatched + 1) /\ dispatched' = dispatched + 1
      /\ UNCHANGED <<job, log, status, applied, current, client, faults>>
  BY DEF DispatchEvent
<1>2. /\ applied \in Nat /\ dispatched \in Nat /\ Len(log) \in Nat /\ applied <= Len(log)
      /\ DOMAIN log = 1 .. Len(log) /\ applied <= dispatched + 1
  BY LogFacts DEF Base, Places
<1>3. dispatched + 1 = applied /\ dispatched + 1 \in DOMAIN log /\ dispatched + 1 \in Nat
  BY <1>1, <1>2
<1>4. current \in Conns \cup {None}
  BY DEF Base, TypeOK
<1>5. CASE current = None
  BY <1>1, <1>2, <1>3, <1>5 DEF Hand
<1>6. CASE current # None /\ conn[current].at = "broken"
  BY <1>1, <1>2, <1>3, <1>4, <1>6 DEF Hand
<1>7. CASE current # None /\ conn[current].at # "broken" /\ ~(Len(conn[current].ch) < Buffer)
  BY <1>1, <1>2, <1>3, <1>4, <1>7 DEF Hand, Flaw
<1>8. CASE current # None /\ conn[current].at # "broken" /\ Len(conn[current].ch) < Buffer
  <2> DEFINE h == Append(conn[current].ch, dispatched + 1)
  <2>1. conn' = [conn EXCEPT ![current].ch = h] /\ UNCHANGED flaws
    BY <1>1, <1>8 DEF Hand
  <2>2. current \in Conns
    BY <1>4, <1>8
  <2>3. h \in Seq(Nat)
    BY <2>2, <1>3, PlaceFacts
  <2> HIDE DEF h
  <2>4. Puts(current, conn[current].at, h, conn[current].lastSent, conn[current].todo)
    <3>1. PICK c \in Conns : c = current
      BY <2>2
    <3>2. Puts(c, conn[c].at, h, conn[c].lastSent, conn[c].todo)
      BY <2>1, <2>3, <3>1, PutsChannel DEF Base
    <3> QED  BY <3>1, <3>2
  <2> USE DEF h
  <2> QED  BY <1>1, <1>2, <1>3, <1>8, <2>1, <2>2, <2>4
<1> QED  BY <1>5, <1>6, <1>7, <1>8

LEMMA DispatchEventBase ==
  ASSUME Base, DispatchEvent
  PROVE  Base'
<1>1. /\ dispatched + 1 = applied /\ dispatched' = dispatched + 1
      /\ dispatched + 1 \in DOMAIN log /\ dispatched \in Nat
      /\ UNCHANGED <<job, log, status, applied, current, client, faults>>
      /\ flaws' = flaws \/ flaws' = flaws \cup {"overflow"}
  BY HandEffect
<1>2. Len(log) \in Nat /\ DOMAIN log = 1 .. Len(log)
  BY LogFacts DEF Base
<1>3. Frame
  BY <1>1, <1>2, Claimed, FrameHolds
<1>4. Frame' /\ Grows
  <2>1. /\ applied' \in 0 .. Len(log) /\ dispatched' \in 0 .. Len(log)
        /\ dispatched' <= applied' /\ applied' <= dispatched' + 1
    BY <1>1, <1>2
  <2>2. flaws' \subseteq {"heartbeat", "redelivery", "overflow", "late", "short"}
    BY <1>1, <1>3 DEF Frame
  <2> QED  BY <1>1, <1>3, <2>1, <2>2, FrameStays DEF Frame, client, job
<1>5. CASE UNCHANGED conn
  BY <1>1, <1>4, <1>5, RestingBase DEF client
<1>6. ASSUME NEW c \in Conns, c = current, conn[c].at # "broken", Len(conn[c].ch) < Buffer,
             Puts(c, conn[c].at, Append(conn[c].ch, dispatched + 1),
                  conn[c].lastSent, conn[c].todo)
      PROVE  Base'
  <2> DEFINE h == Append(conn[c].ch, dispatched + 1)
  <2>1. conn[c].ch \in Seq(Nat) /\ \A k \in DOMAIN conn[c].ch : conn[c].ch[k] \in DOMAIN log
    BY PlaceFacts
  <2>2. Len(h) <= Buffer /\ \A k \in DOMAIN h : h[k] \in DOMAIN log'
    BY <1>1, <1>6, <2>1, StreamingAssumption
  <2>3. Place(c) /\ \A i \in conn[c].todo : Numbered(i)'
    BY <1>1, PlaceFacts DEF Numbered
  <2>4. Puts(c, conn[c].at, h, conn[c].lastSent, conn[c].todo)
    BY <1>6
  <2> HIDE DEF h
  <2>5. Place(c)'
    BY <1>1, <1>6, <2>2, <2>3, <2>4, PutPlace DEF Place, client
  <2> QED  BY <1>1, <1>4, <1>6, <2>4, <2>5, PuttingBase DEF client
<1> QED  BY <1>5, <1>6, HandEffect

LEMMA InitBase ==
  ASSUME Init
  PROVE  Base
<1> USE DEF Init
<1>1. TypeOK
  <2>1. conn \in [Conns -> ConnType]
    <3>1. NoConn = [NoConn EXCEPT !.at = "none"]
      BY DEF NoConn
    <3>2. NoConn \in ConnType
      BY <3>1, EmptyIs DEF Is, Ats
    <3> QED  BY <3>2
  <2>2. \A c \in Conns : Len(conn[c].ch) <= Buffer
    BY StreamingAssumption DEF NoConn
  <2>3. worker \in [last : Types \cup {"none"}, seq : Nat]
    OBVIOUS
  <2>4. log \in Seq([type : Types, seq : Nat]) /\ Len(log) = 0 /\ seen \in Seq(Nat)
    OBVIOUS
  <2>5. claimed \in BOOLEAN /\ requested \in BOOLEAN /\ status \in Statuses
    BY DEF Statuses
  <2>6. applied \in 0 .. Len(log) /\ dispatched \in 0 .. Len(log) /\ faults \in 0 .. MaxFaults
    BY <2>4, StreamingAssumption
  <2>7. /\ current \in Conns \cup {None} /\ listening \in Streams \cup {None}
        /\ flaws \subseteq {"heartbeat", "redelivery", "overflow", "late", "short"}
    OBVIOUS
  <2> HIDE DEF Init
  <2> QED  BY <2>1, <2>2, <2>3, <2>4, <2>5, <2>6, <2>7 DEF TypeOK
<1>2. Nothing
  BY DEF Nothing, NoConn
<1>3. \A c \in Conns : Place(c)
  BY StreamingAssumption DEF Place, NoConn, Conns, Reading, Opening
<1>4. Places
  <2>1. worker.last \in Lasts
    BY DEF Lasts
  <2>2. DOMAIN log = {} /\ DOMAIN seen = {}
    OBVIOUS
  <2> QED  BY <1>3, <2>1, <2>2 DEF Places
<1> QED  BY <1>1, <1>2, <1>4 DEF Base

LEMMA BaseStep ==
  ASSUME Base, Next
  PROVE  Base'
  BY WorkerEventBase, HeartbeatBase, RedeliverBase, ApplyEventBase, DispatchEventBase,
     RewindBase, EnterBase, EnqueueBase, AnnounceBase, ReplayBase, WriteMissingBase,
     GoLiveBase, DeliverBase, CheckBase, AwaitBase, GoneBase, LoseBase
     DEF Next, HandlerStep

\* Everything but the history is the base of the invariant.
THEOREM StreamTypes == Spec => []TypeOK
<1>1. Init => Base
  BY InitBase
<1>2. Base /\ [Next]_vars => Base'
  <2> SUFFICES ASSUME Base, [Next]_vars PROVE Base'
    OBVIOUS
  <2>1. CASE Next
    BY <2>1, BaseStep
  <2>2. CASE UNCHANGED vars
    BY <2>2 DEF vars, job, consumer, client, Base, TypeOK, Nothing, Places, Place, Numbered
  <2> QED  BY <2>1, <2>2
<1>3. Base => TypeOK
  BY DEF Base
<1> QED  BY <1>1, <1>2, <1>3, PTL DEF Spec

-----------------------------------------------------------------------------
(* The numbers of the log. *)

\* What a step does to the log.
LEMMA LogMoves ==
  ASSUME Base, Next
  PROVE  /\ flaws \subseteq flaws'
         /\ \/ UNCHANGED <<log, worker>>
            \/ UNCHANGED log /\ "redelivery" \in flaws'
            \/ \E e \in [type : Types, seq : Nat] :
                 /\ log' = Append(log, e)
                 /\ \/ e.seq = 0 /\ UNCHANGED worker
                    \/ e.seq = worker.seq + 1 /\ worker'.seq = worker.seq + 1
                    \/ e.seq = worker.seq + 1 /\ UNCHANGED worker /\ "heartbeat" \in flaws'
<1>0. worker.seq \in Nat
  BY LogFacts DEF Base
<1>1. CASE WorkerEvent
  <2>1. PICK type \in Follows(worker.last) :
          /\ log' = Append(log, [type |-> type, seq |-> worker.seq + 1])
          /\ worker' = [last |-> type, seq |-> worker.seq + 1]
    BY <1>1 DEF WorkerEvent
  <2>2. type \in Types
    BY DEF Follows, Types, Lasts, Base, Places
  <2> DEFINE e == [type |-> type, seq |-> worker.seq + 1]
  <2>3. e \in [type : Types, seq : Nat]
    BY <1>0, <2>2
  <2>4. log' = Append(log, e) /\ e.seq = worker.seq + 1 /\ worker'.seq = worker.seq + 1
    BY <2>1
  <2>5. flaws \subseteq flaws'
    BY <1>1 DEF WorkerEvent
  <2> HIDE DEF e
  <2> QED  BY <2>3, <2>4, <2>5
<1>2. CASE Heartbeat
  <2> DEFINE e == [type |-> "heartbeat", seq |-> worker.seq + 1]
  <2>1. e \in [type : Types, seq : Nat]
    BY <1>0 DEF Types
  <2>2. log' = Append(log, e) /\ e.seq = worker.seq + 1
    BY <1>2 DEF Heartbeat
  <2>3. UNCHANGED worker /\ "heartbeat" \in flaws' /\ flaws \subseteq flaws'
    BY <1>2 DEF Heartbeat, Flaw, job
  <2> HIDE DEF e
  <2> QED  BY <2>1, <2>2, <2>3
<1>3. CASE Redeliver
  BY <1>3 DEF Redeliver, Flaw
<1>4. ASSUME NEW c \in Conns, Announce(c)
      PROVE  /\ flaws \subseteq flaws' /\ UNCHANGED worker
             /\ \/ UNCHANGED log
                \/ \E e \in [type : Types, seq : Nat] : log' = Append(log, e) /\ e.seq = 0
  <2> DEFINE e == [type |-> "queued", seq |-> 0]
  <2>1. e \in [type : Types, seq : Nat] /\ e.seq = 0
    BY DEF Types
  <2>2. log' = Append(log, e) \/ log' = log
    BY <1>4 DEF Announce
  <2>3. UNCHANGED worker /\ flaws \subseteq flaws'
    BY <1>4 DEF Announce, job
  <2> HIDE DEF e
  <2> QED  BY <2>1, <2>2, <2>3
<1>5. CASE ApplyEvent \/ Rewind \/ Lose
  BY <1>5 DEF ApplyEvent, Rewind, Lose, job
<1>6. CASE DispatchEvent
  BY <1>6, HandEffect DEF job
<1>7. ASSUME NEW c \in Conns,
             Enter(c) \/ Enqueue(c) \/ Replay(c) \/ WriteMissing(c) \/ GoLive(c)
               \/ Deliver(c) \/ Check(c) \/ Await(c) \/ Notice(c) \/ GiveUp(c)
      PROVE  UNCHANGED <<log, worker>> /\ flaws \subseteq flaws'
  <2>1. CASE Enter(c) \/ Enqueue(c) \/ Replay(c)
    BY <2>1 DEF Enter, Enqueue, Replay, Flaw, job
  <2>2. CASE WriteMissing(c) \/ GoLive(c) \/ Deliver(c)
    BY <2>2 DEF WriteMissing, GoLive, Deliver, job
  <2>3. CASE Check(c) \/ Await(c) \/ Notice(c) \/ GiveUp(c)
    BY <2>3 DEF Check, Await, Notice, GiveUp, job
  <2> QED  BY <1>7, <2>1, <2>2, <2>3
<1> QED  BY <1>1, <1>2, <1>3, <1>4, <1>5, <1>6, <1>7 DEF Next, HandlerStep

LEMMA NextGrows ==
  ASSUME Base, Next
  PROVE  Grows /\ flaws \subseteq flaws'
  BY LogMoves, GrowsStill, GrowsBy DEF Base

LEMMA LogStep ==
  ASSUME Base, LogOrdered, LogStrict, Next
  PROVE  LogOrdered' /\ LogStrict'
<1>0. /\ worker.seq \in Nat /\ Len(log) \in Nat /\ DOMAIN log = 1 .. Len(log)
      /\ \A i \in DOMAIN log : log[i].seq \in Nat
  BY LogFacts DEF Base
<1>1. flaws \subseteq flaws'
  BY LogMoves
<1>2. CASE UNCHANGED <<log, worker>>
  BY <1>1, <1>2 DEF LogOrdered, LogStrict
<1>3. CASE UNCHANGED log /\ "redelivery" \in flaws'
  BY <1>3 DEF LogOrdered, LogStrict
<1>4. ASSUME NEW e \in [type : Types, seq : Nat], log' = Append(log, e),
             \/ e.seq = 0 /\ UNCHANGED worker
             \/ e.seq = worker.seq + 1 /\ worker'.seq = worker.seq + 1
             \/ e.seq = worker.seq + 1 /\ UNCHANGED worker /\ "heartbeat" \in flaws'
      PROVE  LogOrdered' /\ LogStrict'
  <2>1. /\ \A i \in DOMAIN log : i \in DOMAIN log' /\ log'[i] = log[i] /\ i < Len(log) + 1
        /\ log'[Len(log) + 1] = e
        /\ \A i \in DOMAIN log' : i \in DOMAIN log \/ i = Len(log) + 1
    BY <1>0, <1>4, GrowsBy DEF Base, Grows
  <2>2. DOMAIN log' \subseteq Nat
    BY <1>0, <2>1
  <2>3. LogOrdered'
    <3> SUFFICES ASSUME "redelivery" \notin flaws'
                 PROVE  /\ \A i \in DOMAIN log' : log'[i].seq <= worker'.seq + 1
                        /\ \A i, j \in DOMAIN log' :
                             i < j /\ log'[i].seq > 0 /\ log'[j].seq > 0 =>
                               log'[i].seq <= log'[j].seq
      BY DEF LogOrdered
    <3>1. /\ \A i \in DOMAIN log : log[i].seq <= worker.seq + 1
          /\ \A i, j \in DOMAIN log :
               i < j /\ log[i].seq > 0 /\ log[j].seq > 0 => log[i].seq <= log[j].seq
      BY <1>1 DEF LogOrdered
    <3>2. \A i \in DOMAIN log : log[i].seq <= worker'.seq + 1
      BY <1>0, <1>4, <3>1
    <3>3. e.seq <= worker'.seq + 1
      BY <1>0, <1>4
    <3>4. \A i \in DOMAIN log : e.seq > 0 => log[i].seq <= e.seq
      BY <1>0, <1>4, <3>1
    <3>5. ASSUME NEW i \in DOMAIN log', NEW j \in DOMAIN log',
                 i < j, log'[i].seq > 0, log'[j].seq > 0
          PROVE  log'[i].seq <= log'[j].seq
      <4>1. CASE j = Len(log) + 1
        <5>1. i \in DOMAIN log
          BY <2>1, <2>2, <3>5, <4>1, <1>0
        <5> QED  BY <2>1, <3>4, <3>5, <4>1, <5>1
      <4>2. CASE j \in DOMAIN log
        <5>1. i \in DOMAIN log
          BY <2>1, <2>2, <3>5, <4>2, <1>0
        <5> QED  BY <2>1, <3>1, <3>5, <4>2, <5>1
      <4> QED  BY <2>1, <4>1, <4>2
    <3> QED  BY <2>1, <3>2, <3>3, <3>5
  <2>4. LogStrict'
    <3> SUFFICES ASSUME flaws' \cap {"redelivery", "heartbeat"} = {}
                 PROVE  /\ \A i \in DOMAIN log' : log'[i].seq <= worker'.seq
                        /\ \A i, j \in DOMAIN log' :
                             i < j /\ log'[i].seq > 0 /\ log'[j].seq > 0 =>
                               log'[i].seq < log'[j].seq
      BY DEF LogStrict
    <3>0. "heartbeat" \notin flaws'
      OBVIOUS
    <3>1. /\ \A i \in DOMAIN log : log[i].seq <= worker.seq
          /\ \A i, j \in DOMAIN log :
               i < j /\ log[i].seq > 0 /\ log[j].seq > 0 => log[i].seq < log[j].seq
      BY <1>1 DEF LogStrict
    <3>2. \A i \in DOMAIN log : log[i].seq <= worker'.seq
      BY <1>0, <1>4, <3>0, <3>1
    <3>3. e.seq <= worker'.seq
      BY <1>0, <1>4, <3>0
    <3>4. \A i \in DOMAIN log : e.seq > 0 => log[i].seq < e.seq
      BY <1>0, <1>4, <3>0, <3>1
    <3>5. ASSUME NEW i \in DOMAIN log', NEW j \in DOMAIN log',
                 i < j, log'[i].seq > 0, log'[j].seq > 0
          PROVE  log'[i].seq < log'[j].seq
      <4>1. CASE j = Len(log) + 1
        <5>1. i \in DOMAIN log
          BY <2>1, <2>2, <3>5, <4>1, <1>0
        <5> QED  BY <2>1, <3>4, <3>5, <4>1, <5>1
      <4>2. CASE j \in DOMAIN log
        <5>1. i \in DOMAIN log
          BY <2>1, <2>2, <3>5, <4>2, <1>0
        <5> QED  BY <2>1, <3>1, <3>5, <4>2, <5>1
      <4> QED  BY <2>1, <4>1, <4>2
    <3> QED  BY <2>1, <3>2, <3>3, <3>5
  <2> QED  BY <2>3, <2>4
<1> QED  BY <1>2, <1>3, <1>4, LogMoves

-----------------------------------------------------------------------------
(* The end of what the client sees. *)

\* Who adds to what the client sees.
LEMMA SeenMoves ==
  ASSUME Base, Next
  PROVE  \/ UNCHANGED seen
         \/ \E c \in Conns : \/ WriteMissing(c)
                             \/ Deliver(c) /\ Fresh(c, Head(conn[c].ch))
<1>1. CASE WorkerEvent \/ Heartbeat \/ Redeliver \/ ApplyEvent \/ Rewind \/ Lose
  BY <1>1 DEF WorkerEvent, Heartbeat, Redeliver, ApplyEvent, Rewind, Lose, client
<1>2. CASE DispatchEvent
  BY <1>2 DEF DispatchEvent, client
<1>3. ASSUME NEW c \in Conns, Enter(c) \/ Enqueue(c) \/ Announce(c) \/ Replay(c) \/ GoLive(c)
      PROVE  UNCHANGED seen
  BY <1>3 DEF Enter, Enqueue, Announce, Replay, GoLive, client
<1>4. ASSUME NEW c \in Conns, Check(c) \/ Await(c) \/ Notice(c) \/ GiveUp(c)
      PROVE  UNCHANGED seen
  BY <1>4 DEF Check, Await, Notice, GiveUp, client
<1>5. ASSUME NEW c \in Conns, Deliver(c), ~Fresh(c, Head(conn[c].ch))
      PROVE  UNCHANGED seen
  BY <1>5, DeliverEffect
<1> QED  BY <1>1, <1>2, <1>3, <1>4, <1>5 DEF Next, HandlerStep

\* What c sees is added at the end, and c is the stream the client reads.
LEMMA SeesEffect ==
  ASSUME Base, NEW c \in Conns,
         WriteMissing(c) \/ (Deliver(c) /\ Fresh(c, Head(conn[c].ch)))
  PROVE  /\ c \in Streams /\ listening = c /\ conn[c].at \in {"writing", "live"}
         /\ UNCHANGED <<job, log, consumer, listening, flaws, faults>>
         /\ \E i \in Nat :
              /\ Numbered(i) /\ seen' = Append(seen, i)
              /\ conn[c].at = "writing" => i \in conn[c].todo /\ \A k \in conn[c].todo : i <= k
              /\ conn[c].at = "live" => conn[c].ch # <<>> /\ i = Head(conn[c].ch) /\ Fresh(c, i)
              /\ TerminalType(log[i].type) => conn'[c].at = "done"
<1>1. /\ conn[c].at \in {"writing", "live"}
      /\ UNCHANGED <<job, log, consumer, listening, flaws, faults>>
  BY DEF WriteMissing, Deliver
<1>2. c \in Streams /\ listening = c
  BY <1>1, PlaceFacts DEF Place, Reading
<1>3. CASE WriteMissing(c)
  <2>1. conn[c].at = "writing"
    BY <1>3 DEF WriteMissing
  <2>2. PICK i \in conn[c].todo :
          /\ \A k \in conn[c].todo : i <= k
          /\ seen' = Append(seen, i)
          /\ TerminalType(log[i].type) => Puts(c, "done", <<>>, 0, {})
    BY <1>3, WriteEffect
  <2>3. Numbered(i) /\ i \in Nat
    BY PlaceFacts
  <2> QED  BY <1>1, <1>2, <2>1, <2>2, <2>3 DEF Puts, Is
<1>4. CASE Deliver(c) /\ Fresh(c, Head(conn[c].ch))
  <2> DEFINE i == Head(conn[c].ch)
  <2>1. conn[c].at = "live" /\ conn[c].ch # <<>>
    BY <1>4 DEF Deliver
  <2>2. seen' = Append(seen, i) /\ (TerminalType(log[i].type) => Puts(c, "done", <<>>, 0, {}))
    BY <1>4, DeliverEffect
  <2>3. i \in DOMAIN log
    BY <2>1, TailFacts
  <2>4. log[i].seq \in Nat /\ conn[c].lastSent \in Nat /\ i \in Nat
    <3> HIDE DEF i
    <3>1. log[i].seq \in Nat /\ i \in Nat
      BY <2>3, LogFacts DEF Base
    <3> QED  BY <3>1, PlaceFacts
  <2>5. log[i].seq > conn[c].lastSent
    BY <1>4 DEF Fresh
  <2>6. Numbered(i)
    BY <2>3, <2>4, <2>5 DEF Numbered
  <2>7. Fresh(c, i)
    BY <1>4
  <2> HIDE DEF i
  <2>8. i = Head(conn[c].ch)
    BY DEF i
  <2> QED  BY <1>1, <1>2, <2>1, <2>2, <2>4, <2>6, <2>7, <2>8 DEF Puts, Is
<1> QED  BY <1>3, <1>4

\* A step of another handler leaves the stream c alone.
LEMMA OthersSpare ==
  ASSUME Base, NEW c \in Streams, listening = c,
         NEW d \in Conns, d # c, Enter(d) \/ HandlerStep(d) \/ Notice(d) \/ GiveUp(d)
  PROVE  /\ conn'[c] = conn[c] /\ listening' = c /\ UNCHANGED <<seen, dispatched>>
         /\ current' # c \/ UNCHANGED current
<1>0. c \in Conns /\ c # None
  BY StreamingAssumption DEF Conns
<1>1. CASE Enter(d)
  <2>1. d \notin Streams
    BY <1>0, <1>1 DEF Enter
  <2>2. listening' = c /\ current' = d /\ UNCHANGED <<seen, dispatched>>
    BY <1>1, <2>1 DEF Enter, consumer
  <2>3. conn'[c] = conn[c]
    BY <1>0, <1>1, EnterEffect DEF Puts
  <2> QED  BY <2>2, <2>3
<1>2. CASE Enqueue(d)
  <2>1. PICK out \in Outcomes :
          /\ conn' = [conn EXCEPT ![d].at = IF out.ok THEN "announce" ELSE "gone"]
          /\ IF out.ok THEN UNCHANGED <<current, listening>>
             ELSE Unregister /\ listening' = IF listening = d THEN None ELSE listening
    BY <1>2 DEF Enqueue
  <2>2. conn'[c] = conn[c]
    BY <1>0, <2>1, EnqueueEffect DEF Puts, Base
  <2>3. listening' = c /\ (current' # c \/ UNCHANGED current)
    BY <1>0, <2>1 DEF Unregister
  <2> QED  BY <1>2, <2>2, <2>3 DEF Enqueue
<1>3. CASE Announce(d)
  BY <1>0, <1>3, AnnounceEffect DEF Announce, client, consumer, Puts, Base
<1>4. CASE Replay(d) \/ WriteMissing(d) \/ GoLive(d) \/ Deliver(d)
  <2>1. conn[d].at \in Reading
    BY <1>4 DEF Replay, WriteMissing, GoLive, Deliver, Reading
  <2> QED  BY <2>1, PlaceFacts DEF Place
<1>5. CASE Check(d)
  <2>1. UNCHANGED <<listening, seen, dispatched>>
    BY <1>5 DEF Check, client, consumer
  <2>2. CASE Terminal(status)
    <3>1. Puts(d, "done", <<>>, 0, {}) /\ current' = None
      BY <1>5, <2>2, FinishEffect DEF Check, Base
    <3> QED  BY <1>0, <2>1, <3>1 DEF Puts
  <2>3. CASE ~Terminal(status)
    <3>1. Puts(d, "wait", conn[d].ch, conn[d].lastSent, conn[d].todo) /\ UNCHANGED current
      BY <1>5, <2>3, PutsAt DEF Check, Base, Ats
    <3> QED  BY <1>0, <2>1, <3>1 DEF Puts
  <2> QED  BY <2>2, <2>3
<1>6. CASE Await(d)
  BY <1>0, <1>6, AwaitEffect DEF client, consumer, Puts
<1>7. CASE Notice(d) \/ GiveUp(d)
  <2>1. conn'[c] = conn[c]
    BY <1>0, <1>7, GoneBase DEF Puts
  <2>2. current' = None /\ UNCHANGED <<client, consumer>>
    BY <1>7 DEF Notice, GiveUp, Unregister
  <2> QED  BY <1>0, <2>1, <2>2 DEF client, consumer
<1> QED  BY <1>1, <1>2, <1>3, <1>4, <1>5, <1>6, <1>7 DEF HandlerStep

\* A stream that is done stays the one the client reads.
LEMMA DoneStays ==
  ASSUME Base, Next, NEW c \in Streams, listening = c, conn[c].at = "done"
  PROVE  listening' = c /\ conn'[c].at = "done"
<1>0. c \in Conns
  BY DEF Conns
<1>1. CASE WorkerEvent \/ Heartbeat \/ Redeliver \/ ApplyEvent \/ Rewind
  BY <1>1 DEF WorkerEvent, Heartbeat, Redeliver, ApplyEvent, Rewind, client
<1>2. CASE DispatchEvent
  <2>1. UNCHANGED client
    BY <1>2, HandEffect
  <2>2. conn'[c].at = conn[c].at
    BY <1>0, <1>2, HandEffect DEF Puts, Is
  <2> QED  BY <2>1, <2>2 DEF client
<1>3. CASE Lose
  BY <1>3 DEF Lose
<1>4. ASSUME NEW d \in Conns, Enter(d) \/ HandlerStep(d) \/ Notice(d) \/ GiveUp(d)
      PROVE  d # c
  BY <1>4 DEF Enter, HandlerStep, Enqueue, Announce, Replay, WriteMissing, GoLive, Deliver,
              Check, Await, Notice, GiveUp
<1> QED  BY <1>1, <1>2, <1>3, <1>4, OthersSpare DEF Next

LEMMA EndStep ==
  ASSUME Base, EndSeen, Next
  PROVE  EndSeen'
<1>0. /\ DOMAIN seen = 1 .. Len(seen) /\ Len(seen) \in Nat
      /\ \A k \in DOMAIN seen : seen[k] \in DOMAIN log
  BY LogFacts DEF Base, Places, Numbered
<1>1. Grows
  BY NextGrows
<1>2. CASE UNCHANGED seen
  <2> SUFFICES ASSUME NEW k \in DOMAIN seen', TerminalType(log'[seen'[k]].type)
               PROVE  listening' \in Streams /\ conn'[listening'].at = "done"
    BY DEF EndSeen
  <2>1. k \in DOMAIN seen /\ TerminalType(log[seen[k]].type)
    BY <1>0, <1>1, <1>2 DEF Grows
  <2>2. listening \in Streams /\ conn[listening].at = "done"
    BY <2>1 DEF EndSeen
  <2> QED  BY <2>2, DoneStays
<1>3. ASSUME NEW c \in Conns,
             WriteMissing(c) \/ (Deliver(c) /\ Fresh(c, Head(conn[c].ch)))
      PROVE  EndSeen'
  <2>1. /\ c \in Streams /\ listening = c /\ listening' = c /\ UNCHANGED log
        /\ conn[c].at \in {"writing", "live"}
    BY <1>3, SeesEffect
  <2>2. PICK i \in Nat : /\ seen' = Append(seen, i)
                         /\ TerminalType(log[i].type) => conn'[c].at = "done"
    BY <1>3, SeesEffect
  <2>3. \A k \in DOMAIN seen : ~TerminalType(log[seen[k]].type)
    BY <2>1 DEF EndSeen
  <2>4. \A k \in DOMAIN seen' : seen'[k] = i \/ (k \in DOMAIN seen /\ seen'[k] = seen[k])
    BY <2>2, SeenGrowsBy DEF Base
  <2> QED  BY <2>1, <2>2, <2>3, <2>4 DEF EndSeen
<1> QED  BY <1>2, <1>3, SeenMoves

-----------------------------------------------------------------------------
(* What the client sees, and what the stream it reads holds. *)

\* What is seen is all there is before it.
Closed ==
  \A k \in DOMAIN seen, i \in Nat : Numbered(i) /\ i <= seen[k] => i \in Range(seen)

LEMMA SeenIsClosed ==
  ASSUME Base, SeenWithoutGaps, flaws = {}
  PROVE  Closed
<1> SUFFICES ASSUME NEW k \in DOMAIN seen, NEW i \in Nat, Numbered(i), i <= seen[k]
             PROVE  i \in Range(seen)
  BY DEF Closed
<1>1. i \in 1 .. seen[k] /\ log[i].seq > 0
  <2>1. DOMAIN log = 1 .. Len(log) /\ Len(log) \in Nat
    BY LogFacts DEF Base
  <2>2. seen[k] \in DOMAIN log
    BY DEF Base, Places, Numbered
  <2> QED  BY <2>1, <2>2 DEF Numbered
<1> QED  BY <1>1 DEF SeenWithoutGaps

\* An event whose number the stream has passed has been seen.
LEMMA PassedIsSeen ==
  ASSUME Base, LogStrict, SeenWithoutGaps, flaws = {}, NEW c \in Conns, Marked(c),
         conn[c].at \in Reading, NEW i, Numbered(i), log[i].seq <= conn[c].lastSent
  PROVE  i \in Range(seen)
<1>0. /\ \A j \in DOMAIN log : log[j].seq \in Nat
      /\ DOMAIN log \subseteq Nat
      /\ \A k \in DOMAIN seen : Numbered(seen[k])
  BY LogFacts DEF Base, Places
<1>1. i \in DOMAIN log /\ i \in Nat /\ log[i].seq \in Nat /\ log[i].seq > 0
  BY <1>0 DEF Numbered
<1>2. conn[c].lastSent # 0
  BY <1>1
<1>3. PICK k \in DOMAIN seen : conn[c].lastSent = log[seen[k]].seq
  BY <1>2 DEF Marked
<1>4. seen[k] \in DOMAIN log /\ seen[k] \in Nat /\ log[seen[k]].seq \in Nat /\ log[seen[k]].seq > 0
  BY <1>0 DEF Numbered
<1>5. ~(seen[k] < i)
  <2>1. seen[k] < i => log[seen[k]].seq < log[i].seq
    BY <1>1, <1>4 DEF LogStrict
  <2> QED  BY <1>1, <1>3, <1>4, <2>1
<1>6. i <= seen[k]
  BY <1>1, <1>4, <1>5
<1> QED  BY <1>1, <1>6, SeenIsClosed DEF Closed

\* An event whose number the stream has not reached comes after what is seen.
LEMMA FreshIsAhead ==
  ASSUME Base, LogOrdered, "redelivery" \notin flaws, NEW c \in Conns, Marked(c),
         conn[c].at \in Reading, NEW i \in DOMAIN log, log[i].seq > conn[c].lastSent
  PROVE  \A k \in DOMAIN seen : seen[k] < i
<1> TAKE k \in DOMAIN seen
<1>0. /\ \A j \in DOMAIN log : log[j].seq \in Nat
      /\ DOMAIN log \subseteq Nat /\ Numbered(seen[k])
  BY LogFacts DEF Base, Places
<1>1. i \in Nat /\ log[i].seq \in Nat /\ conn[c].lastSent \in Nat
  BY <1>0, PlaceFacts
<1>2. seen[k] \in DOMAIN log /\ seen[k] \in Nat /\ log[seen[k]].seq \in Nat /\ log[seen[k]].seq > 0
  BY <1>0 DEF Numbered
<1>3. log[seen[k]].seq <= conn[c].lastSent
  BY DEF Marked
<1>4. i < seen[k] => log[i].seq <= log[seen[k]].seq
  BY <1>1, <1>2 DEF LogOrdered
<1> QED  BY <1>1, <1>2, <1>3, <1>4

\* The log before an event is what it was.
LEMMA NumberedWas ==
  ASSUME Base, Base', Grows, NEW i \in Nat, Numbered(i)', NEW j \in DOMAIN log, i <= j
  PROVE  Numbered(i)
<1>1. DOMAIN log = 1 .. Len(log) /\ Len(log) \in Nat
  BY LogFacts DEF Base
<1>2. i \in DOMAIN log' /\ log'[i].seq > 0
  BY DEF Numbered
<1>3. i # 0
  <2>1. log' \in Seq([type : Types, seq : Nat])
    BY DEF Base, TypeOK
  <2> QED  BY <1>2, <2>1
<1> QED  BY <1>1, <1>2, <1>3 DEF Numbered, Grows

\* The order of what is seen, when an event is added.
LEMMA OrderGrows ==
  ASSUME Base, SeenInOrder, flaws' = flaws, NEW i \in Nat, seen' = Append(seen, i),
         "redelivery" \notin flaws => \A k \in DOMAIN seen : seen[k] < i
  PROVE  SeenInOrder'
<1>1. /\ seen'[Len(seen) + 1] = i
      /\ \A k \in DOMAIN seen : seen'[k] = seen[k]
      /\ \A k \in DOMAIN seen' : k \in DOMAIN seen \/ k = Len(seen) + 1
  BY SeenGrowsBy DEF Base
<1>2. DOMAIN seen = 1 .. Len(seen) /\ Len(seen) \in Nat
  BY LogFacts DEF Base
<1> SUFFICES ASSUME "redelivery" \notin flaws', NEW k \in DOMAIN seen', NEW l \in DOMAIN seen', k < l
             PROVE  seen'[k] < seen'[l]
  BY DEF SeenInOrder
<1>3. k \in DOMAIN seen
  BY <1>1, <1>2
<1>4. CASE l \in DOMAIN seen
  BY <1>1, <1>3, <1>4 DEF SeenInOrder
<1>5. CASE l = Len(seen) + 1
  BY <1>1, <1>3, <1>5
<1> QED  BY <1>1, <1>4, <1>5

LEMMA GapsGrow ==
  ASSUME Base, SeenInOrder, SeenWithoutGaps, flaws' = flaws, UNCHANGED log,
         NEW i \in Nat, seen' = Append(seen, i), Numbered(i),
         flaws = {} => /\ \A k \in DOMAIN seen : seen[k] < i
                       /\ \A j \in Nat : Numbered(j) /\ j < i => j \in Range(seen)
  PROVE  SeenWithoutGaps'
<1>1. /\ seen'[Len(seen) + 1] = i
      /\ \A k \in DOMAIN seen : seen'[k] = seen[k]
      /\ \A k \in DOMAIN seen' : k \in DOMAIN seen \/ k = Len(seen) + 1
      /\ \A j : j \in Range(seen') <=> j \in Range(seen) \/ j = i
  BY SeenGrowsBy DEF Base
<1>2. DOMAIN log = 1 .. Len(log) /\ Len(log) \in Nat
  BY LogFacts DEF Base
<1> SUFFICES ASSUME flaws' = {}
             PROVE  /\ \A k, l \in DOMAIN seen' : k < l => seen'[k] < seen'[l]
                    /\ \A k \in DOMAIN seen' :
                         /\ log'[seen'[k]].seq > 0
                         /\ \A j \in 1 .. seen'[k] : log'[j].seq > 0 => j \in Range(seen')
  BY DEF SeenWithoutGaps
<1>3. \A k, l \in DOMAIN seen' : k < l => seen'[k] < seen'[l]
  <2>1. SeenInOrder'
    BY OrderGrows
  <2> QED  BY <2>1 DEF SeenInOrder
<1>4. ASSUME NEW k \in DOMAIN seen'
      PROVE  /\ log'[seen'[k]].seq > 0
             /\ \A j \in 1 .. seen'[k] : log'[j].seq > 0 => j \in Range(seen')
  <2>1. CASE k \in DOMAIN seen
    BY <1>1, <2>1 DEF SeenWithoutGaps
  <2>2. CASE k = Len(seen) + 1
    <3>1. log[i].seq > 0 /\ i \in DOMAIN log
      BY DEF Numbered
    <3>2. ASSUME NEW j \in 1 .. i, log[j].seq > 0
          PROVE  j \in Range(seen')
      <4>1. Numbered(j) /\ j \in Nat
        BY <1>2, <3>1, <3>2 DEF Numbered
      <4>2. j = i \/ j < i
        OBVIOUS
      <4> QED  BY <1>1, <4>1, <4>2
    <3> QED  BY <1>1, <2>2, <3>1, <3>2
  <2> QED  BY <1>1, <2>1, <2>2
<1> QED  BY <1>3, <1>4

\* The stream moves on with all it holds, while the log may grow.
LEMMA MovedJoins ==
  ASSUME Base, Base', Grows, flaws \subseteq flaws', NEW c \in Conns, Joins(c),
         conn'[c].ch = conn[c].ch, conn'[c].todo = conn[c].todo,
         conn'[c].lastSent = conn[c].lastSent, UNCHANGED seen,
         conn'[c].at \in Reading =>
           conn[c].at \in Reading \/ (conn[c].lastSent = 0 /\ DOMAIN seen = {}),
         conn'[c].at \in Opening \cup {"writing", "live"} =>
           conn[c].at \in Opening \cup {"writing", "live"},
         current' = c => current = c /\ dispatched' <= dispatched
  PROVE  Joins(c)'
<1>0. /\ \A i \in conn[c].todo : i \in DOMAIN log
      /\ \A k \in DOMAIN conn[c].ch : conn[c].ch[k] \in DOMAIN log
      /\ \A k \in DOMAIN seen : seen[k] \in DOMAIN log
      /\ DOMAIN log = 1 .. Len(log) /\ Len(log) \in Nat
      /\ dispatched \in Nat /\ dispatched <= Len(log)
  BY PlaceFacts, LogFacts DEF Base, Places, Numbered
<1>1. Marked(c)'
  <2>1. \A k \in DOMAIN seen : log'[seen[k]] = log[seen[k]]
    BY <1>0 DEF Grows
  <2> QED  BY <2>1 DEF Marked, Joins
<1>2. Ahead(c)'
  BY DEF Ahead, Joins
<1>3. Joined(c)'
  <2> SUFFICES ASSUME flaws' = {}, conn'[c].at \in Opening \cup {"writing", "live"}
               PROVE  /\ \A i \in conn'[c].todo, j \in Nat : Numbered(j)' /\ j < i => Kept(c, j)'
                      /\ \A k \in DOMAIN conn'[c].ch, i \in Nat :
                           Numbered(i)' /\ i < conn'[c].ch[k] =>
                             Kept(c, i)' \/ \E l \in DOMAIN conn'[c].ch : l < k /\ conn'[c].ch[l] = i
                      /\ current' = c => \A i \in Nat : Numbered(i)' /\ i <= dispatched' =>
                           Kept(c, i)' \/ \E l \in DOMAIN conn'[c].ch : conn'[c].ch[l] = i
    BY DEF Joined
  <2>0. Joined(c) /\ flaws = {} /\ conn[c].at \in Opening \cup {"writing", "live"}
    BY DEF Joins
  <2>1. \A i : Kept(c, i)' <=> Kept(c, i)
    BY DEF Kept
  <2>2. ASSUME NEW i \in conn[c].todo, NEW j \in Nat, Numbered(j)', j < i
        PROVE  Kept(c, j)'
    <3>1. Numbered(j)
      BY <1>0, <2>2, NumberedWas
    <3> QED  BY <2>0, <2>1, <2>2, <3>1 DEF Joined
  <2>3. ASSUME NEW k \in DOMAIN conn[c].ch, NEW i \in Nat, Numbered(i)', i < conn[c].ch[k]
        PROVE  Kept(c, i)' \/ \E l \in DOMAIN conn[c].ch : l < k /\ conn[c].ch[l] = i
    <3>1. Numbered(i)
      BY <1>0, <2>3, NumberedWas
    <3> QED  BY <2>0, <2>1, <2>3, <3>1 DEF Joined
  <2>4. ASSUME current' = c, NEW i \in Nat, Numbered(i)', i <= dispatched'
        PROVE  Kept(c, i)' \/ \E l \in DOMAIN conn[c].ch : conn[c].ch[l] = i
    <3>0. dispatched' \in Nat
      BY DEF Base, TypeOK
    <3>1. i <= dispatched
      BY <1>0, <2>4, <3>0
    <3>2. Numbered(i)
      <4>1. i = 0 \/ i \in DOMAIN log
        BY <1>0, <3>1
      <4>2. CASE i \in DOMAIN log
        BY <1>0, <2>4, <4>2, NumberedWas
      <4>3. CASE i = 0
        <5>1. log' \in Seq([type : Types, seq : Nat])
          BY DEF Base, TypeOK
        <5> QED  BY <2>4, <4>3, <5>1 DEF Numbered
      <4> QED  BY <4>1, <4>2, <4>3
    <3> QED  BY <2>0, <2>1, <2>4, <3>1, <3>2 DEF Joined
  <2> QED  BY <2>2, <2>3, <2>4
<1> QED  BY <1>1, <1>2, <1>3 DEF Joins

\* The stream stays as it is.
LEMMA QuietJoins ==
  ASSUME Base, Base', Grows, flaws \subseteq flaws', NEW c \in Conns, Joins(c),
         conn'[c] = conn[c], UNCHANGED seen,
         current' = c => current = c /\ dispatched' <= dispatched
  PROVE  Joins(c)'
  BY MovedJoins

\* An event dispatched to the stream is the next one, or is lost.
LEMMA DispatchJoins ==
  ASSUME Base, Base', DispatchEvent, NEW c \in Streams, listening = c, Joins(c)
  PROVE  Joins(c)'
<1>0. c \in Conns /\ c # None
  BY StreamingAssumption DEF Conns
<1>1. /\ dispatched' = dispatched + 1 /\ dispatched + 1 \in DOMAIN log /\ dispatched \in Nat
      /\ UNCHANGED <<log, current, seen>> /\ flaws \subseteq flaws'
  BY HandEffect DEF client
<1>2. Grows
  BY <1>1, GrowsStill
<1>3. CASE current # c
  <2>1. conn'[c] = conn[c]
    BY <1>0, <1>3, HandEffect DEF Puts
  <2> QED  BY <1>0, <1>1, <1>2, <1>3, <2>1, QuietJoins
<1>4. CASE current = c /\ conn[c].at = "broken"
  BY <1>0, <1>4, PlaceFacts DEF Place
<1>5. CASE current = c /\ UNCHANGED conn /\ flaws' = flaws \cup {"overflow"}
  <2>1. flaws' # {}
    BY <1>5
  <2>2. Marked(c)'
    BY <1>1, <1>5 DEF Joins, Marked
  <2>3. Ahead(c)'
    BY <1>1, <1>5 DEF Joins, Ahead
  <2> QED  BY <2>1, <2>2, <2>3 DEF Joins, Joined
<1>6. CASE current = c /\ UNCHANGED flaws
           /\ Puts(c, conn[c].at, Append(conn[c].ch, dispatched + 1),
                   conn[c].lastSent, conn[c].todo)
  <2> DEFINE h == conn[c].ch
             p == dispatched + 1
  <2>0. h \in Seq(Nat) /\ p \in Nat /\ Len(h) \in Nat /\ DOMAIN h = 1 .. Len(h)
    BY <1>0, <1>1, PlaceFacts
  <2>1. /\ conn'[c].at = conn[c].at /\ conn'[c].ch = Append(h, p)
        /\ conn'[c].lastSent = conn[c].lastSent /\ conn'[c].todo = conn[c].todo
    BY <1>6 DEF Puts, Is
  <2> HIDE DEF h, p
  <2>2. /\ DOMAIN conn'[c].ch = 1 .. Len(h) + 1 /\ conn'[c].ch[Len(h) + 1] = p
        /\ \A k \in DOMAIN h : k \in DOMAIN conn'[c].ch /\ conn'[c].ch[k] = h[k]
        /\ \A k \in DOMAIN conn'[c].ch : k \in DOMAIN h \/ k = Len(h) + 1
    BY <2>0, <2>1
  <2>3. Marked(c)'
    BY <1>1, <1>6, <2>1 DEF Joins, Marked
  <2>4. Ahead(c)'
    BY <1>1, <1>6, <2>1 DEF Joins, Ahead
  <2>5. Joined(c)'
    <3> SUFFICES ASSUME flaws = {}, conn[c].at \in Opening \cup {"writing", "live"}
                 PROVE  /\ \A i \in conn'[c].todo, j \in Nat : Numbered(j)' /\ j < i => Kept(c, j)'
                        /\ \A k \in DOMAIN conn'[c].ch, i \in Nat :
                             Numbered(i)' /\ i < conn'[c].ch[k] =>
                               Kept(c, i)' \/ \E l \in DOMAIN conn'[c].ch : l < k /\ conn'[c].ch[l] = i
                        /\ current' = c => \A i \in Nat : Numbered(i)' /\ i <= dispatched' =>
                             Kept(c, i)' \/ \E l \in DOMAIN conn'[c].ch : conn'[c].ch[l] = i
      BY <1>6, <2>1 DEF Joined
    <3>1. \A i : (Kept(c, i)' <=> Kept(c, i)) /\ (Numbered(i)' <=> Numbered(i))
      BY <1>1, <2>1 DEF Kept, Numbered
    <3>2. /\ \A i \in conn[c].todo, j \in Nat : Numbered(j) /\ j < i => Kept(c, j)
          /\ \A k \in DOMAIN h, i \in Nat : Numbered(i) /\ i < h[k] =>
               Kept(c, i) \/ \E l \in DOMAIN h : l < k /\ h[l] = i
          /\ \A i \in Nat : Numbered(i) /\ i <= dispatched =>
               Kept(c, i) \/ \E l \in DOMAIN h : h[l] = i
      BY <1>6 DEF Joins, Joined, h
    <3>3. \A i \in conn'[c].todo, j \in Nat : Numbered(j)' /\ j < i => Kept(c, j)'
      BY <2>1, <3>1, <3>2
    <3>4. ASSUME NEW k \in DOMAIN conn'[c].ch, NEW i \in Nat, Numbered(i)', i < conn'[c].ch[k]
          PROVE  Kept(c, i)' \/ \E l \in DOMAIN conn'[c].ch : l < k /\ conn'[c].ch[l] = i
      <4>1. CASE k \in DOMAIN h
        BY <2>2, <3>1, <3>2, <3>4, <4>1
      <4>2. CASE k = Len(h) + 1
        <5>1. i <= dispatched
          BY <1>1, <2>2, <3>4, <4>2 DEF p
        <5>2. Kept(c, i) \/ \E l \in DOMAIN h : h[l] = i
          BY <3>1, <3>2, <3>4, <5>1
        <5>3. \A l \in DOMAIN h : l < k
          BY <2>0, <4>2
        <5> QED  BY <2>2, <3>1, <5>2, <5>3
      <4> QED  BY <2>2, <4>1, <4>2
    <3>5. ASSUME NEW i \in Nat, Numbered(i)', i <= dispatched'
          PROVE  Kept(c, i)' \/ \E l \in DOMAIN conn'[c].ch : conn'[c].ch[l] = i
      <4>1. CASE i <= dispatched
        BY <2>2, <3>1, <3>2, <3>5, <4>1
      <4>2. CASE i = p
        <5>1. Len(h) + 1 \in DOMAIN conn'[c].ch
          BY <2>0, <2>2
        <5> QED  BY <2>2, <4>2, <5>1
      <4> QED  BY <1>1, <3>5, <4>1, <4>2 DEF p
    <3> QED  BY <3>3, <3>4, <3>5
  <2> QED  BY <2>3, <2>4, <2>5 DEF Joins
<1> QED  BY <1>0, <1>3, <1>4, <1>5, <1>6, HandEffect

\* A stream begins with nothing, where the client's last stream ended.
LEMMA EnterJoins ==
  ASSUME Base, LogOrdered, SeenInOrder, NEW c \in Streams, Enter(c)
  PROVE  Joins(c)'
<1>0. c \in Conns /\ DOMAIN seen = 1 .. Len(seen) /\ Len(seen) \in Nat
      /\ (\A j \in DOMAIN log : log[j].seq \in Nat) /\ DOMAIN log = 1 .. Len(log)
      /\ dispatched \in Nat /\ seen \in Seq(Nat)
  BY LogFacts DEF Conns, Base
<1> DEFINE a == IF claimed THEN Begin(c) ELSE "enqueue"
<1>1. /\ conn[c].at = "none" /\ UNCHANGED <<log, seen, dispatched>> /\ flaws \subseteq flaws'
      /\ claimed /\ Begin(c) = "live" /\ dispatched > 0 => flaws' # {}
  BY DEF Enter, Flaw, consumer
<1>2. conn[c].ch = <<>> /\ conn[c].todo = {}
  BY <1>0, <1>1, PlaceFacts DEF Place
<1>3. conn'[c].at = a /\ conn'[c].ch = <<>> /\ conn'[c].todo = {} /\ conn'[c].lastSent = LastEventID(c)
  BY <1>0, <1>2, EnterEffect DEF Puts, Is
<1> HIDE DEF a
<1>4. Marked(c)'
  <2>1. CASE seen = <<>>
    <3>1. DOMAIN seen = {} /\ LastEventID(c) = 0
      BY <1>0, <2>1, LastIDFacts
    <3> QED  BY <1>1, <1>3, <3>1 DEF Marked
  <2>2. CASE seen # <<>>
    <3>1. LastEventID(c) = log[seen[Len(seen)]].seq /\ Len(seen) \in DOMAIN seen
      BY <1>0, <2>2, LastIDFacts
    <3>2. ASSUME "redelivery" \notin flaws, NEW k \in DOMAIN seen
          PROVE  log[seen[k]].seq <= LastEventID(c)
      <4> DEFINE i == seen[k]
                 j == seen[Len(seen)]
      <4>1. i \in DOMAIN log /\ j \in DOMAIN log /\ log[i].seq > 0 /\ log[j].seq > 0
        BY <3>1 DEF Base, Places, Numbered
      <4>2. log[i].seq \in Nat /\ log[j].seq \in Nat
        BY <1>0, <4>1
      <4>3. k = Len(seen) \/ k < Len(seen)
        BY <1>0
      <4>4. k < Len(seen) => i < j
        BY <3>1, <3>2 DEF SeenInOrder
      <4> HIDE DEF i, j
      <4>5. i < j => log[i].seq <= log[j].seq
        BY <3>2, <4>1 DEF LogOrdered
      <4>6. k = Len(seen) => i = j
        BY DEF i, j
      <4>7. log[i].seq <= log[j].seq
        BY <4>2, <4>3, <4>4, <4>5, <4>6
      <4> QED  BY <3>1, <4>7 DEF i, j
    <3>3. "redelivery" \notin flaws' => "redelivery" \notin flaws
      BY <1>1
    <3> QED  BY <1>1, <1>3, <3>1, <3>2, <3>3 DEF Marked
  <2> QED  BY <2>1, <2>2
<1>5. Ahead(c)'
  BY <1>3 DEF Ahead
<1>6. Joined(c)'
  <2> SUFFICES ASSUME flaws' = {}, conn'[c].at \in Opening \cup {"writing", "live"},
                      NEW i \in Nat, Numbered(i)', i <= dispatched'
               PROVE  FALSE
    BY <1>3 DEF Joined
  <2>1. Numbered(i) /\ i <= dispatched
    BY <1>1 DEF Numbered
  <2>2. claimed
    <3>1. ~claimed => Len(log) = 0
      BY DEF Base, Nothing
    <3> QED  BY <1>0, <2>1, <3>1 DEF Numbered
  <2>3. a = "live" /\ Begin(c) = "live"
    BY <1>0, <1>3, <2>2, BeginFacts DEF a, Opening
  <2>4. dispatched = 0
    BY <1>0, <1>1, <2>2, <2>3
  <2> QED  BY <1>0, <2>1, <2>4 DEF Numbered
<1> QED  BY <1>4, <1>5, <1>6 DEF Joins

\* A stream whose handler puts the job, and its queued event, into Kafka.
LEMMA OpeningJoins ==
  ASSUME Base, Base', NEW c \in Streams, listening = c, listening' = c, Joins(c),
         Enqueue(c) \/ Announce(c)
  PROVE  Joins(c)'
<1>0. c \in Conns /\ c # None
  BY StreamingAssumption DEF Conns
<1>1. Grows /\ flaws \subseteq flaws'
  BY <1>0, NextGrows DEF Next, HandlerStep
<1>2. conn[c].at \in Opening /\ conn[c].lastSent = 0 /\ seen = <<>>
  BY <1>0, PlaceFacts DEF Place, Enqueue, Announce, Opening
<1>3. DOMAIN seen = {}
  BY <1>2
<1>4. CASE Enqueue(c)
  <2>1. PICK out \in Outcomes :
          /\ conn' = [conn EXCEPT ![c].at = IF out.ok THEN "announce" ELSE "gone"]
          /\ IF out.ok THEN UNCHANGED <<current, listening>>
             ELSE Unregister /\ listening' = IF listening = c THEN None ELSE listening
    BY <1>4 DEF Enqueue
  <2>2. UNCHANGED <<seen, dispatched, current>>
    BY <1>0, <1>4, <2>1 DEF Enqueue
  <2>3. /\ conn'[c].ch = conn[c].ch /\ conn'[c].lastSent = conn[c].lastSent
        /\ conn'[c].todo = conn[c].todo
    BY <1>0, <2>1, EnqueueEffect DEF Puts, Is, Base
  <2>4. dispatched' <= dispatched
    BY <2>2, LogFacts DEF Base
  <2> QED  BY <1>0, <1>1, <1>2, <1>3, <2>2, <2>3, <2>4, MovedJoins
<1>5. CASE Announce(c)
  <2>1. UNCHANGED <<seen, dispatched, current>>
    BY <1>5 DEF Announce, client, consumer
  <2>2. /\ conn'[c].ch = conn[c].ch /\ conn'[c].lastSent = conn[c].lastSent
        /\ conn'[c].todo = conn[c].todo
    BY <1>0, <1>5, AnnounceEffect DEF Puts, Is, Base
  <2>3. dispatched' <= dispatched
    BY <2>1, LogFacts DEF Base
  <2> QED  BY <1>0, <1>1, <1>2, <1>3, <2>1, <2>2, <2>3, MovedJoins
<1> QED  BY <1>4, <1>5

\* The replay ends, and the stream goes live.
LEMMA GoLiveJoins ==
  ASSUME Base, Base', NEW c \in Streams, listening = c, Joins(c), GoLive(c)
  PROVE  Joins(c)'
<1>0. c \in Conns
  BY DEF Conns
<1>1. Grows /\ flaws \subseteq flaws'
  BY <1>0, NextGrows DEF Next, HandlerStep
<1>2. /\ conn[c].at = "writing" /\ conn' = [conn EXCEPT ![c].at = "live"]
      /\ UNCHANGED <<seen, dispatched, current>>
  BY DEF GoLive, client, consumer
<1>3. Puts(c, "live", conn[c].ch, conn[c].lastSent, conn[c].todo)
  BY <1>0, <1>2, PutsAt DEF Base, Ats
<1>4. dispatched' <= dispatched
  BY <1>2, LogFacts DEF Base
<1> QED  BY <1>0, <1>1, <1>2, <1>3, <1>4, MovedJoins DEF Puts, Is, Reading

\* The replay finds every event the client has not seen.
LEMMA ReplayJoins ==
  ASSUME Base, LogOrdered, LogStrict, SeenWithoutGaps,
         NEW c \in Streams, listening = c, Joins(c), Replay(c)
  PROVE  Joins(c)'
<1>0. c \in Conns
  BY DEF Conns
<1>1. PICK n \in 0 .. Len(log) :
        /\ n # Len(log) => "short" \in flaws'
        /\ Puts(c, "writing", conn[c].ch, conn[c].lastSent, Missing(n, conn[c].lastSent))
  BY <1>0, ReplayEffect DEF Base
<1>2. conn[c].at = "replay" /\ conn[c].at \in Reading
      /\ UNCHANGED <<log, seen>> /\ flaws \subseteq flaws'
  BY DEF Replay, client, Flaw, Reading
<1>3. /\ conn'[c].at = "writing" /\ conn'[c].ch = conn[c].ch
      /\ conn'[c].lastSent = conn[c].lastSent /\ conn'[c].todo = Missing(n, conn[c].lastSent)
  BY <1>1 DEF Puts, Is
<1>4. /\ \A i \in conn'[c].todo : i \in DOMAIN log /\ log[i].seq > conn[c].lastSent
      /\ n = Len(log) => \A i \in DOMAIN log : log[i].seq > conn[c].lastSent => i \in conn'[c].todo
  BY <1>0, <1>3, MissingFacts, PlaceFacts DEF Base
<1>5. Marked(c) /\ Marked(c)'
  BY <1>2, <1>3 DEF Joins, Marked
<1>6. Ahead(c)'
  <2> SUFFICES ASSUME "redelivery" \notin flaws', NEW i \in conn'[c].todo, NEW k \in DOMAIN seen'
               PROVE  seen'[k] < i
    BY DEF Ahead
  <2>1. "redelivery" \notin flaws
    BY <1>2
  <2> QED  BY <1>0, <1>2, <1>4, <1>5, <2>1, FreshIsAhead
<1>7. Joined(c)'
  <2>1. ASSUME flaws' = {}, NEW i \in Nat, Numbered(i)'
        PROVE  Kept(c, i)'
    <3>1. Numbered(i) /\ i \in DOMAIN log
      BY <1>2, <2>1 DEF Numbered
    <3>2. flaws = {} /\ n = Len(log)
      BY <1>1, <1>2, <2>1
    <3>3. log[i].seq \in Nat /\ conn[c].lastSent \in Nat
      BY <1>0, <3>1, LogFacts, PlaceFacts DEF Base
    <3>4. CASE log[i].seq > conn[c].lastSent
      BY <1>4, <3>1, <3>2, <3>4 DEF Kept
    <3>5. CASE log[i].seq <= conn[c].lastSent
      BY <1>0, <1>2, <1>5, <3>1, <3>2, <3>5, PassedIsSeen DEF Kept
    <3> QED  BY <3>3, <3>4, <3>5
  <2> QED  BY <2>1 DEF Joined
<1> QED  BY <1>5, <1>6, <1>7 DEF Joins

\* What the replay writes next is what the client sees next.
LEMMA WriteSees ==
  ASSUME Base, NEW c \in Conns, Joins(c), conn[c].at = "writing",
         NEW i \in conn[c].todo, \A k \in conn[c].todo : i <= k
  PROVE  /\ "redelivery" \notin flaws => \A k \in DOMAIN seen : seen[k] < i
         /\ flaws = {} => \A j \in Nat : Numbered(j) /\ j < i => j \in Range(seen)
<1>1. "redelivery" \notin flaws => \A k \in DOMAIN seen : seen[k] < i
  BY DEF Joins, Ahead
<1>2. ASSUME flaws = {}, NEW j \in Nat, Numbered(j), j < i
      PROVE  j \in Range(seen)
  <2>1. Kept(c, j)
    BY <1>2 DEF Joins, Joined
  <2>2. j \notin conn[c].todo
    BY <1>2, PlaceFacts
  <2> QED  BY <2>1, <2>2 DEF Kept
<1> QED  BY <1>1, <1>2

\* What the stream delivers next, likewise.
LEMMA DeliverSees ==
  ASSUME Base, LogOrdered, NEW c \in Streams, Joins(c), conn[c].at = "live",
         conn[c].ch # <<>>, Fresh(c, Head(conn[c].ch))
  PROVE  /\ "redelivery" \notin flaws => \A k \in DOMAIN seen : seen[k] < Head(conn[c].ch)
         /\ flaws = {} => \A j \in Nat : Numbered(j) /\ j < Head(conn[c].ch) => j \in Range(seen)
<1>0. c \in Conns
  BY DEF Conns
<1> DEFINE i == Head(conn[c].ch)
<1>1. i \in DOMAIN log /\ 1 \in DOMAIN conn[c].ch /\ i = conn[c].ch[1]
      /\ DOMAIN conn[c].ch = 1 .. Len(conn[c].ch)
  BY <1>0, TailFacts, ConnFacts DEF Base
<1>2. log[i].seq > conn[c].lastSent
  BY DEF Fresh
<1>3. conn[c].todo = {} /\ conn[c].at \in Reading
  BY <1>0, PlaceFacts DEF Place, Reading
<1> HIDE DEF i
<1>4. ASSUME "redelivery" \notin flaws
      PROVE  \A k \in DOMAIN seen : seen[k] < i
  BY <1>0, <1>1, <1>2, <1>3, <1>4, FreshIsAhead DEF Joins
<1>5. ASSUME flaws = {}, NEW j \in Nat, Numbered(j), j < i
      PROVE  j \in Range(seen)
  <2>1. Kept(c, j) \/ \E l \in DOMAIN conn[c].ch : l < 1 /\ conn[c].ch[l] = j
    BY <1>1, <1>5 DEF Joins, Joined
  <2>2. ~ \E l \in DOMAIN conn[c].ch : l < 1
    BY <1>0, <1>1, ConnFacts DEF Base
  <2> QED  BY <1>3, <2>1, <2>2 DEF Kept
<1> QED  BY <1>4, <1>5 DEF i

\* What the client sees stays in order and without gaps.
LEMMA SeenStep ==
  ASSUME Base, LogOrdered, Joint, SeenInOrder, SeenWithoutGaps, Next
  PROVE  SeenInOrder' /\ SeenWithoutGaps'
<1>1. CASE UNCHANGED seen
  <2>1. Grows /\ flaws \subseteq flaws'
    BY NextGrows
  <2>2. SeenInOrder'
    BY <1>1, <2>1 DEF SeenInOrder
  <2>3. /\ \A k \in DOMAIN seen : seen[k] \in DOMAIN log /\ log'[seen[k]] = log[seen[k]]
        /\ DOMAIN log = 1 .. Len(log) /\ Len(log) \in Nat
    BY <2>1, LogFacts DEF Base, Places, Numbered, Grows
  <2>4. \A k \in DOMAIN seen : \A j \in 1 .. seen[k] : log'[j] = log[j]
    BY <2>1, <2>3 DEF Grows
  <2>5. SeenWithoutGaps'
    <3> SUFFICES ASSUME flaws' = {}
                 PROVE  /\ \A k, l \in DOMAIN seen' : k < l => seen'[k] < seen'[l]
                        /\ \A k \in DOMAIN seen' :
                             /\ log'[seen'[k]].seq > 0
                             /\ \A j \in 1 .. seen'[k] : log'[j].seq > 0 => j \in Range(seen')
      BY DEF SeenWithoutGaps
    <3>1. flaws = {}
      BY <2>1
    <3> QED  BY <1>1, <2>3, <2>4, <3>1 DEF SeenWithoutGaps
  <2> QED  BY <2>2, <2>5
<1>2. ASSUME NEW c \in Conns,
             WriteMissing(c) \/ (Deliver(c) /\ Fresh(c, Head(conn[c].ch)))
      PROVE  SeenInOrder' /\ SeenWithoutGaps'
  <2>1. /\ c \in Streams /\ listening = c /\ conn[c].at \in {"writing", "live"}
        /\ UNCHANGED <<log, flaws>>
    BY <1>2, SeesEffect
  <2>2. PICK i \in Nat :
          /\ Numbered(i) /\ seen' = Append(seen, i)
          /\ conn[c].at = "writing" => i \in conn[c].todo /\ \A k \in conn[c].todo : i <= k
          /\ conn[c].at = "live" => conn[c].ch # <<>> /\ i = Head(conn[c].ch) /\ Fresh(c, i)
    BY <1>2, SeesEffect
  <2>3. Joins(c)
    BY <2>1 DEF Joint, Joins
  <2>4. /\ "redelivery" \notin flaws => \A k \in DOMAIN seen : seen[k] < i
        /\ flaws = {} => \A j \in Nat : Numbered(j) /\ j < i => j \in Range(seen)
    <3>1. CASE conn[c].at = "writing"
      BY <2>2, <2>3, <3>1, WriteSees
    <3>2. CASE conn[c].at = "live"
      BY <2>1, <2>2, <2>3, <3>2, DeliverSees
    <3> QED  BY <2>1, <3>1, <3>2
  <2>5. SeenInOrder'
    BY <2>1, <2>2, <2>4, OrderGrows
  <2>6. flaws = {} => \A k \in DOMAIN seen : seen[k] < i
    BY <2>4
  <2> QED  BY <2>1, <2>2, <2>4, <2>5, <2>6, GapsGrow
<1> QED  BY <1>1, <1>2, SeenMoves

\* The stream after it has written an event of its replay.
LEMMA WriteJoins ==
  ASSUME Base, NEW c \in Streams, Joins(c), WriteMissing(c)
  PROVE  Joins(c)'
<1>0. c \in Conns /\ conn[c].at = "writing" /\ UNCHANGED <<log, dispatched, flaws>>
  BY DEF Conns, WriteMissing, consumer
<1>1. PICK i \in conn[c].todo :
           /\ \A k \in conn[c].todo : i <= k
           /\ seen' = Append(seen, i)
           /\ \/ Puts(c, "done", <<>>, 0, {}) /\ current' = None
              \/ /\ UNCHANGED current
                 /\ \E l \in Nat :
                      /\ l = IF log[i].seq > conn[c].lastSent THEN log[i].seq
                             ELSE conn[c].lastSent
                      /\ Puts(c, "writing", conn[c].ch, l, conn[c].todo \ {i})
  BY <1>0, WriteEffect
<1>2. CASE Puts(c, "done", <<>>, 0, {})
  <2>1. conn'[c].at = "done" /\ conn'[c].todo = {}
    BY <1>2 DEF Puts, Is
  <2> QED  BY <2>1 DEF Joins, Marked, Ahead, Joined, Reading, Opening
<1>3. ASSUME UNCHANGED current, NEW l \in Nat,
             l = IF log[i].seq > conn[c].lastSent THEN log[i].seq ELSE conn[c].lastSent,
             Puts(c, "writing", conn[c].ch, l, conn[c].todo \ {i})
      PROVE  Joins(c)'
  <2>1. /\ conn'[c].at = "writing" /\ conn'[c].ch = conn[c].ch /\ conn'[c].lastSent = l
        /\ conn'[c].todo = conn[c].todo \ {i}
    BY <1>3 DEF Puts, Is
  <2>2. /\ i \in Nat /\ i \in DOMAIN log /\ log[i].seq \in Nat
        /\ conn[c].lastSent \in Nat /\ conn[c].todo \subseteq Nat
    BY <1>0, PlaceFacts, LogFacts DEF Base, Numbered
  <2>3. log[i].seq <= l /\ conn[c].lastSent <= l /\ (l = log[i].seq \/ l = conn[c].lastSent)
    BY <1>3, <2>2
  <2>4. /\ seen'[Len(seen) + 1] = i /\ Len(seen) + 1 \in DOMAIN seen'
        /\ \A k \in DOMAIN seen : k \in DOMAIN seen' /\ seen'[k] = seen[k]
        /\ \A k \in DOMAIN seen' : k \in DOMAIN seen \/ k = Len(seen) + 1
        /\ \A j : j \in Range(seen') <=> j \in Range(seen) \/ j = i
    <3>1. Len(seen) \in Nat
      BY LogFacts DEF Base
    <3> QED  BY <1>1, <2>2, <3>1, SeenGrowsBy DEF Base
  <2>5. Marked(c)'
    <3>1. l = 0 \/ \E k \in DOMAIN seen' : l = log[seen'[k]].seq
      <4>1. CASE l = log[i].seq
        BY <2>4, <4>1
      <4>2. CASE l = conn[c].lastSent
        BY <1>0, <2>4, <4>2 DEF Joins, Marked, Reading
      <4> QED  BY <2>3, <4>1, <4>2
    <3>2. ASSUME "redelivery" \notin flaws, NEW k \in DOMAIN seen'
          PROVE  log[seen'[k]].seq <= l
      <4>1. CASE k \in DOMAIN seen
        <5>1. log[seen[k]].seq <= conn[c].lastSent
          BY <1>0, <3>2, <4>1 DEF Joins, Marked, Reading
        <5>2. log[seen[k]].seq \in Nat
          BY <4>1, LogFacts DEF Base, Places, Numbered
        <5> QED  BY <2>2, <2>3, <2>4, <4>1, <5>1, <5>2
      <4>2. CASE k = Len(seen) + 1
        BY <2>3, <2>4, <4>2
      <4> QED  BY <2>4, <4>1, <4>2
    <3> QED  BY <1>0, <2>1, <3>1, <3>2 DEF Marked
  <2>6. Ahead(c)'
    <3> SUFFICES ASSUME "redelivery" \notin flaws', NEW k \in conn'[c].todo, NEW m \in DOMAIN seen'
                 PROVE  seen'[m] < k
      BY DEF Ahead
    <3>1. k \in conn[c].todo /\ k # i /\ k \in Nat
      BY <2>1, <2>2
    <3>2. CASE m \in DOMAIN seen
      BY <1>0, <2>4, <3>1, <3>2 DEF Joins, Ahead
    <3>3. CASE m = Len(seen) + 1
      BY <1>1, <2>2, <2>4, <3>1, <3>3
    <3> QED  BY <2>4, <3>2, <3>3
  <2>7. Joined(c)'
    <3>1. \A j : (Kept(c, j)' <=> Kept(c, j)) /\ (Numbered(j)' <=> Numbered(j))
      BY <1>0, <2>1, <2>4 DEF Kept, Numbered
    <3> SUFFICES ASSUME flaws' = {}
                 PROVE  /\ \A k \in conn'[c].todo, j \in Nat : Numbered(j)' /\ j < k => Kept(c, j)'
                        /\ \A k \in DOMAIN conn'[c].ch, j \in Nat :
                             Numbered(j)' /\ j < conn'[c].ch[k] =>
                               Kept(c, j)' \/ \E m \in DOMAIN conn'[c].ch : m < k /\ conn'[c].ch[m] = j
                        /\ current' = c => \A j \in Nat : Numbered(j)' /\ j <= dispatched' =>
                             Kept(c, j)' \/ \E m \in DOMAIN conn'[c].ch : conn'[c].ch[m] = j
      BY DEF Joined
    <3>2. Joined(c) /\ flaws = {} /\ conn[c].at \in Opening \cup {"writing", "live"}
      BY <1>0 DEF Joins
    <3> QED  BY <1>0, <1>3, <2>1, <3>1, <3>2 DEF Joined
  <2> QED  BY <2>5, <2>6, <2>7 DEF Joins
<1> QED  BY <1>1, <1>2, <1>3

\* The stream after it has taken an event off its channel, which it has seen.
LEMMA TailJoins ==
  ASSUME Base, NEW c \in Streams, Joins(c), UNCHANGED <<log, dispatched, current, flaws>>,
         conn[c].at = "live", conn[c].ch # <<>>,
         conn'[c].at = "live", conn'[c].ch = Tail(conn[c].ch),
         conn[c].todo = {}, conn'[c].todo = {},
         \A j : Kept(c, j) => Kept(c, j)',
         NEW i, i = Head(conn[c].ch), flaws = {} /\ Numbered(i) => Kept(c, i)'
  PROVE  Joined(c)'
<1> DEFINE h == conn[c].ch
           t == Tail(h)
<1>0. c \in Conns
  BY DEF Conns
<1>1. /\ 1 \in DOMAIN h /\ Head(h) = h[1]
      /\ \A k \in DOMAIN t : k + 1 \in DOMAIN h /\ t[k] = h[k + 1]
      /\ \A k \in DOMAIN h : k = 1 \/ k - 1 \in DOMAIN t
      /\ DOMAIN h \subseteq Nat /\ DOMAIN t \subseteq Nat
  BY <1>0, TailFacts
<1>2. \A k \in DOMAIN h : k = 1 \/ (k - 1 \in DOMAIN t /\ t[k - 1] = h[k])
  <2> TAKE k \in DOMAIN h
  <2> HIDE DEF h, t
  <2>1. k \in Nat
    BY <1>1
  <2>2. k - 1 \in DOMAIN t => t[k - 1] = h[k - 1 + 1]
    BY <1>1
  <2>3. k - 1 + 1 = k
    BY <2>1
  <2> QED  BY <1>1, <2>2, <2>3
<1>3. conn'[c].ch = t
  OBVIOUS
<1>4. \A j : Numbered(j)' <=> Numbered(j)
  BY DEF Numbered
<1> SUFFICES ASSUME flaws' = {}
             PROVE  /\ \A k \in DOMAIN t, j \in Nat :
                         Numbered(j) /\ j < t[k] =>
                           Kept(c, j)' \/ \E m \in DOMAIN t : m < k /\ t[m] = j
                    /\ current = c => \A j \in Nat : Numbered(j) /\ j <= dispatched =>
                         Kept(c, j)' \/ \E m \in DOMAIN t : t[m] = j
  BY <1>3, <1>4 DEF Joined
<1>5. /\ \A k \in DOMAIN h, j \in Nat : Numbered(j) /\ j < h[k] =>
           Kept(c, j) \/ \E m \in DOMAIN h : m < k /\ h[m] = j
      /\ current = c => \A j \in Nat : Numbered(j) /\ j <= dispatched =>
           Kept(c, j) \/ \E m \in DOMAIN h : h[m] = j
  BY DEF Joins, Joined
<1>6. i = Head(h) /\ (Numbered(i) => Kept(c, i)')
  OBVIOUS
<1> HIDE DEF h, t
<1>7. ASSUME NEW j \in Nat, Numbered(j), NEW m \in DOMAIN h, h[m] = j
      PROVE  Kept(c, j)' \/ (m - 1 \in DOMAIN t /\ t[m - 1] = j)
  BY <1>1, <1>2, <1>6, <1>7
<1>8. ASSUME NEW k \in DOMAIN t, NEW j \in Nat, Numbered(j), j < t[k]
      PROVE  Kept(c, j)' \/ \E m \in DOMAIN t : m < k /\ t[m] = j
  <2>1. k + 1 \in DOMAIN h /\ j < h[k + 1] /\ k \in Nat
    BY <1>1, <1>8
  <2>2. Kept(c, j) \/ \E m \in DOMAIN h : m < k + 1 /\ h[m] = j
    BY <1>5, <1>8, <2>1
  <2>3. ASSUME NEW m \in DOMAIN h, m < k + 1, h[m] = j
        PROVE  Kept(c, j)' \/ \E n \in DOMAIN t : n < k /\ t[n] = j
    <3>1. m \in Nat /\ m - 1 < k
      BY <1>1, <2>1, <2>3
    <3> QED  BY <1>7, <1>8, <2>3, <3>1
  <2> QED  BY <2>2, <2>3
<1>9. ASSUME current = c, NEW j \in Nat, Numbered(j), j <= dispatched
      PROVE  Kept(c, j)' \/ \E m \in DOMAIN t : t[m] = j
  BY <1>5, <1>7, <1>9
<1> QED  BY <1>8, <1>9

LEMMA DeliverJoins ==
  ASSUME Base, LogStrict, SeenWithoutGaps, NEW c \in Streams, Joins(c), Deliver(c)
  PROVE  Joins(c)'
<1>0. /\ c \in Conns /\ conn[c].at = "live" /\ conn[c].ch # <<>>
      /\ UNCHANGED <<log, dispatched, flaws>>
  BY DEF Conns, Deliver, consumer
<1>1. conn[c].todo = {} /\ conn[c].at \in Reading
  BY <1>0, PlaceFacts DEF Place, Reading
<1>2. PICK i \in DOMAIN log : i = Head(conn[c].ch)
  BY <1>0, TailFacts
<1>3. i \in Nat /\ log[i].seq \in Nat /\ conn[c].lastSent \in Nat
  BY <1>0, <1>2, LogFacts, PlaceFacts DEF Base
<1>4. CASE ~Fresh(c, i)
  <2>1. /\ UNCHANGED <<current, seen>> /\ conn'[c].at = "live" /\ conn'[c].todo = {}
        /\ conn'[c].ch = Tail(conn[c].ch) /\ conn'[c].lastSent = conn[c].lastSent
    BY <1>0, <1>1, <1>2, <1>4, DeliverEffect DEF Puts, Is
  <2>2. Marked(c)' /\ Ahead(c)'
    BY <1>0, <1>1, <2>1 DEF Joins, Marked, Ahead
  <2>3. \A j : Kept(c, j) => Kept(c, j)'
    BY <1>1, <2>1 DEF Kept
  <2>4. flaws = {} /\ Numbered(i) => Kept(c, i)'
    <3> SUFFICES ASSUME flaws = {}, Numbered(i) PROVE Kept(c, i)'
      OBVIOUS
    <3>1. ~(log[i].seq > conn[c].lastSent)
      BY <1>4 DEF Fresh
    <3>2. log[i].seq <= conn[c].lastSent
      BY <1>3, <3>1
    <3>3. i \in Range(seen)
      BY <1>0, <1>1, <3>2, PassedIsSeen DEF Joins
    <3> QED  BY <2>1, <3>3 DEF Kept
  <2>5. Joined(c)'
    BY <1>0, <1>1, <1>2, <2>1, <2>3, <2>4, TailJoins
  <2> QED  BY <2>2, <2>5 DEF Joins
<1>5. CASE Fresh(c, i)
  <2>1. /\ seen' = Append(seen, i)
        /\ \/ Puts(c, "done", <<>>, 0, {})
           \/ /\ UNCHANGED current
              /\ Puts(c, "live", Tail(conn[c].ch), log[i].seq, conn[c].todo)
    BY <1>0, <1>2, <1>5, DeliverEffect
  <2>2. CASE Puts(c, "done", <<>>, 0, {})
    <3>1. conn'[c].at = "done" /\ conn'[c].todo = {}
      BY <2>2 DEF Puts, Is
    <3> QED  BY <3>1 DEF Joins, Marked, Ahead, Joined, Reading, Opening
  <2>3. CASE UNCHANGED current /\ Puts(c, "live", Tail(conn[c].ch), log[i].seq, conn[c].todo)
    <3>1. /\ conn'[c].at = "live" /\ conn'[c].todo = {}
          /\ conn'[c].ch = Tail(conn[c].ch) /\ conn'[c].lastSent = log[i].seq
      BY <1>1, <2>3 DEF Puts, Is
    <3>2. log[i].seq > conn[c].lastSent
      BY <1>5 DEF Fresh
    <3>3. /\ seen'[Len(seen) + 1] = i /\ Len(seen) + 1 \in DOMAIN seen'
          /\ \A k \in DOMAIN seen : k \in DOMAIN seen' /\ seen'[k] = seen[k]
          /\ \A k \in DOMAIN seen' : k \in DOMAIN seen \/ k = Len(seen) + 1
          /\ \A j : j \in Range(seen') <=> j \in Range(seen) \/ j = i
      <4>1. Len(seen) \in Nat
        BY LogFacts DEF Base
      <4> QED  BY <1>3, <2>1, <4>1, SeenGrowsBy DEF Base
    <3>4. Marked(c)'
      <4>1. \E k \in DOMAIN seen' : conn'[c].lastSent = log'[seen'[k]].seq
        BY <1>0, <3>1, <3>3
      <4>2. ASSUME "redelivery" \notin flaws, NEW k \in DOMAIN seen'
            PROVE  log[seen'[k]].seq <= log[i].seq
        <5>1. CASE k \in DOMAIN seen
          <6>1. log[seen[k]].seq <= conn[c].lastSent
            BY <1>1, <4>2, <5>1 DEF Joins, Marked
          <6>2. log[seen[k]].seq \in Nat
            BY <5>1, LogFacts DEF Base, Places, Numbered
          <6> QED  BY <1>3, <3>2, <3>3, <5>1, <6>1, <6>2
        <5>2. CASE k = Len(seen) + 1
          BY <1>3, <3>3, <5>2
        <5> QED  BY <3>3, <5>1, <5>2
      <4> QED  BY <1>0, <3>1, <4>1, <4>2 DEF Marked
    <3>5. Ahead(c)'
      BY <3>1 DEF Ahead
    <3>6. \A j : Kept(c, j) => Kept(c, j)'
      BY <1>1, <3>3 DEF Kept
    <3>7. Kept(c, i)'
      BY <3>3 DEF Kept
    <3>8. Joined(c)'
      BY <1>0, <1>1, <1>2, <2>3, <3>1, <3>6, <3>7, TailJoins
    <3> QED  BY <3>4, <3>5, <3>8 DEF Joins
  <2> QED  BY <2>1, <2>2, <2>3
<1> QED  BY <1>4, <1>5

LEMMA JointStep ==
  ASSUME Base, Base', LogOrdered, LogStrict, SeenInOrder, SeenWithoutGaps, Joint, Next
  PROVE  Joint'
<1> SUFFICES ASSUME NEW c \in Streams, listening' = c
             PROVE  Joins(c)'
  BY DEF Joint, Joins
<1>0. c \in Conns /\ c # None
  BY StreamingAssumption DEF Conns
<1>1. Grows /\ flaws \subseteq flaws'
  BY NextGrows
<1>2. listening = c => Joins(c)
  BY DEF Joint, Joins
<1>3. CASE WorkerEvent \/ Heartbeat \/ Redeliver \/ ApplyEvent \/ Rewind
  <2>1. UNCHANGED <<current, conn, client>>
    BY <1>3 DEF WorkerEvent, Heartbeat, Redeliver, ApplyEvent, Rewind
  <2>2. dispatched' <= dispatched
    <3>1. dispatched \in Nat
      BY LogFacts DEF Base
    <3>2. CASE Rewind
      BY <3>1, <3>2 DEF Rewind
    <3>3. CASE ~Rewind
      BY <1>3, <3>1, <3>3 DEF WorkerEvent, Heartbeat, Redeliver, ApplyEvent, consumer
    <3> QED  BY <3>2, <3>3
  <2> QED  BY <1>0, <1>1, <1>2, <2>1, <2>2, QuietJoins DEF client
<1>4. CASE DispatchEvent
  <2>1. listening = c
    BY <1>4 DEF DispatchEvent, client
  <2> QED  BY <1>2, <1>4, <2>1, DispatchJoins
<1>5. CASE Lose
  BY <1>0, <1>5, LoseEffect
<1>6. ASSUME NEW d \in Conns, Enter(d) \/ HandlerStep(d) \/ Notice(d) \/ GiveUp(d)
      PROVE  Joins(c)'
  <2>1. CASE d # c /\ listening = c
    <3>1. /\ conn'[c] = conn[c] /\ UNCHANGED <<seen, dispatched>>
          /\ current' # c \/ UNCHANGED current
      BY <1>6, <2>1, OthersSpare
    <3>2. dispatched' <= dispatched
      BY <3>1, LogFacts DEF Base
    <3> QED  BY <1>0, <1>1, <1>2, <2>1, <3>1, <3>2, QuietJoins
  <2>2. CASE listening # c
    <3>1. Enter(d) /\ d = c
      <4>1. Enter(d)
        BY <1>0, <1>6, <2>2
           DEF HandlerStep, Enqueue, Announce, Replay, WriteMissing, GoLive, Deliver,
               Check, Await, Notice, GiveUp, client
      <4> QED  BY <2>2, <4>1 DEF Enter
    <3> QED  BY <3>1, EnterJoins
  <2>3. CASE d = c /\ listening = c
    <3>1. CASE Enter(c)
      BY <1>0, <2>3, <3>1 DEF Enter
    <3>2. CASE Enqueue(c) \/ Announce(c)
      BY <1>2, <2>3, <3>2, OpeningJoins
    <3>3. CASE Replay(c)
      BY <1>2, <2>3, <3>3, ReplayJoins
    <3>4. CASE WriteMissing(c)
      BY <1>2, <2>3, <3>4, WriteJoins
    <3>5. CASE GoLive(c)
      BY <1>2, <2>3, <3>5, GoLiveJoins
    <3>6. CASE Deliver(c)
      BY <1>2, <2>3, <3>6, DeliverJoins
    <3>7. CASE Check(c) \/ Await(c) \/ Notice(c) \/ GiveUp(c)
      BY <1>0, <2>3, <3>7, PlaceFacts DEF Check, Await, Notice, GiveUp, Place
    <3> QED  BY <1>6, <2>3, <3>1, <3>2, <3>3, <3>4, <3>5, <3>6, <3>7 DEF HandlerStep
  <2> QED  BY <2>1, <2>2, <2>3
<1> QED  BY <1>3, <1>4, <1>5, <1>6 DEF Next

-----------------------------------------------------------------------------
(* The wake-up of a waiter. *)

\* The end of the job in the channel of c, or on its way to it.
InChannel(c) == \E k \in DOMAIN conn[c].ch : TerminalType(log[conn[c].ch[k]].type)
OnItsWay == applied = dispatched + 1 /\ TerminalType(log[applied].type)
Waits(c) == conn[c].at = "wait" /\ current = c

LEMMA WokenMeans ==
  Woken <=> \A c \in Waiters :
              Waits(c) /\ Terminal(status) /\ "overflow" \notin flaws => InChannel(c) \/ OnItsWay
  BY DEF Woken, Waits, InChannel, OnItsWay

LEMMA InChannelStays ==
  ASSUME Base, Grows, NEW c \in Conns, InChannel(c), conn'[c].ch = conn[c].ch
  PROVE  InChannel(c)'
<1>1. \A k \in DOMAIN conn[c].ch : log'[conn[c].ch[k]] = log[conn[c].ch[k]]
  BY PlaceFacts DEF Grows
<1> QED  BY <1>1 DEF InChannel

LEMMA OnItsWayStays ==
  ASSUME Base, Grows, OnItsWay, UNCHANGED <<applied, dispatched>>
  PROVE  OnItsWay'
<1>1. applied \in DOMAIN log
  BY LogFacts DEF Base, OnItsWay
<1>2. log'[applied] = log[applied]
  BY <1>1 DEF Grows
<1> QED  BY <1>2 DEF OnItsWay

\* A handler step leaves what another waiter knows, or takes its registration.
LEMMA OthersWait ==
  ASSUME Base, NEW c \in Waiters, NEW d \in Conns, d # c,
         Enter(d) \/ HandlerStep(d) \/ Notice(d) \/ GiveUp(d), Waits(c)'
  PROVE  /\ conn'[c] = conn[c] /\ current = c
         /\ UNCHANGED <<applied, dispatched>>
         /\ status' = status \/ ~Terminal(status')
<1>0. c \in Conns /\ c # None /\ current' = c
  BY StreamingAssumption DEF Conns, Waits
<1>1. CASE Enter(d)
  BY <1>0, <1>1 DEF Enter
<1>2. CASE Enqueue(d)
  <2>1. PICK out \in Outcomes :
          /\ conn' = [conn EXCEPT ![d].at = IF out.ok THEN "announce" ELSE "gone"]
          /\ IF out.ok THEN UNCHANGED <<current, listening>>
             ELSE Unregister /\ listening' = IF listening = d THEN None ELSE listening
    BY <1>2 DEF Enqueue
  <2>2. conn'[c] = conn[c]
    BY <1>0, <2>1, EnqueueEffect DEF Puts, Base
  <2>3. current = c
    BY <1>0, <2>1 DEF Unregister
  <2>4. UNCHANGED <<applied, dispatched>> /\ ~Terminal(status')
    BY <1>2 DEF Enqueue, Terminal
  <2> QED  BY <2>2, <2>3, <2>4
<1>3. CASE Announce(d)
  BY <1>0, <1>3, AnnounceEffect DEF Announce, consumer, Puts, Base
<1>4. CASE Replay(d)
  BY <1>0, <1>4, ReplayEffect DEF Replay, consumer, Puts, Base
<1>5. CASE WriteMissing(d)
  <2>1. current = c /\ UNCHANGED consumer
    BY <1>0, <1>5, WriteEffect DEF WriteMissing
  <2>2. conn'[c] = conn[c]
    BY <1>0, <1>5, WriteEffect DEF Puts
  <2> QED  BY <2>1, <2>2 DEF consumer
<1>6. CASE GoLive(d)
  <2>1. Puts(d, "live", conn[d].ch, conn[d].lastSent, conn[d].todo)
    BY <1>6, PutsAt DEF GoLive, Base, Ats
  <2> QED  BY <1>0, <1>6, <2>1 DEF GoLive, consumer, Puts
<1>7. CASE Deliver(d)
  <2>1. current = c /\ conn'[c] = conn[c]
    BY <1>0, <1>7, DeliverEffect DEF Puts
  <2> QED  BY <1>7, <2>1 DEF Deliver, consumer
<1>8. CASE Check(d)
  <2>1. UNCHANGED consumer
    BY <1>8 DEF Check
  <2>2. CASE Terminal(status)
    <3>1. current' = None
      BY <1>8, <2>2, FinishEffect DEF Check, Base
    <3> QED  BY <1>0, <3>1
  <2>3. CASE ~Terminal(status)
    <3>1. Puts(d, "wait", conn[d].ch, conn[d].lastSent, conn[d].todo) /\ UNCHANGED current
      BY <1>8, <2>3, PutsAt DEF Check, Base, Ats
    <3> QED  BY <1>0, <2>1, <3>1 DEF Puts, consumer
  <2> QED  BY <2>2, <2>3
<1>9. CASE Await(d)
  BY <1>0, <1>9, AwaitEffect DEF consumer, Puts
<1>10. CASE Notice(d) \/ GiveUp(d)
  BY <1>0, <1>10 DEF Notice, GiveUp, Unregister
<1> QED  BY <1>1, <1>2, <1>3, <1>4, <1>5, <1>6, <1>7, <1>8, <1>9, <1>10 DEF HandlerStep

LEMMA WokenStep ==
  ASSUME Base, Woken, Next
  PROVE  Woken'
<1> SUFFICES ASSUME NEW c \in Waiters, Waits(c)', Terminal(status'), "overflow" \notin flaws'
             PROVE  InChannel(c)' \/ OnItsWay'
  BY DEF Woken, Waits, InChannel, OnItsWay
<1>0. c \in Conns /\ c # None /\ current' = c /\ conn'[c].at = "wait"
  BY StreamingAssumption DEF Conns, Waits
<1>1. Grows /\ "overflow" \notin flaws
  BY NextGrows
<1>2. Waits(c) /\ Terminal(status) => InChannel(c) \/ OnItsWay
  BY <1>1, WokenMeans
<1>3. CASE WorkerEvent \/ Heartbeat \/ Redeliver
  <2>1. UNCHANGED <<consumer, current, conn>>
    BY <1>3 DEF WorkerEvent, Heartbeat, Redeliver
  <2> QED  BY <1>0, <1>1, <1>2, <2>1, InChannelStays, OnItsWayStays DEF Waits, consumer
<1>4. CASE ApplyEvent
  <2> DEFINE e == log[applied + 1]
  <2>1. /\ UNCHANGED <<current, conn, dispatched, log>> /\ applied' = applied + 1
        /\ applied <= dispatched
        /\ status' = IF status # "none" /\ SetsStatus(e) THEN StatusOf[e.type] ELSE status
    BY <1>4 DEF ApplyEvent
  <2>2. applied = dispatched /\ applied \in Nat
    BY <2>1, LogFacts DEF Base, Places
  <2>3. CASE status' = status
    <3>1. InChannel(c)
      BY <1>0, <1>2, <2>1, <2>2, <2>3 DEF Waits, OnItsWay
    <3> QED  BY <1>0, <1>1, <2>1, <3>1, InChannelStays
  <2>4. CASE SetsStatus(e) /\ status' = StatusOf[e.type]
    <3>1. e.type \in {"queued", "started", "completed", "failed", "cancelled"}
      BY <2>4 DEF SetsStatus, StatusOf
    <3>2. TerminalType(e.type)
      BY <2>4, <3>1 DEF StatusOf, Terminal, TerminalType
    <3> QED  BY <2>1, <2>2, <3>2 DEF OnItsWay
  <2> QED  BY <2>1, <2>3, <2>4
<1>5. CASE DispatchEvent
  <2>1. /\ dispatched + 1 = applied /\ dispatched + 1 \in DOMAIN log /\ dispatched \in Nat
        /\ UNCHANGED <<log, status, applied, current>>
    BY <1>5, HandEffect
  <2>2. Puts(c, conn[c].at, Append(conn[c].ch, dispatched + 1), conn[c].lastSent, conn[c].todo)
    BY <1>0, <1>5, <2>1, HandEffect
  <2> DEFINE h == conn[c].ch
             p == dispatched + 1
  <2>3. h \in Seq(Nat) /\ p \in Nat
    BY <1>0, <2>1, PlaceFacts
  <2>4. conn'[c].ch = Append(h, p) /\ conn[c].at = "wait"
    BY <1>0, <2>2 DEF Puts, Is
  <2>5. InChannel(c) \/ TerminalType(log[p].type)
    BY <1>0, <1>2, <2>1, <2>4 DEF Waits, OnItsWay
  <2> HIDE DEF h, p
  <2>6. /\ Len(h) + 1 \in DOMAIN conn'[c].ch /\ conn'[c].ch[Len(h) + 1] = p
        /\ \A k \in DOMAIN h : k \in DOMAIN conn'[c].ch /\ conn'[c].ch[k] = h[k]
    BY <2>3, <2>4
  <2> QED  BY <2>1, <2>5, <2>6 DEF InChannel, h
<1>6. CASE Rewind
  <2>1. UNCHANGED <<log, status, current, conn>> /\ applied = dispatched
    BY <1>6 DEF Rewind
  <2>2. applied # dispatched + 1
    BY <2>1, LogFacts DEF Base
  <2>3. InChannel(c)
    BY <1>0, <1>2, <2>1, <2>2 DEF Waits, OnItsWay
  <2> QED  BY <1>0, <1>1, <2>1, <2>3, InChannelStays
<1>7. CASE Lose
  <2>1. /\ UNCHANGED <<consumer, current>> /\ listening \in Streams
        /\ UNCHANGED conn \/ Puts(listening, "broken", <<>>, 0, {})
    BY <1>7, LoseEffect
  <2>2. conn'[c] = conn[c]
    BY <1>0, <2>1, PlaceFacts DEF Puts
  <2> QED  BY <1>0, <1>1, <1>2, <2>1, <2>2, InChannelStays, OnItsWayStays DEF Waits, consumer
<1>8. ASSUME NEW d \in Conns, Enter(d) \/ HandlerStep(d) \/ Notice(d) \/ GiveUp(d)
      PROVE  InChannel(c)' \/ OnItsWay'
  <2>1. CASE d # c
    <3>1. /\ conn'[c] = conn[c] /\ current = c /\ UNCHANGED <<applied, dispatched, status>>
      BY <1>8, <2>1, OthersWait
    <3> QED  BY <1>0, <1>1, <1>2, <3>1, InChannelStays, OnItsWayStays DEF Waits
  <2>2. CASE d = c
    <3>1. conn[c].at \notin Reading
      BY <1>0, PlaceFacts DEF Place
    <3>2. CASE Enter(c)
      <4>1. conn'[c].at # "wait"
        BY <1>0, <3>2, EnterEffect, BeginFacts DEF Puts, Is
      <4> QED  BY <1>0, <4>1
    <3>3. CASE Enqueue(c)
      <4>1. ~Terminal(status')
        BY <3>3 DEF Enqueue, Terminal
      <4> QED  BY <4>1
    <3>4. CASE Announce(c)
      <4>1. conn'[c].at = "check"
        BY <1>0, <3>4, AnnounceEffect, BeginFacts DEF Puts, Is, Base
      <4> QED  BY <1>0, <4>1
    <3>5. CASE Replay(c) \/ WriteMissing(c) \/ GoLive(c) \/ Deliver(c)
      BY <3>1, <3>5 DEF Replay, WriteMissing, GoLive, Deliver, Reading
    <3>6. CASE Check(c)
      <4>1. Terminal(status)
        BY <3>6 DEF Check, consumer
      <4>2. current' = None
        BY <1>0, <3>6, <4>1, FinishEffect DEF Check, Base
      <4> QED  BY <1>0, <4>2
    <3>7. CASE Await(c)
      <4>1. /\ conn[c].at = "wait" /\ conn[c].ch # <<>> /\ UNCHANGED <<consumer, log>>
            /\ ~TerminalType(log[Head(conn[c].ch)].type)
            /\ conn'[c].ch = Tail(conn[c].ch) /\ UNCHANGED current
        BY <1>0, <3>7, AwaitEffect DEF Puts, Is
      <4>2. CASE OnItsWay
        BY <1>1, <4>1, <4>2, OnItsWayStays DEF consumer
      <4>3. CASE InChannel(c)
        <5>1. PICK k \in DOMAIN conn[c].ch : TerminalType(log[conn[c].ch[k]].type)
          BY <4>3 DEF InChannel
        <5>2. k # 1
          BY <1>0, <4>1, <5>1, TailFacts
        <5>3. k \in Nat /\ k - 1 \in DOMAIN Tail(conn[c].ch)
          BY <1>0, <4>1, <5>2, TailFacts
        <5>4. Tail(conn[c].ch)[k - 1] = conn[c].ch[k]
          <6>1. Tail(conn[c].ch)[k - 1] = conn[c].ch[k - 1 + 1]
            BY <1>0, <4>1, <5>3, TailFacts
          <6>2. k - 1 + 1 = k
            BY <5>3
          <6> QED  BY <6>1, <6>2
        <5> QED  BY <4>1, <5>1, <5>3, <5>4 DEF InChannel
      <4> QED  BY <1>0, <1>2, <4>1, <4>2, <4>3 DEF Waits, consumer
    <3>8. CASE Notice(c) \/ GiveUp(c)
      BY <1>0, <3>8 DEF Notice, GiveUp, Unregister
    <3> QED  BY <1>8, <2>2, <3>2, <3>3, <3>4, <3>5, <3>6, <3>7, <3>8 DEF HandlerStep
  <2> QED  BY <2>1, <2>2
<1> QED  BY <1>3, <1>4, <1>5, <1>6, <1>7, <1>8 DEF Next

-----------------------------------------------------------------------------
(* The theorems. *)

\* The inductive invariant.
StreamingInv ==
  /\ Base /\ LogOrdered /\ LogStrict /\ EndSeen /\ Joint /\ Woken
  /\ SeenInOrder /\ SeenWithoutGaps

LEMMA InvInit ==
  ASSUME Init
  PROVE  StreamingInv
<1>1. Base
  BY InitBase
<1>2. DOMAIN log = {} /\ DOMAIN seen = {}
  BY DEF Init
<1>3. LogOrdered /\ LogStrict /\ EndSeen /\ SeenInOrder /\ SeenWithoutGaps
  BY <1>2 DEF LogOrdered, LogStrict, EndSeen, SeenInOrder, SeenWithoutGaps
<1>4. Joint
  BY StreamingAssumption DEF Init, Joint
<1>5. Woken
  BY DEF Init, Woken, Terminal
<1> QED  BY <1>1, <1>3, <1>4, <1>5 DEF StreamingInv

LEMMA InvStep ==
  ASSUME StreamingInv, [Next]_vars
  PROVE  StreamingInv'
<1>1. CASE Next
  <2>1. Base /\ Base'
    BY <1>1, BaseStep DEF StreamingInv
  <2>2. LogOrdered' /\ LogStrict'
    BY <1>1, LogStep DEF StreamingInv
  <2>3. EndSeen'
    BY <1>1, EndStep DEF StreamingInv
  <2>4. Joint'
    BY <1>1, <2>1, JointStep DEF StreamingInv
  <2>5. Woken'
    BY <1>1, WokenStep DEF StreamingInv
  <2>6. SeenInOrder' /\ SeenWithoutGaps'
    BY <1>1, SeenStep DEF StreamingInv
  <2> QED  BY <2>1, <2>2, <2>3, <2>4, <2>5, <2>6 DEF StreamingInv
<1>2. CASE UNCHANGED vars
  <2>1. UNCHANGED <<claimed, requested, log, worker, status, applied, dispatched, current, conn,
                    listening, seen, flaws, faults>>
    BY <1>2 DEF vars, job, consumer, client
  <2>2. Base'
    BY <2>1 DEF StreamingInv, Base, TypeOK, Nothing, Places, Place, Numbered
  <2>3. LogOrdered' /\ LogStrict' /\ EndSeen' /\ SeenInOrder' /\ SeenWithoutGaps'
    BY <2>1 DEF StreamingInv, LogOrdered, LogStrict, EndSeen, SeenInOrder, SeenWithoutGaps
  <2>4. Joint'
    BY <2>1 DEF StreamingInv, Joint, Joins, Marked, Ahead, Joined, Kept, Numbered
  <2>5. Woken'
    BY <2>1 DEF StreamingInv, Woken
  <2> QED  BY <2>2, <2>3, <2>4, <2>5 DEF StreamingInv
<1> QED  BY <1>1, <1>2

LEMMA InvHolds == Spec => []StreamingInv
<1>1. Init => StreamingInv
  BY InvInit
<1>2. StreamingInv /\ [Next]_vars => StreamingInv'
  BY InvStep
<1> QED  BY <1>1, <1>2, PTL DEF Spec

\* Unless a request was redelivered, a client sees the events of its job in the
\* order of the log and none twice, over all its streams.
THEOREM SeenIsInOrder == Spec => []SeenInOrder
<1>1. StreamingInv => SeenInOrder
  BY DEF StreamingInv
<1> QED  BY <1>1, InvHolds, PTL

\* Without the five known flaws, what it sees is all there is up to the last
\* event seen: the replay and the channel of a stream join without a gap.
THEOREM SeenHasNoGaps == Spec => []SeenWithoutGaps
<1>1. StreamingInv => SeenWithoutGaps
  BY DEF StreamingInv
<1> QED  BY <1>1, InvHolds, PTL

\* The wake-up of a waiter is not lost between its look at the store and its
\* wait.
THEOREM WaitersWillWake == Spec => []WaiterWillWake
<1>1. StreamingInv => WaiterWillWake
  <2> SUFFICES ASSUME StreamingInv, NEW c \in Waiters,
                      conn[c].at = "wait", current = c, Terminal(status), applied = dispatched,
                      "overflow" \notin flaws
               PROVE  \E i \in DOMAIN conn[c].ch : TerminalType(log[conn[c].ch[i]].type)
    BY DEF WaiterWillWake
  <2>1. applied # dispatched + 1
    BY LogFacts DEF StreamingInv, Base
  <2> QED  BY <2>1 DEF StreamingInv, Woken
<1> QED  BY <1>1, InvHolds, PTL

\* Nor is the end of a stream: the terminal event is in its channel, with a
\* number the stream has not passed.
THEOREM StreamsWillEnd == Spec => []StreamWillEnd
<1>1. StreamingInv => StreamWillEnd
  <2> SUFFICES ASSUME StreamingInv, NEW c \in Streams,
                      conn[c].at = "live", current = c, flaws = {}, dispatched = Len(log),
                      NEW t \in DOMAIN log, TerminalType(log[t].type)
               PROVE  \E i \in DOMAIN conn[c].ch :
                        TerminalType(log[conn[c].ch[i]].type) /\ Fresh(c, conn[c].ch[i])
    BY DEF StreamWillEnd
  <2>0. Base /\ c \in Conns /\ Joint /\ EndSeen /\ LogStrict /\ SeenWithoutGaps
    BY DEF StreamingInv, Conns
  <2>1. /\ DOMAIN log = 1 .. Len(log) /\ Len(log) \in Nat
        /\ log[t].seq \in Nat /\ conn[c].lastSent \in Nat /\ t \in Nat
    BY <2>0, LogFacts, PlaceFacts DEF Base
  <2>2. listening = c /\ conn[c].todo = {} /\ conn[c].at \in Reading
    BY <2>0, PlaceFacts DEF Place, Reading
  <2>3. Marked(c) /\ Joined(c)
    BY <2>0, <2>2 DEF Joint, Joins
  <2>4. Numbered(t) /\ t <= dispatched
    <3>1. log[t].seq # 0
      BY <2>0 DEF Base, Places, TerminalType
    <3> QED  BY <2>1, <3>1 DEF Numbered
  <2>5. t \notin Range(seen)
    <3> SUFFICES ASSUME NEW k \in DOMAIN seen, seen[k] = t PROVE FALSE
      BY DEF Range
    <3>1. conn[listening].at = "done"
      BY <2>0 DEF EndSeen
    <3> QED  BY <2>2, <3>1
  <2>6. PICK i \in DOMAIN conn[c].ch : conn[c].ch[i] = t
    BY <2>1, <2>2, <2>3, <2>4, <2>5 DEF Joined, Kept
  <2>7. ~(log[t].seq <= conn[c].lastSent)
    BY <2>0, <2>2, <2>3, <2>4, <2>5, PassedIsSeen
  <2>8. Fresh(c, t)
    BY <2>1, <2>7 DEF Fresh
  <2> QED  BY <2>6, <2>8
<1> QED  BY <1>1, InvHolds, PTL

=============================================================================
