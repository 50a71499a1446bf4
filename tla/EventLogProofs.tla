--------------------------- MODULE EventLogProofs ---------------------------
(***************************************************************************)
(* What ReadAll returns while producers add to the log: for any number of  *)
(* partitions, records and calls of Publish.                               *)
(***************************************************************************)
EXTENDS EventLog, TLAPS

-----------------------------------------------------------------------------
(* The log and its producers are a Producer: the broker's records are those *)
(* of the partitions.                                                       *)

LEMMA LogInit == Init => P!Init
BY DEF Init

LEMMA LogStep == [Next]_vars => [P!Next]_P!vars
<1> SUFFICES ASSUME [Next]_vars PROVE [P!Next]_P!vars
  OBVIOUS
<1>1. ASSUME NEW c \in Calls, Store(c) PROVE P!Next
  BY <1>1 DEF Store, P!Next
<1>2. CASE ProducerStep
  BY <1>2 DEF ProducerStep, Beside, P!Next
<1>3. CASE ReaderStep
  BY <1>3 DEF ReaderStep, P!vars, stored
<1>4. CASE UNCHANGED vars
  BY <1>4 DEF vars, P!vars, stored
<1> QED
  BY <1>1, <1>2, <1>3, <1>4 DEF Next

-----------------------------------------------------------------------------
(* What nil from Publish says of the log. *)

\* The invariant of ProducerProofs, of the records the partitions hold.
SuccessIsStored == \A d \in Calls : ack[d] = "success" => d \in stored

\* As long as nothing is shared there is one acknowledgement under way at most,
\* and two calls do not wait for it unless it is an error.
Alone ==
  ~shared =>
    /\ \A c, d \in P!InPipeline : c = d
    /\ producer = "open" => P!Waiting \subseteq P!InPipeline
    /\ \A c \in P!Waiting, d \in P!InPipeline : ack[d] = "error" \/ c = d

Honest == P!TypeOK /\ SuccessIsStored /\ Alone /\ P!HonestUnlessShared

LEMMA HonestInit == Init => Honest
<1> SUFFICES ASSUME Init PROVE Honest
  OBVIOUS
<1>1. P!Init
  BY DEF Init
<1>2. P!Waiting = {} /\ P!InPipeline = {}
  BY <1>1 DEF P!Init, P!Waiting, P!InPipeline
<1> QED
  BY <1>1, <1>2 DEF P!Init, P!TypeOK, Honest, SuccessIsStored, Alone, P!HonestUnlessShared,
     P!ReturnedNil

LEMMA HonestNext == Honest /\ [Next]_vars => Honest'
<1> SUFFICES ASSUME Honest, [P!Next]_P!vars PROVE Honest'
  BY LogStep
<1> DEFINE kept == stored
           grown == stored'
<1>1. kept \subseteq Calls /\ grown \subseteq Calls
  BY DEF stored
<1> USE DEF Honest, SuccessIsStored, Alone, P!HonestUnlessShared, P!ReturnedNil, P!TypeOK
<1>2. CASE UNCHANGED P!vars
  BY <1>2 DEF P!vars, P!Waiting, P!InPipeline
<1>3. ASSUME NEW c \in Calls, P!Send(c) PROVE Honest'
  <2>1. P!TypeOK' /\ SuccessIsStored' /\ stored' = stored /\ producer' = producer
    BY <1>1, <1>3 DEF P!Send
  <2>2. P!HonestUnlessShared'
    BY <1>3, <2>1 DEF P!Send
  <2>3. CASE producer = "closed"
    <3>1. P!InPipeline' = P!InPipeline /\ P!Waiting' \subseteq P!Waiting
      BY <1>3, <2>3 DEF P!Send, P!InPipeline, P!Waiting
    <3>2. shared' = shared /\ ack' = ack
      BY <1>3, <2>3 DEF P!Send
    <3>3. Alone'
      BY <2>1, <3>1, <3>2
    <3> QED BY <2>1, <2>2, <3>3
  <2>4. CASE producer # "closed"
    <3>1. shared' = (shared \/ P!InPipeline # {})
      BY <1>3, <2>4 DEF P!Send
    <3>2. P!Waiting' \subseteq P!Waiting \cup {c}
      BY <1>3, <2>4 DEF P!Send, P!Waiting
    <3>3. P!InPipeline' = P!InPipeline \cup {c}
      BY <1>3, <2>4 DEF P!Send, P!InPipeline
    <3>4. ASSUME ~shared' PROVE P!InPipeline' = {c} /\ (producer = "open" => P!Waiting' \subseteq {c})
      BY <3>1, <3>2, <3>3, <3>4
    <3>5. producer # "open" => ack'[c] = "error"
      BY <1>3, <2>4 DEF P!Send
    <3>6. Alone'
      BY <2>1, <3>4, <3>5 DEF P!Waiting
    <3> QED BY <2>1, <2>2, <3>6
  <2> QED BY <2>3, <2>4
<1>4. ASSUME NEW c \in Calls, NEW d \in Calls, P!Take(c, d) PROVE Honest'
  <2>1. P!TypeOK' /\ SuccessIsStored'
    BY <1>1, <1>4 DEF P!Take
  <2>2. CASE shared
    BY <1>4, <2>1, <2>2 DEF P!Take
  <2>3. CASE ~shared
    <3>1. P!InPipeline = {d} /\ (ack[d] = "error" \/ c = d)
      BY <1>4, <2>3 DEF P!Take, P!Waiting, P!InPipeline
    <3>2. P!InPipeline' = {}
      BY <1>4, <3>1 DEF P!Take, P!InPipeline
    <3>3. c \notin P!Waiting' /\ P!Waiting' \subseteq P!Waiting
      BY <1>4 DEF P!Take, P!Waiting
    <3>4. producer = "open" => P!Waiting' = {}
      <4>1. c \in P!Waiting
        BY <1>4 DEF P!Take, P!Waiting
      <4>2. producer = "open" => P!Waiting \subseteq {d}
        BY <2>3, <3>1
      <4> QED BY <3>3, <4>1, <4>2
    <3>5. P!HonestUnlessShared'
      BY <1>4, <2>3, <3>1 DEF P!Take
    <3> QED BY <1>4, <2>1, <3>2, <3>4, <3>5 DEF P!Take
  <2> QED BY <2>2, <2>3
<1>5. ASSUME NEW c \in Calls, P!TakeNothing(c) PROVE Honest'
  BY <1>1, <1>5 DEF P!TakeNothing, P!Waiting, P!InPipeline
<1>6. ASSUME NEW c \in Calls, P!Cancel(c) PROVE Honest'
  BY <1>1, <1>6 DEF P!Cancel, P!Waiting, P!InPipeline
<1>7. ASSUME NEW c \in Calls, P!Store(c) PROVE Honest'
  BY <1>1, <1>7 DEF P!Store, P!Waiting, P!InPipeline
<1>8. ASSUME NEW c \in Calls, P!Answer(c) PROVE Honest'
  BY <1>1, <1>8 DEF P!Answer, P!Waiting, P!InPipeline
<1>9. ASSUME NEW c \in Calls, P!Drain(c) PROVE Honest'
  BY <1>1, <1>9 DEF P!Drain, P!Waiting, P!InPipeline
<1>10. CASE P!Close \/ P!Closed
  BY <1>1, <1>10 DEF P!Close, P!Closed, P!Waiting, P!InPipeline
<1> QED
  BY <1>2, <1>3, <1>4, <1>5, <1>6, <1>7, <1>8, <1>9, <1>10 DEF P!Next, P!CallStep
-----------------------------------------------------------------------------
(* The reader. *)

\* The partition that holds the records of the job.
Home == CHOOSE home \in Partitions :
          /\ \A c \in Wanted \cap Calls : PartitionOf[c] = home
          /\ \A p \in Partitions \ {home} : Range(Earlier[p]) \cap Wanted = {}

LEMMA HomeHolds ==
  /\ Home \in Partitions
  /\ \A c \in Wanted \cap Calls : PartitionOf[c] = Home
  /\ \A p \in Partitions \ {Home} : Range(Earlier[p]) \cap Wanted = {}
BY EventLogAssumption DEF Home

\* Only one partition has records of the job.
Logs ==
  /\ log \in [Partitions -> Seq(Records)]
  /\ \A p \in Partitions \ {Home} : \A i \in 1 .. Len(log[p]) : log[p][i] \notin Wanted

Goroutines == [at : {"none", "offsets", "reading", "ended"},
               begin : Nat, end : Nat, out : Seq(Wanted)]

ReaderTypes ==
  /\ reader \in {"idle", "reading", "returned", "failed"}
  /\ part \in [Partitions -> Goroutines]
  /\ out \in Seq(Wanted)
  /\ short \in BOOLEAN
  /\ promised \subseteq Wanted \cap Calls

\* A goroutine has kept the job's records among those it has received.
Received ==
  \A p \in Partitions :
    /\ part[p].begin <= part[p].end /\ part[p].end <= Len(log[p])
    /\ R!Selects(part[p].out, log[p], part[p].begin)

\* Nothing is read before ReadAll is called, nor after it has returned.
Phases ==
  /\ reader = "idle" => out = <<>> /\ promised = {} /\ \A p \in Partitions : part[p].at = "none"
  /\ reader = "returned" => \A p \in Partitions : part[p].at = "ended"

\* The result is that of one goroutine; unless something was cut short, every
\* goroutine that has ended has read its partition to the end it asked for.
Collected ==
  /\ out = <<>> \/ (part[Home].at = "ended" /\ out = part[Home].out)
  /\ ~short /\ part[Home].at = "ended" => out = part[Home].out
  /\ ~short => \A p \in Partitions : part[p].at = "ended" => part[p].begin = part[p].end

\* What was published before the call lies below every end that was asked for
\* after it.
Held ==
  ~shared =>
    \A c \in promised :
      \E p \in Partitions : \E i \in 1 .. Len(log[p]) :
        log[p][i] = c /\ (part[p].at \in {"reading", "ended"} /\ ~short => i <= part[p].end)

Reading == Logs /\ ReaderTypes /\ Received /\ Phases /\ Collected /\ Held

\* The places of a sequence's entries, as Selects has them.
Placed(place, s, records, n) ==
  /\ place \in [DOMAIN s -> 1 .. n]
  /\ \A i, k \in DOMAIN s : i < k => place[i] < place[k]
  /\ \A i \in DOMAIN s : s[i] = records[place[i]]
  /\ \A m \in 1 .. n : records[m] \in Wanted => \E i \in DOMAIN s : place[i] = m

LEMMA SelectsPlaced ==
  ASSUME NEW s, NEW records, NEW n
  PROVE  R!Selects(s, records, n) <=> \E place : Placed(place, s, records, n)
BY DEF R!Selects, Placed

LEMMA SelectsNone ==
  ASSUME NEW records PROVE R!Selects(<<>>, records, 0)
<1>1. DOMAIN <<>> = {} /\ 1 .. 0 = {}
  OBVIOUS
<1>2. Placed([i \in {} |-> 0], <<>>, records, 0)
  BY <1>1 DEF Placed
<1> QED BY <1>2, SelectsPlaced

LEMMA SelectsGrown ==
  ASSUME NEW s \in Seq(Wanted), NEW records \in Seq(Records), NEW x \in Records,
         NEW n \in 0 .. Len(records), R!Selects(s, records, n)
  PROVE  R!Selects(s, Append(records, x), n)
<1>1. PICK place : Placed(place, s, records, n)
  BY SelectsPlaced
<1>2. \A m \in 1 .. n : Append(records, x)[m] = records[m]
  OBVIOUS
<1>3. \A i \in DOMAIN s : place[i] \in 1 .. n
  BY <1>1 DEF Placed
<1>4. Placed(place, s, Append(records, x), n)
  BY <1>1, <1>2, <1>3 DEF Placed
<1> QED BY <1>4, SelectsPlaced

LEMMA SelectsSkips ==
  ASSUME NEW s \in Seq(Wanted), NEW records \in Seq(Records), NEW n \in Nat,
         R!Selects(s, records, n), records[n + 1] \notin Wanted
  PROVE  R!Selects(s, records, n + 1)
<1>1. PICK place : Placed(place, s, records, n)
  BY SelectsPlaced
<1>2. \A m \in 1 .. n + 1 : m \in 1 .. n \/ m = n + 1
  OBVIOUS
<1>3. place \in [DOMAIN s -> 1 .. n + 1]
  BY <1>1 DEF Placed
<1>4. Placed(place, s, records, n + 1)
  BY <1>1, <1>2, <1>3 DEF Placed
<1> QED BY <1>4, SelectsPlaced

LEMMA SelectsTakes ==
  ASSUME NEW s \in Seq(Wanted), NEW records \in Seq(Records), NEW n \in Nat,
         R!Selects(s, records, n), records[n + 1] \in Wanted
  PROVE  R!Selects(Append(s, records[n + 1]), records, n + 1)
<1> DEFINE t == Append(s, records[n + 1])
           l == Len(s) + 1
<1>1. PICK place : Placed(place, s, records, n)
  BY SelectsPlaced
<1> DEFINE more == [i \in DOMAIN t |-> IF i = l THEN n + 1 ELSE place[i]]
<1>2. DOMAIN s = 1 .. Len(s) /\ Len(s) \in Nat /\ DOMAIN t = 1 .. l
  OBVIOUS
<1>3. t[l] = records[n + 1] /\ \A i \in DOMAIN s : t[i] = s[i]
  OBVIOUS
<1>4. \A i \in DOMAIN t : i = l \/ (i \in DOMAIN s /\ i # l)
  BY <1>2
<1>5. l \in DOMAIN t /\ \A i \in DOMAIN s : i \in DOMAIN t /\ i # l /\ i < l
  BY <1>2
<1>6. more[l] = n + 1 /\ \A i \in DOMAIN s : more[i] = place[i]
  BY <1>5
<1>7. \A i \in DOMAIN s : place[i] \in 1 .. n
  BY <1>1 DEF Placed
<1>8. DOMAIN more = DOMAIN t
  OBVIOUS
<1>9. \A i \in DOMAIN t : more[i] \in 1 .. n + 1
  BY <1>4, <1>6, <1>7
<1>10. more \in [DOMAIN t -> 1 .. n + 1]
  BY <1>9
<1> HIDE DEF more, t, l
<1>11. ASSUME NEW i \in DOMAIN t, NEW k \in DOMAIN t, i < k PROVE more[i] < more[k]
  <2>1. i \in DOMAIN s
    BY <1>2, <1>4, <1>11 DEF l
  <2>2. CASE k = l
    BY <1>6, <1>7, <2>1, <2>2
  <2>3. CASE k # l
    <3>1. k \in DOMAIN s
      BY <1>4, <2>3
    <3>2. place[i] < place[k]
      BY <1>1, <1>11, <2>1, <3>1 DEF Placed
    <3> QED BY <1>6, <2>1, <3>1, <3>2
  <2> QED BY <2>2, <2>3
<1>12. \A i \in DOMAIN t : t[i] = records[more[i]]
  BY <1>1, <1>3, <1>4, <1>6 DEF Placed
<1>13. ASSUME NEW m \in 1 .. n + 1, records[m] \in Wanted
       PROVE  \E i \in DOMAIN t : more[i] = m
  <2>1. CASE m = n + 1
    BY <1>5, <1>6, <2>1
  <2>2. CASE m # n + 1
    <3>1. m \in 1 .. n
      BY <2>2
    <3>2. PICK i \in DOMAIN s : place[i] = m
      BY <1>1, <1>13, <3>1 DEF Placed
    <3> QED BY <1>5, <1>6, <3>2
  <2> QED BY <2>1, <2>2
<1>14. Placed(more, t, records, n + 1)
  BY <1>10, <1>11, <1>12, <1>13 DEF Placed
<1> QED BY <1>14, SelectsPlaced DEF t

\* A partition without records of the job yields nothing.
LEMMA SelectsNothing ==
  ASSUME NEW s \in Seq(Wanted), NEW records, NEW n \in Nat,
         R!Selects(s, records, n), \A m \in 1 .. n : records[m] \notin Wanted
  PROVE  s = <<>>
<1>1. PICK place : Placed(place, s, records, n)
  BY SelectsPlaced
<1>2. ASSUME NEW i \in DOMAIN s PROVE FALSE
  <2>1. s[i] \in Wanted /\ place[i] \in 1 .. n /\ s[i] = records[place[i]]
    BY <1>1, <1>2 DEF Placed
  <2> QED BY <2>1
<1>3. Len(s) \in Nat /\ DOMAIN s = 1 .. Len(s)
  OBVIOUS
<1>4. ~(1 \in 1 .. Len(s))
  BY <1>2, <1>3
<1>5. Len(s) = 0
  BY <1>3, <1>4
<1> QED BY <1>5

\* Every record of the job among those that were read is in the result.
LEMMA SelectsAll ==
  ASSUME NEW s, NEW records, NEW n, R!Selects(s, records, n),
         NEW m \in 1 .. n, records[m] \in Wanted
  PROVE  records[m] \in Range(s)
<1>1. PICK place : Placed(place, s, records, n)
  BY SelectsPlaced
<1>2. PICK i \in DOMAIN s : place[i] = m
  BY <1>1 DEF Placed
<1>3. s[i] = records[m]
  BY <1>1, <1>2 DEF Placed
<1> QED BY <1>3 DEF Range

LEMMA ReadingInit == Init => Reading
<1> SUFFICES ASSUME Init PROVE Reading
  OBVIOUS
<1>1. log = Earlier /\ promised = {} /\ R!InitRead
  BY DEF Init
<1>2. Logs
  BY <1>1, EventLogAssumption, HomeHolds DEF Logs, Range
<1>3. \A p \in Partitions : part[p] = [at |-> "none", begin |-> 0, end |-> 0, out |-> <<>>]
  BY <1>1 DEF R!InitRead
<1>4. ReaderTypes
  <2>1. <<>> \in Seq(Wanted)
    OBVIOUS
  <2>2. [at |-> "none", begin |-> 0, end |-> 0, out |-> <<>>] \in Goroutines
    BY <2>1 DEF Goroutines
  <2>3. part \in [Partitions -> Goroutines]
    BY <1>1, <2>2 DEF R!InitRead
  <2> QED BY <1>1, <2>1, <2>3 DEF R!InitRead, ReaderTypes
<1>5. Received
  <2> SUFFICES ASSUME NEW p \in Partitions
               PROVE  /\ 0 <= Len(log[p])
                      /\ R!Selects(<<>>, log[p], 0)
    BY <1>3 DEF Received
  <2>1. Len(log[p]) \in Nat
    BY <1>2 DEF Logs
  <2>2. R!Selects(<<>>, log[p], 0)
    BY SelectsNone
  <2> QED BY <2>1, <2>2
<1>6. Phases /\ Held
  BY <1>1, <1>3 DEF R!InitRead, Phases, Held
<1>7. Collected
  BY <1>1, <1>3, HomeHolds DEF R!InitRead, Collected
<1> QED BY <1>2, <1>4, <1>5, <1>6, <1>7 DEF Reading
\* A record that is appended changes nothing of what has been read.
LEMMA StoreReading ==
  ASSUME Reading, NEW c \in Calls, Store(c) PROVE Reading'
<1> DEFINE q == PartitionOf[c]
<1>1. /\ log' = [log EXCEPT ![q] = Append(@, c)]
      /\ UNCHANGED <<reader, part, out, short, promised, shared>>
  BY DEF Store, P!Store, reading
<1>2. q \in Partitions /\ c \in Records /\ (c \in Wanted => q = Home)
  BY EventLogAssumption, HomeHolds DEF Records
<1>3. Logs /\ ReaderTypes /\ Received /\ Phases /\ Collected /\ Held
  BY DEF Reading
<1>4. log[q] \in Seq(Records) /\ \A p \in Partitions : log[p] \in Seq(Records)
  BY <1>2, <1>3 DEF Logs
<1> HIDE DEF q
<1>5. log'[q] = Append(log[q], c) /\ \A p \in Partitions : p # q => log'[p] = log[p]
  BY <1>1, <1>2, <1>3 DEF Logs
<1>6. log' \in [Partitions -> Seq(Records)]
  <2>1. Append(log[q], c) \in Seq(Records)
    BY <1>2, <1>4
  <2> QED BY <1>1, <1>2, <1>3, <2>1 DEF Logs
<1>7. /\ Len(log'[q]) = Len(log[q]) + 1 /\ log'[q][Len(log[q]) + 1] = c
      /\ \A i \in 1 .. Len(log[q]) : log'[q][i] = log[q][i]
  BY <1>2, <1>4, <1>5
<1>8. ASSUME NEW p \in Partitions
      PROVE  /\ Len(log[p]) \in Nat /\ Len(log'[p]) \in Nat
             /\ Len(log[p]) <= Len(log'[p])
             /\ \A i \in 1 .. Len(log[p]) : i \in 1 .. Len(log'[p]) /\ log'[p][i] = log[p][i]
  <2>1. Len(log[p]) \in Nat /\ Len(log[q]) \in Nat
    BY <1>4
  <2> QED BY <1>5, <1>7, <2>1
<1>9. Logs'
  <2>1. ASSUME NEW p \in Partitions \ {Home}, NEW i \in 1 .. Len(log'[p])
        PROVE  log'[p][i] \notin Wanted
    <3>1. CASE p # q
      BY <1>3, <1>5, <2>1, <3>1 DEF Logs
    <3>2. CASE p = q
      <4>1. c \notin Wanted
        BY <1>2, <3>2
      <4>2. i \in 1 .. Len(log[q]) \/ i = Len(log[q]) + 1
        BY <1>4, <1>7, <3>2
      <4>3. \A k \in 1 .. Len(log[q]) : log[q][k] \notin Wanted
        BY <1>3, <3>2 DEF Logs
      <4> QED BY <1>7, <3>2, <4>1, <4>2, <4>3
    <3> QED BY <3>1, <3>2
  <2> QED BY <1>6, <2>1 DEF Logs
<1>10. Received'
  <2> SUFFICES ASSUME NEW p \in Partitions
               PROVE  /\ part[p].begin <= part[p].end /\ part[p].end <= Len(log'[p])
                      /\ R!Selects(part[p].out, log'[p], part[p].begin)
    BY <1>1 DEF Received
  <2>1. part[p].begin \in Nat /\ part[p].end \in Nat /\ part[p].out \in Seq(Wanted)
    BY <1>3 DEF ReaderTypes, Goroutines
  <2>2. /\ part[p].begin <= part[p].end /\ part[p].end <= Len(log[p])
        /\ R!Selects(part[p].out, log[p], part[p].begin)
    BY <1>3 DEF Received
  <2>3. part[p].end <= Len(log'[p])
    BY <1>8, <2>1, <2>2
  <2>4. part[p].begin \in 0 .. Len(log[p])
    BY <1>8, <2>1, <2>2
  <2>5. R!Selects(part[p].out, log'[p], part[p].begin)
    <3>1. CASE p = q
      <4>1. R!Selects(part[p].out, Append(log[q], c), part[p].begin)
        BY <1>2, <1>4, <2>1, <2>2, <2>4, <3>1, SelectsGrown
      <4> QED BY <1>5, <3>1, <4>1
    <3>2. CASE p # q
      BY <1>5, <2>2, <3>2
    <3> QED BY <3>1, <3>2
  <2> QED BY <2>2, <2>3, <2>5
<1>11. ReaderTypes' /\ Phases' /\ Collected'
  BY <1>1, <1>3 DEF ReaderTypes, Phases, Collected
<1>12. Held'
  <2> SUFFICES ASSUME ~shared, NEW d \in promised
               PROVE  \E p \in Partitions : \E i \in 1 .. Len(log'[p]) :
                        /\ log'[p][i] = d
                        /\ part[p].at \in {"reading", "ended"} /\ ~short => i <= part[p].end
    BY <1>1 DEF Held
  <2>1. PICK p \in Partitions : \E i \in 1 .. Len(log[p]) :
          log[p][i] = d /\ (part[p].at \in {"reading", "ended"} /\ ~short => i <= part[p].end)
    BY <1>3 DEF Held
  <2>2. PICK i \in 1 .. Len(log[p]) :
          log[p][i] = d /\ (part[p].at \in {"reading", "ended"} /\ ~short => i <= part[p].end)
    BY <2>1
  <2> QED BY <1>8, <2>2
<1> QED BY <1>9, <1>10, <1>11, <1>12 DEF Reading

\* Nor does another step of the producer.
LEMMA BesideReading ==
  ASSUME Reading, UNCHANGED <<log, reading, promised>>, shared => shared'
  PROVE  Reading'
<1>1. Logs /\ ReaderTypes /\ Received /\ Phases /\ Collected /\ Held
  BY DEF Reading
<1>2. Logs' /\ ReaderTypes' /\ Phases' /\ Collected'
  BY <1>1 DEF Logs, ReaderTypes, Phases, Collected, reading
<1>3. Received'
  BY <1>1 DEF Received, R!Selects, reading
<1>4. Held'
  BY <1>1 DEF Held, reading
<1> QED BY <1>2, <1>3, <1>4 DEF Reading

LEMMA ProducerSharing ==
  ASSUME Honest, ProducerStep
  PROVE  UNCHANGED <<log, reading, promised>> /\ (shared => shared')
<1>1. ASSUME NEW c \in Calls, P!CallStep(c) PROVE shared => shared'
  BY <1>1 DEF P!CallStep, P!Send, P!Cancel, P!TakeNothing, P!Take
<1>2. ASSUME NEW c \in Calls, P!Answer(c) \/ P!Drain(c) PROVE shared => shared'
  BY <1>2 DEF P!Answer, P!Drain
<1>3. ASSUME P!Close \/ P!Closed PROVE shared => shared'
  BY <1>3 DEF P!Close, P!Closed
<1> QED BY <1>1, <1>2, <1>3 DEF ProducerStep, Beside
\* ReadAll is called: the goroutines ask for the ends of their partitions, all of
\* which lie behind what has been published.
LEMMA ReadAllReading ==
  ASSUME Reading, Honest, R!ReadAll,
         promised' = {c \in Wanted \cap Calls : call[c] = "nil"},
         UNCHANGED <<call, ack, producer, shared, log>>
  PROVE  Reading'
<1>1. Logs /\ ReaderTypes /\ Received /\ Phases /\ Collected /\ Held
  BY DEF Reading
<1>2. /\ reader = "idle" /\ out = <<>>
      /\ \A p \in Partitions : part[p].at = "none"
      /\ UNCHANGED <<out, short>>
      /\ reader' \in {"reading", "failed"}
  BY <1>1 DEF R!ReadAll, Phases
<1>3. ASSUME NEW p \in Partitions
      PROVE  /\ part[p] \in Goroutines /\ part'[p] \in Goroutines
             /\ part'[p].at \in {"none", "offsets"} /\ part'[p].out = part[p].out
             /\ part'[p].begin = part[p].begin /\ part'[p].end = part[p].end
  <2>1. part[p] \in Goroutines
    BY <1>1 DEF ReaderTypes
  <2>2. CASE part' = part
    BY <1>2, <2>1, <2>2
  <2>3. CASE part' = [q \in Partitions |-> [part[q] EXCEPT !.at = "offsets"]]
    <3>1. part'[p] = [part[p] EXCEPT !.at = "offsets"]
      BY <2>3
    <3> QED BY <2>1, <3>1 DEF Goroutines
  <2> QED BY <2>2, <2>3 DEF R!ReadAll
<1>4. part' \in [Partitions -> Goroutines]
  <2>1. part' = [p \in Partitions |-> part'[p]]
    BY <1>1 DEF R!ReadAll, ReaderTypes
  <2> QED BY <1>3, <2>1
<1>5. Logs' /\ ReaderTypes'
  BY <1>1, <1>2, <1>4 DEF Logs, ReaderTypes
<1>6. Received'
  <2>1. ASSUME NEW p \in Partitions
        PROVE  /\ part'[p].begin <= part'[p].end /\ part'[p].end <= Len(log[p])
               /\ R!Selects(part'[p].out, log[p], part'[p].begin)
    BY <1>1, <1>3 DEF Received
  <2> QED BY <2>1 DEF Received
<1>7. \A p \in Partitions : part'[p].at # "ended" /\ part'[p].at # "reading"
  BY <1>3
<1>8. Phases' /\ Collected'
  BY <1>2, <1>7, HomeHolds DEF Phases, Collected
<1>9. Held'
  <2> SUFFICES ASSUME ~shared, NEW c \in Wanted \cap Calls, call[c] = "nil"
               PROVE  \E p \in Partitions : \E i \in 1 .. Len(log[p]) : log[p][i] = c
    BY <1>7 DEF Held
  <2>1. c \in stored
    BY DEF Honest, P!HonestUnlessShared, P!ReturnedNil
  <2>2. PICK p \in Partitions : c \in Range(log[p])
    BY <2>1 DEF stored
  <2>3. log[p] \in Seq(Records)
    BY <1>1 DEF Logs
  <2>4. DOMAIN log[p] = 1 .. Len(log[p])
    BY <2>3
  <2> QED BY <2>2, <2>4 DEF Range
<1> QED BY <1>5, <1>6, <1>8, <1>9 DEF Reading

\* A step of one goroutine.
LEMMA GoroutineReading ==
  ASSUME Reading, NEW p \in Partitions, part[p].at \in {"offsets", "reading"},
         UNCHANGED <<log, reader, promised, shared>>,
         NEW g \in Goroutines, part' = [part EXCEPT ![p] = g],
         out' \in Seq(Wanted), short' \in BOOLEAN, short => short',
         g.begin <= g.end, g.end <= Len(log[p]), R!Selects(g.out, log[p], g.begin),
         g.end = part[p].end \/ (part[p].at = "offsets" /\ g.end = Len(log[p])),
         part[p].at = "offsets" /\ ~short' => g.end = Len(log[p]),
         Collected'
  PROVE  Reading'
<1>1. Logs /\ ReaderTypes /\ Received /\ Phases /\ Collected /\ Held
  BY DEF Reading
<1>2. part'[p] = g /\ \A q \in Partitions : q # p => part'[q] = part[q]
  BY <1>1 DEF ReaderTypes
<1>3. Logs' /\ ReaderTypes'
  BY <1>1 DEF Logs, ReaderTypes
<1>4. Received'
  <2> SUFFICES ASSUME NEW q \in Partitions
               PROVE  /\ part'[q].begin <= part'[q].end /\ part'[q].end <= Len(log[q])
                      /\ R!Selects(part'[q].out, log[q], part'[q].begin)
    BY DEF Received
  <2>1. CASE q = p
    BY <1>2, <2>1
  <2>2. CASE q # p
    BY <1>1, <1>2, <2>2 DEF Received
  <2> QED BY <2>1, <2>2
<1>5. Phases'
  BY <1>1 DEF Phases
<1>6. Held'
  <2> SUFFICES ASSUME ~shared, NEW c \in promised
               PROVE  \E q \in Partitions : \E i \in 1 .. Len(log[q]) :
                        /\ log[q][i] = c
                        /\ part'[q].at \in {"reading", "ended"} /\ ~short' => i <= part'[q].end
    BY DEF Held
  <2>1. PICK q \in Partitions : \E i \in 1 .. Len(log[q]) :
          log[q][i] = c /\ (part[q].at \in {"reading", "ended"} /\ ~short => i <= part[q].end)
    BY <1>1 DEF Held
  <2>2. PICK i \in 1 .. Len(log[q]) :
          log[q][i] = c /\ (part[q].at \in {"reading", "ended"} /\ ~short => i <= part[q].end)
    BY <2>1
  <2>3. CASE q # p
    BY <1>2, <2>2, <2>3
  <2>4. CASE q = p
    <3>1. CASE part[p].at = "offsets"
      <4>1. ~short' => i <= g.end
        BY <2>2, <2>4, <3>1
      <4> QED BY <1>2, <2>2, <2>4, <4>1
    <3>2. CASE part[p].at = "reading"
      <4>1. g.end = part[p].end
        BY <3>2
      <4> QED BY <1>2, <2>2, <2>4, <3>2, <4>1
    <3> QED BY <3>1, <3>2
  <2> QED BY <2>3, <2>4
<1> QED BY <1>3, <1>4, <1>5, <1>6 DEF Reading
LEMMA OffsetsReading ==
  ASSUME Reading, NEW p \in Partitions, R!Offsets(p), UNCHANGED <<log, promised, shared>>
  PROVE  Reading'
<1> DEFINE g == [part[p] EXCEPT !.at = "reading", !.end = Len(log[p])]
<1>1. Logs /\ ReaderTypes /\ Received /\ Collected
  BY DEF Reading
<1>2. /\ part[p].at = "offsets" /\ UNCHANGED <<reader, out, short>>
      /\ part' = [part EXCEPT ![p] = g]
  BY DEF R!Offsets
<1>3. part[p] \in Goroutines /\ Len(log[p]) \in Nat
  BY <1>1 DEF ReaderTypes, Logs
<1>4. /\ g \in Goroutines /\ g.at = "reading" /\ g.end = Len(log[p])
      /\ g.begin = part[p].begin /\ g.out = part[p].out
  BY <1>3 DEF Goroutines
<1> HIDE DEF g
<1>5. part[p].begin <= part[p].end /\ part[p].end <= Len(log[p])
  BY <1>1 DEF Received
<1>6. g.begin <= g.end
  BY <1>3, <1>4, <1>5 DEF Goroutines
<1>7. R!Selects(g.out, log[p], g.begin)
  BY <1>1, <1>4 DEF Received
<1>8. part'[p] = g /\ \A q \in Partitions : q # p => part'[q] = part[q]
  BY <1>1, <1>2 DEF ReaderTypes
<1>9. \A q \in Partitions : part'[q].at = "ended" => part'[q] = part[q]
  BY <1>4, <1>8
<1>10. \A q \in Partitions : part[q].at = "ended" => part'[q] = part[q]
  BY <1>2, <1>8
<1>11. Collected'
  BY <1>1, <1>2, <1>9, <1>10, HomeHolds DEF Collected
<1>12. out' \in Seq(Wanted) /\ short' \in BOOLEAN /\ (short => short')
  BY <1>1, <1>2 DEF ReaderTypes
<1>13. g.end <= Len(log[p])
  BY <1>3, <1>4
<1> QED BY <1>2, <1>4, <1>6, <1>7, <1>11, <1>12, <1>13, GoroutineReading

LEMMA ReceiveReading ==
  ASSUME Reading, NEW p \in Partitions, R!Receive(p), UNCHANGED <<log, promised, shared>>
  PROVE  Reading'
<1> DEFINE n == part[p].begin
           record == log[p][n + 1]
           g == [part[p] EXCEPT !.begin = n + 1,
                                !.out = IF record \in Wanted THEN Append(@, record) ELSE @]
<1>1. Logs /\ ReaderTypes /\ Received /\ Collected
  BY DEF Reading
<1>2. /\ part[p].at = "reading" /\ n < part[p].end /\ UNCHANGED <<reader, out, short>>
      /\ part' = [part EXCEPT ![p] = g]
  BY DEF R!Receive
<1>3. /\ part[p] \in Goroutines /\ log[p] \in Seq(Records) /\ Len(log[p]) \in Nat
      /\ n \in Nat /\ part[p].end \in Nat /\ part[p].out \in Seq(Wanted)
  BY <1>1 DEF ReaderTypes, Logs, Goroutines
<1>4. part[p].end <= Len(log[p]) /\ R!Selects(part[p].out, log[p], n)
  BY <1>1 DEF Received
<1>5. g.at = "reading" /\ g.end = part[p].end /\ g.begin = n + 1
  BY <1>2, <1>3 DEF Goroutines
<1>6. g.out = IF record \in Wanted THEN Append(part[p].out, record) ELSE part[p].out
  BY <1>3 DEF Goroutines
<1>7. g.out \in Seq(Wanted)
  BY <1>3, <1>6
<1>8. g \in Goroutines
  <2>1. \A m \in Nat, s \in Seq(Wanted) : [part[p] EXCEPT !.begin = m, !.out = s] \in Goroutines
    BY <1>3 DEF Goroutines
  <2>2. n + 1 \in Nat
    BY <1>3
  <2> QED BY <1>6, <1>7, <2>1, <2>2
<1>9. R!Selects(g.out, log[p], n + 1)
  BY <1>3, <1>4, <1>6, SelectsTakes, SelectsSkips
<1> HIDE DEF g, n
<1>10. g.begin <= g.end /\ g.end <= Len(log[p])
  BY <1>2, <1>3, <1>4, <1>5
<1>11. part'[p] = g /\ \A q \in Partitions : q # p => part'[q] = part[q]
  BY <1>1, <1>2 DEF ReaderTypes
<1>12. \A q \in Partitions : part'[q].at = "ended" => part'[q] = part[q]
  BY <1>5, <1>11
<1>13. \A q \in Partitions : part[q].at = "ended" => part'[q] = part[q]
  BY <1>2, <1>11
<1>14. Collected'
  BY <1>1, <1>2, <1>12, <1>13, HomeHolds DEF Collected
<1>15. out' \in Seq(Wanted) /\ short' \in BOOLEAN /\ (short => short')
  BY <1>1, <1>2 DEF ReaderTypes
<1> QED BY <1>2, <1>5, <1>8, <1>9, <1>10, <1>14, <1>15, GoroutineReading

\* A goroutine of another partition has nothing to add, and that of Home is the
\* first to add something.
LEMMA CollectReading ==
  ASSUME Reading, NEW p \in Partitions, R!Collect(p), UNCHANGED <<log, promised, shared>>
  PROVE  Reading'
<1> DEFINE g == [part[p] EXCEPT !.at = "ended"]
<1>1. Logs /\ ReaderTypes /\ Received /\ Collected
  BY DEF Reading
<1>2. /\ part[p].at = "reading" /\ UNCHANGED reader
      /\ part' = [part EXCEPT ![p] = g]
      /\ out' = out \o part[p].out
      /\ short' = (short \/ part[p].begin < part[p].end)
  BY DEF R!Collect
<1>3. /\ part[p] \in Goroutines /\ part[p].begin \in Nat /\ part[p].end \in Nat
      /\ part[p].out \in Seq(Wanted) /\ out \in Seq(Wanted) /\ short \in BOOLEAN
      /\ Len(log[p]) \in Nat
  BY <1>1 DEF ReaderTypes, Logs, Goroutines
<1>4. /\ g \in Goroutines /\ g.at = "ended" /\ g.end = part[p].end
      /\ g.begin = part[p].begin /\ g.out = part[p].out
  BY <1>3 DEF Goroutines
<1> HIDE DEF g
<1>5. /\ part[p].begin <= part[p].end /\ part[p].end <= Len(log[p])
      /\ R!Selects(part[p].out, log[p], part[p].begin)
  BY <1>1 DEF Received
<1>6. part'[p] = g /\ \A q \in Partitions : q # p => part'[q] = part[q]
  BY <1>1, <1>2 DEF ReaderTypes
<1>7. out' \in Seq(Wanted) /\ short' \in BOOLEAN /\ (short => short')
  <2>1. \A s, t \in Seq(Wanted) : s \o t \in Seq(Wanted)
    OBVIOUS
  <2>2. out \o part[p].out \in Seq(Wanted)
    BY <1>3, <2>1
  <2>3. short' \in BOOLEAN /\ (short => short')
    BY <1>2
  <2> QED BY <1>2, <2>2, <2>3
<1>8. ~short' => g.begin = g.end
  <2>1. ~short' => ~(part[p].begin < part[p].end)
    BY <1>2
  <2>2. part[p].begin < part[p].end \/ part[p].begin = part[p].end
    BY <1>3, <1>5
  <2> QED BY <1>4, <2>1, <2>2
<1>9. ASSUME ~short', NEW q \in Partitions, part'[q].at = "ended"
      PROVE  part'[q].begin = part'[q].end
  <2>1. ~short
    BY <1>7, <1>9
  <2> QED BY <1>1, <1>6, <1>8, <1>9, <2>1 DEF Collected
<1>10. CASE p = Home
  <2>1. out = <<>>
    BY <1>1, <1>2, <1>10 DEF Collected
  <2>2. out' = g.out
    BY <1>2, <1>3, <1>4, <2>1
  <2>3. Collected'
    BY <1>4, <1>6, <1>9, <1>10, <2>2 DEF Collected
  <2> QED BY <1>2, <1>4, <1>5, <1>7, <2>3, GoroutineReading
<1>11. CASE p # Home
  <2>1. \A m \in 1 .. part[p].begin : log[p][m] \notin Wanted
    BY <1>1, <1>3, <1>5, <1>11 DEF Logs
  <2>2. part[p].out = <<>>
    BY <1>3, <1>5, <2>1, SelectsNothing
  <2>3. out' = out
    BY <1>2, <1>3, <2>2
  <2>4. part'[Home] = part[Home]
    BY <1>6, <1>11, HomeHolds
  <2>5. Collected'
    BY <1>1, <1>7, <1>9, <2>3, <2>4 DEF Collected
  <2> QED BY <1>2, <1>4, <1>5, <1>7, <2>5, GoroutineReading
<1> QED BY <1>10, <1>11

LEMMA GiveUpReading ==
  ASSUME Reading, NEW p \in Partitions, R!GiveUp(p), UNCHANGED <<log, promised, shared>>
  PROVE  Reading'
<1> DEFINE g == [part[p] EXCEPT !.at = "ended"]
<1>1. Logs /\ ReaderTypes /\ Received /\ Collected
  BY DEF Reading
<1>2. /\ part[p].at \in {"offsets", "reading"} /\ UNCHANGED <<reader, out>>
      /\ part' = [part EXCEPT ![p] = g]
      /\ short' = TRUE
  BY DEF R!GiveUp
<1>3. part[p] \in Goroutines /\ out \in Seq(Wanted)
  BY <1>1 DEF ReaderTypes
<1>4. /\ g \in Goroutines /\ g.end = part[p].end
      /\ g.begin = part[p].begin /\ g.out = part[p].out
  BY <1>3 DEF Goroutines
<1> HIDE DEF g
<1>5. /\ part[p].begin <= part[p].end /\ part[p].end <= Len(log[p])
      /\ R!Selects(part[p].out, log[p], part[p].begin)
  BY <1>1 DEF Received
<1>6. \A q \in Partitions : q # p => part'[q] = part[q]
  BY <1>1, <1>2 DEF ReaderTypes
<1>7. part[Home].at = "ended" => part'[Home] = part[Home]
  BY <1>2, <1>6, HomeHolds
<1>8. Collected'
  BY <1>1, <1>2, <1>7 DEF Collected
<1> QED BY <1>2, <1>3, <1>4, <1>5, <1>8, GoroutineReading

LEMMA ReturnReading ==
  ASSUME Reading, R!Return, UNCHANGED <<log, promised, shared>> PROVE Reading'
<1>1. Logs /\ ReaderTypes /\ Received /\ Phases /\ Collected /\ Held
  BY DEF Reading
<1>2. Logs' /\ ReaderTypes' /\ Phases' /\ Collected' /\ Held'
  BY <1>1 DEF R!Return, Logs, ReaderTypes, Phases, Collected, Held
<1>3. Received'
  BY <1>1 DEF R!Return, Received
<1> QED BY <1>2, <1>3 DEF Reading

LEMMA ReadingNext == Honest /\ Reading /\ [Next]_vars => Reading'
<1> SUFFICES ASSUME Honest, Reading, [Next]_vars PROVE Reading'
  OBVIOUS
<1>1. CASE UNCHANGED vars
  <2>1. UNCHANGED <<log, reading, promised, shared>>
    BY <1>1 DEF vars
  <2> QED BY <2>1, BesideReading
<1>2. ASSUME NEW c \in Calls, Store(c) PROVE Reading'
  BY <1>2, StoreReading
<1>3. CASE ProducerStep
  BY <1>3, ProducerSharing, BesideReading
<1>4. CASE ReaderStep
  <2>1. UNCHANGED <<call, ack, producer, shared, log>>
    BY <1>4 DEF ReaderStep
  <2>2. reader = "idle" => promised' = {c \in Wanted \cap Calls : call[c] = "nil"}
    BY <1>4 DEF ReaderStep
  <2>3. reader # "idle" => promised' = promised
    BY <1>4 DEF ReaderStep
  <2>4. CASE R!ReadAll
    BY <2>1, <2>2, <2>4, ReadAllReading DEF R!ReadAll
  <2>5. ASSUME NEW p \in Partitions, R!Goroutine(p) PROVE Reading'
    <3>1. part[p].at # "none"
      BY <2>5 DEF R!Goroutine, R!Offsets, R!Receive, R!Collect, R!GiveUp
    <3>2. promised' = promised
      BY <2>3, <3>1 DEF Reading, Phases
    <3> QED
      BY <2>1, <2>5, <3>2, OffsetsReading, ReceiveReading, CollectReading, GiveUpReading
      DEF R!Goroutine
  <2>6. CASE R!Return
    <3>1. promised' = promised
      BY <2>3, <2>6 DEF R!Return
    <3> QED BY <2>1, <2>6, <3>1, ReturnReading
  <2> QED BY <1>4, <2>4, <2>5, <2>6 DEF ReaderStep, R!ReadStep
<1> QED BY <1>1, <1>2, <1>3, <1>4 DEF Next

LEMMA LogInvariant == Spec => [](Honest /\ Reading)
<1>1. Init => Honest /\ Reading
  BY HonestInit, ReadingInit
<1>2. Honest /\ Reading /\ [Next]_vars => (Honest /\ Reading)'
  BY HonestNext, ReadingNext
<1> QED BY <1>1, <1>2, PTL DEF Spec

-----------------------------------------------------------------------------
(* What the runs check, for every value of the constants. *)

\* Every variable of the producers and of the reader keeps its type.
THEOREM LogTypes == Spec => []TypeOK
<1>1. Honest /\ Reading => TypeOK
  <2> SUFFICES ASSUME Honest, Reading PROVE TypeOK
    OBVIOUS
  <2>1. \A p \in Partitions : /\ part[p].at \in {"none", "offsets", "reading", "ended"}
                              /\ part[p].out \in Seq(Wanted)
    BY DEF Reading, ReaderTypes, Goroutines
  <2>2. R!ReadTypeOK
    BY <2>1 DEF Reading, ReaderTypes, Received, R!ReadTypeOK
  <2> QED BY <2>2 DEF TypeOK, Honest, Reading, ReaderTypes
<1> QED BY <1>1, LogInvariant, PTL

\* ReadAll returns the beginning of the job's records in their partition, however
\* many partitions there are, whichever of them fail or fall silent, and whatever
\* producers append in the meantime (ReplayReader.ReadAll, readPartition).
THEOREM ResultsArePrefixes == Spec => []ResultIsAPrefix
<1>1. Reading => ResultIsAPrefix
  <2> SUFFICES ASSUME Reading
               PROVE  \E n \in 0 .. Len(log[Home]) : R!Selects(out, log[Home], n)
    BY HomeHolds DEF ResultIsAPrefix, R!ResultIsAPrefix
  <2>1. /\ part[Home].begin \in Nat /\ part[Home].end \in Nat /\ Len(log[Home]) \in Nat
    BY HomeHolds DEF Reading, ReaderTypes, Goroutines, Logs
  <2>2. /\ part[Home].begin <= part[Home].end /\ part[Home].end <= Len(log[Home])
        /\ R!Selects(part[Home].out, log[Home], part[Home].begin)
    BY HomeHolds DEF Reading, Received
  <2>3. part[Home].begin \in 0 .. Len(log[Home]) /\ 0 \in 0 .. Len(log[Home])
    BY <2>1, <2>2
  <2>4. CASE out = <<>>
    BY <2>3, <2>4, SelectsNone
  <2>5. CASE out = part[Home].out
    BY <2>2, <2>3, <2>5
  <2> QED BY <2>4, <2>5 DEF Reading, Collected
<1> QED BY <1>1, LogInvariant, PTL

\* What a Publish had an acknowledgement for, and so returned nil, when ReadAll
\* was called is in its result, unless a partition was cut short or a record was
\* sent while the acknowledgement of another one was due (Producer.Publish,
\* ReplayReader.ReadAll).
THEOREM PublishedIsRead == Spec => []ReadsWhatWasPublished
<1>1. Reading => ReadsWhatWasPublished
  <2> SUFFICES ASSUME Reading, reader = "returned", ~short, ~shared, NEW c \in promised
               PROVE  c \in Range(out)
    BY DEF ReadsWhatWasPublished
  <2>1. PICK p \in Partitions : \E i \in 1 .. Len(log[p]) :
          log[p][i] = c /\ (part[p].at \in {"reading", "ended"} /\ ~short => i <= part[p].end)
    BY DEF Reading, Held
  <2>2. PICK i \in 1 .. Len(log[p]) :
          log[p][i] = c /\ (part[p].at \in {"reading", "ended"} /\ ~short => i <= part[p].end)
    BY <2>1
  <2>3. part[p].at = "ended" /\ c \in Wanted
    BY DEF Reading, Phases, ReaderTypes
  <2>4. p = Home
    BY <2>2, <2>3 DEF Reading, Logs
  <2>5. i <= part[p].end /\ part[p].begin = part[p].end /\ out = part[p].out
    BY <2>2, <2>3, <2>4 DEF Reading, Collected
  <2>6. i \in 1 .. part[p].begin
    BY <2>5 DEF Reading, ReaderTypes, Goroutines
  <2>7. R!Selects(part[p].out, log[p], part[p].begin)
    BY DEF Reading, Received
  <2>8. log[p][i] \in Range(part[p].out)
    BY <2>2, <2>3, <2>6, <2>7, SelectsAll
  <2> QED BY <2>2, <2>5, <2>8
<1> QED BY <1>1, LogInvariant, PTL
=============================================================================
