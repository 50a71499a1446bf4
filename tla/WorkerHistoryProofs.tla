------------------------- MODULE WorkerHistoryProofs -------------------------
(***************************************************************************)
(* Proofs about what Worker leaves behind in llm.events, llm.completed,    *)
(* llm.failed and llm.dlq, and about how often it hands a record out, for  *)
(* any number of workers, partitions, records, attempts and chunks.        *)
(***************************************************************************)
EXTENDS WorkerProofs, FiniteSetTheorems

-----------------------------------------------------------------------------
(* The steps of a claim, in one table: where the goroutine comes from and    *)
(* goes to, what becomes of its job, and what it publishes.                  *)

\* The event publishEvent builds at its call, and the record of a result.
EventOf(w, p, type, count) ==
  [type |-> type, seq |-> job[w][p].seq + 1, count |-> count,
   delivery |-> job[w][p].delivery, attempt |-> job[w][p].attempt]

ResultOf(w, p, topic) ==
  [request |-> Current(w, p), topic |-> topic,
   delivery |-> job[w][p].delivery, attempt |-> job[w][p].attempt]

Silent == UNCHANGED <<events, results>>

Writes(w, p, type, count, stored) ==
  /\ events' = IF stored
               THEN [events EXCEPT ![Current(w, p)] = Append(@, EventOf(w, p, type, count))]
               ELSE events
  /\ UNCHANGED results

Records(w, p, topic, stored) ==
  /\ results' = IF stored THEN results \cup {ResultOf(w, p, topic)} ELSE results
  /\ UNCHANGED events

\* No other claim moves, and this one goes on with its delivery.
Alone(w, p) ==
  /\ UNCHANGED <<pos, deliveries>>
  /\ \A v \in Workers, q \in Partitions : <<v, q>> # <<w, p>> =>
       pc'[v][q] = pc[v][q] /\ job'[v][q] = job[v][q]
  /\ job'[w][p] \in Jobs
  /\ job'[w][p].delivery = job[w][p].delivery

\* Where RunFailed takes a claim.
FailedTo(j, m) == m \in {"ended", "backoff", "failing"} /\ (m = "backoff" => j.attempt < MaxRetry)

\* A claim at place l with job j publishes, and goes on at m with job k;
\* stored says whether the broker has the record.
Row(w, p, stored) ==
  LET l == pc[w][p]  m == pc'[w][p]  j == job[w][p]  k == job'[w][p] IN
  \/ /\ l = "slot" /\ m = "begin" /\ Silent
     /\ k.attempt = 1 /\ k.seq = j.seq
  \/ /\ l = "backoff" /\ m = "begin" /\ Silent
     /\ k.attempt = j.attempt + 1 /\ k.seq = j.seq
  \/ /\ l \in {"slot", "stream", "backoff"} /\ m = "ended" /\ Silent
  \/ /\ l = "begin" /\ FailedTo(j, m) /\ Silent
     /\ k.attempt = j.attempt /\ k.seq = j.seq
  \/ /\ l = "begin" /\ (m = "stream" \/ FailedTo(j, m))
     /\ Writes(w, p, "started", 0, stored)
     /\ k.attempt = j.attempt /\ k.seq = j.seq + 1 /\ k.chunks = 0
     /\ PublishContract /\ m = "stream" => stored
  \/ /\ l = "stream" /\ m = "stream" /\ Writes(w, p, "raw_sse", 0, stored)
     /\ k.attempt = j.attempt /\ k.seq = j.seq + 1 /\ k.chunks = j.chunks + 1
     /\ PublishContract => stored
  \/ /\ l = "stream" /\ FailedTo(j, m) /\ Writes(w, p, "raw_sse", 0, stored)
     /\ k.attempt = j.attempt /\ k.seq = j.seq + 1
  \/ /\ l = "stream" /\ (m = "stream" \/ FailedTo(j, m))
     /\ Writes(w, p, "heartbeat", 0, stored)
     /\ k.attempt = j.attempt /\ k.seq = j.seq /\ k.chunks = j.chunks
  \/ /\ l = "stream" /\ (m = "completing" \/ FailedTo(j, m)) /\ Silent
     /\ k.attempt = j.attempt /\ k.seq = j.seq /\ k.chunks = j.chunks
  \/ /\ l = "completing" /\ (m = "aggregating" \/ FailedTo(j, m))
     /\ Writes(w, p, "completed", j.chunks, stored)
     /\ k.attempt = j.attempt /\ k.seq = j.seq + 1
     /\ PublishContract /\ m = "aggregating" => stored
  \/ /\ l = "aggregating" /\ (m = "marking" \/ FailedTo(j, m))
     /\ Records(w, p, "completed", stored)
     /\ k.attempt = j.attempt /\ k.seq = j.seq
  \/ /\ l = "failing" /\ m \in {"recording", "ended"} /\ Writes(w, p, "failed", 0, stored)
     /\ k.attempt = j.attempt /\ k.seq = j.seq + 1
     /\ PublishContract /\ m = "recording" => stored
  \/ /\ l = "recording" /\ m \in {"deadletter", "marking", "ended"}
     /\ Records(w, p, "failed", stored)
     /\ k = j
     /\ m = "deadletter" => j.attempt >= MaxRetry
     /\ PublishContract /\ m = "deadletter" => stored
  \/ /\ l = "deadletter" /\ m = "marking" /\ Records(w, p, "dlq", stored) /\ k = j
  \/ /\ l = "quarantine" /\ m \in {"marking", "ended"} /\ Records(w, p, "dlq", stored) /\ k = j


\* Everything a claim publishes is one event or one result, and only what the
\* broker took is there.
LEMMA WritesFrom ==
  ASSUME NEW w \in Workers, NEW p \in Partitions, NEW type, NEW count, NEW seq,
         NEW out \in PublishOutcomes, seq = job[w][p].seq + 1,
         PublishEvent(w, p, type, seq, count, out)
  PROVE  /\ Writes(w, p, type, count, out.stored)
         /\ PublishContract /\ out.ok => out.stored
BY DEF PublishEvent, Writes, EventOf, PublishContract

LEMMA RecordsFrom ==
  ASSUME NEW w \in Workers, NEW p \in Partitions, NEW topic, NEW out \in PublishOutcomes,
         PublishResult(w, p, topic, out)
  PROVE  /\ Records(w, p, topic, out.stored)
         /\ PublishContract /\ out.ok => out.stored
BY DEF PublishResult, Records, ResultOf, PublishContract

\* Where the control helpers take a claim.
LEMMA GoesTo ==
  ASSUME TypeInv, NEW w \in Workers, NEW p \in Partitions
  PROVE  /\ \A l : GoTo(w, p, l) => pc'[w][p] = l
         /\ EndClaim(w, p) => pc'[w][p] = "ended"
         /\ \A class : RunFailed(w, p, class) => FailedTo(job[w][p], pc'[w][p])
<1>1. pc \in [Workers -> [Partitions -> Places]]
  BY DEF TypeInv, TypeOK
<1>2. \A l : GoTo(w, p, l) => pc'[w][p] = l
  BY <1>1 DEF GoTo
<1>3. EndClaim(w, p) => pc'[w][p] = "ended"
  BY <1>1 DEF EndClaim
<1>4. ASSUME NEW class, RunFailed(w, p, class) PROVE FailedTo(job[w][p], pc'[w][p])
  <2>1. CASE sess[w] = "cancelled"
    BY <1>3, <1>4, <2>1 DEF RunFailed, FailedTo
  <2>2. CASE sess[w] # "cancelled" /\ class = "retryable" /\ job[w][p].attempt < MaxRetry
    <3>1. pc'[w][p] = "backoff"
      BY <1>2, <1>4, <2>2 DEF RunFailed
    <3> QED BY <2>2, <3>1 DEF FailedTo
  <2>3. CASE sess[w] # "cancelled" /\ ~(class = "retryable" /\ job[w][p].attempt < MaxRetry)
    <3>1. pc'[w][p] = "failing"
      BY <1>2, <1>4, <2>3 DEF RunFailed
    <3> QED BY <3>1 DEF FailedTo
  <2> QED BY <2>1, <2>2, <2>3
<1> QED BY <1>2, <1>3, <1>4

LEMMA SetsJob ==
  ASSUME TypeInv, NEW w \in Workers, NEW p \in Partitions, NEW k
  PROVE  SetJob(w, p, k) =>
           /\ job'[w][p] = k
           /\ \A v \in Workers, q \in Partitions : <<v, q>> # <<w, p>> => job'[v][q] = job[v][q]
BY DEF SetJob, TypeInv, TypeOK

\* The table is complete: every step of a claim that works on a
\* record is in it, but Mark.
LEMMA ClaimRow ==
  ASSUME TypeInv, TypeInv', NEW w \in Workers, NEW p \in Partitions,
         ClaimStep(w, p) \/ AcquireSlot(w, p), pc[w][p] \in Working, ~Mark(w, p)
  PROVE  Alone(w, p) /\ \E stored \in BOOLEAN : Row(w, p, stored)
<1> DEFINE j == job[w][p]
           k == job'[w][p]
           l == pc[w][p]
           m == pc'[w][p]
           Others == \A v \in Workers, q \in Partitions : <<v, q>> # <<w, p>> =>
                       job'[v][q] = job[v][q]
<1>1. j \in Jobs /\ k \in Jobs
  BY DEF TypeInv, TypeOK
<1>2. \A v \in Workers, q \in Partitions : <<v, q>> # <<w, p>> => pc'[v][q] = pc[v][q]
  BY ClaimMoves
<1>3. \A x : SetJob(w, p, x) => k = x /\ Others
  BY SetsJob
<1>4. UNCHANGED job => k = j /\ Others
  OBVIOUS
<1>5. /\ \A x : GoTo(w, p, x) => m = x
      /\ EndClaim(w, p) => m = "ended"
      /\ \A class : RunFailed(w, p, class) => FailedTo(j, m)
  BY GoesTo
<1>6. ASSUME UNCHANGED <<pos, deliveries>>, Others, k.delivery = j.delivery,
             NEW stored \in BOOLEAN, Row(w, p, stored)
      PROVE  Alone(w, p) /\ \E s \in BOOLEAN : Row(w, p, s)
  BY <1>1, <1>2, <1>6 DEF Alone
<1>7. \A out \in PublishOutcomes : out.stored \in BOOLEAN /\ out.ok \in BOOLEAN
  BY WorkersAssumption
<1> HIDE DEF j, k, l, m, Others
<1>10. CASE AcquireSlot(w, p)
  <2>1. k = [j EXCEPT !.attempt = 1] /\ Others
    BY <1>3, <1>10 DEF AcquireSlot, j
  <2>2. k.attempt = 1 /\ k.seq = j.seq /\ k.delivery = j.delivery
    BY <1>1, <2>1 DEF Jobs
  <2>3. l = "slot" /\ m = "begin" /\ Silent /\ UNCHANGED <<pos, deliveries>>
    BY <1>5, <1>10 DEF AcquireSlot, Silent, Log, Offsets, l, m
  <2>4. Row(w, p, TRUE)
    BY <2>2, <2>3 DEF Row, j, k, l, m
  <2> QED BY <1>6, <2>1, <2>2, <2>3, <2>4
<1>11. CASE Retry(w, p)
  <2>1. k = [j EXCEPT !.attempt = @ + 1] /\ Others
    BY <1>3, <1>11 DEF Retry, j
  <2>2. k.attempt = j.attempt + 1 /\ k.seq = j.seq /\ k.delivery = j.delivery
    BY <1>1, <2>1 DEF Jobs
  <2>3. l = "backoff" /\ m = "begin" /\ Silent /\ UNCHANGED <<pos, deliveries>>
    BY <1>5, <1>11 DEF Retry, Silent, Log, Offsets, l, m
  <2>4. Row(w, p, TRUE)
    BY <2>2, <2>3 DEF Row, j, k, l, m
  <2> QED BY <1>6, <2>1, <2>2, <2>3, <2>4
<1>12. CASE Interrupt(w, p)
  <2>1. k = j /\ Others
    BY <1>4, <1>12 DEF Interrupt
  <2>2. /\ l \in {"slot", "stream", "backoff"} /\ m = "ended" /\ Silent
        /\ UNCHANGED <<pos, deliveries>>
    BY <1>5, <1>12 DEF Interrupt, Silent, Log, Offsets, Working, SlotHolders, l, m
  <2>3. Row(w, p, TRUE)
    BY <2>2 DEF Row, l, m
  <2> QED BY <1>6, <2>1, <2>2, <2>3
<1>13. CASE Decode(w, p)
  <2>1. k = [j EXCEPT !.err = "retryable"] /\ Others
    BY <1>3, <1>13 DEF Decode, j
  <2>2. k.attempt = j.attempt /\ k.seq = j.seq /\ k.delivery = j.delivery
    BY <1>1, <2>1 DEF Jobs
  <2>3. l = "begin" /\ FailedTo(j, m) /\ Silent /\ UNCHANGED <<pos, deliveries>>
    BY <1>5, <1>13 DEF Decode, Silent, Log, Offsets, l
  <2>4. Row(w, p, TRUE)
    BY <2>2, <2>3 DEF Row, j, k, l, m
  <2> QED BY <1>6, <2>1, <2>2, <2>3, <2>4
<1>14. CASE StreamEnd(w, p)
  <2>1. PICK result \in {"none", "retryable", "fatal"} :
          LET err == IF result = "none" /\ j.chunks = 0 THEN "retryable" ELSE result
          IN /\ IF err = "none" THEN GoTo(w, p, "completing") ELSE RunFailed(w, p, err)
             /\ SetJob(w, p, [j EXCEPT !.err = err])
    BY <1>14 DEF StreamEnd, j
  <2> DEFINE err == IF result = "none" /\ j.chunks = 0 THEN "retryable" ELSE result
  <2>2. k = [j EXCEPT !.err = err] /\ Others
    BY <1>3, <2>1
  <2>3. k.attempt = j.attempt /\ k.seq = j.seq /\ k.chunks = j.chunks /\ k.delivery = j.delivery
    BY <1>1, <2>2 DEF Jobs
  <2>4. m = "completing" \/ FailedTo(j, m)
    BY <1>5, <2>1
  <2>5. l = "stream" /\ Silent /\ UNCHANGED <<pos, deliveries>>
    BY <1>14 DEF StreamEnd, Silent, Log, Offsets, l
  <2>6. Row(w, p, TRUE)
    BY <2>3, <2>4, <2>5 DEF Row, j, k, l, m
  <2> QED BY <1>6, <2>2, <2>3, <2>5, <2>6
<1>15. CASE Start(w, p)
  <2>1. PICK out \in PublishOutcomes :
          /\ PublishEvent(w, p, "started", j.seq + 1, 0, out)
          /\ IF out.ok THEN GoTo(w, p, "stream") ELSE RunFailed(w, p, "retryable")
          /\ SetJob(w, p, [j EXCEPT !.seq = j.seq + 1, !.chunks = 0, !.beats = 0,
                             !.err = IF out.ok THEN "none" ELSE "retryable"])
    BY <1>15 DEF Start, j
  <2>2. k = [j EXCEPT !.seq = j.seq + 1, !.chunks = 0, !.beats = 0,
                      !.err = IF out.ok THEN "none" ELSE "retryable"] /\ Others
    BY <1>3, <2>1
  <2>3. k.attempt = j.attempt /\ k.seq = j.seq + 1 /\ k.chunks = 0 /\ k.delivery = j.delivery
    BY <1>1, <2>2 DEF Jobs
  <2>4. (out.ok /\ m = "stream") \/ FailedTo(j, m)
    BY <1>5, <2>1
  <2>5. Writes(w, p, "started", 0, out.stored) /\ (PublishContract /\ out.ok => out.stored)
    BY <2>1, WritesFrom DEF j
  <2>6. l = "begin" /\ UNCHANGED <<pos, deliveries>>
    BY <1>15 DEF Start, Offsets, l
  <2>7. m = "stream" => out.ok
    BY <2>4 DEF FailedTo
  <2>8. Row(w, p, out.stored)
    BY <2>3, <2>4, <2>5, <2>6, <2>7 DEF Row, j, k, l, m
  <2> QED BY <1>6, <1>7, <2>2, <2>3, <2>6, <2>8
<1>16. CASE Chunk(w, p)
  <2>1. PICK out \in PublishOutcomes :
          /\ PublishEvent(w, p, "raw_sse", j.seq + 1, 0, out)
          /\ IF out.ok
             THEN /\ GoTo(w, p, "stream")
                  /\ SetJob(w, p, [j EXCEPT !.seq = j.seq + 1, !.chunks = @ + 1])
             ELSE /\ RunFailed(w, p, "retryable")
                  /\ SetJob(w, p, [j EXCEPT !.seq = j.seq + 1, !.err = "retryable"])
    BY <1>16 DEF Chunk, j
  <2>2. Writes(w, p, "raw_sse", 0, out.stored) /\ (PublishContract /\ out.ok => out.stored)
    BY <2>1, WritesFrom DEF j
  <2>3. l = "stream" /\ UNCHANGED <<pos, deliveries>>
    BY <1>16 DEF Chunk, Offsets, l
  <2>4. CASE out.ok
    <3>1. k = [j EXCEPT !.seq = j.seq + 1, !.chunks = j.chunks + 1] /\ Others
      BY <1>3, <2>1, <2>4
    <3>2. /\ k.attempt = j.attempt /\ k.seq = j.seq + 1 /\ k.chunks = j.chunks + 1
          /\ k.delivery = j.delivery
      BY <1>1, <3>1 DEF Jobs
    <3>3. m = "stream"
      BY <1>5, <2>1, <2>4
    <3>4. Row(w, p, out.stored)
      BY <2>2, <2>3, <2>4, <3>2, <3>3 DEF Row, j, k, l, m
    <3> QED BY <1>6, <1>7, <2>3, <3>1, <3>2, <3>4
  <2>5. CASE ~out.ok
    <3>1. k = [j EXCEPT !.seq = j.seq + 1, !.err = "retryable"] /\ Others
      BY <1>3, <2>1, <2>5
    <3>2. k.attempt = j.attempt /\ k.seq = j.seq + 1 /\ k.delivery = j.delivery
      BY <1>1, <3>1 DEF Jobs
    <3>3. FailedTo(j, m)
      BY <1>5, <2>1, <2>5
    <3>4. Row(w, p, out.stored)
      BY <2>2, <2>3, <3>2, <3>3 DEF Row, j, k, l, m
    <3> QED BY <1>6, <1>7, <2>3, <3>1, <3>2, <3>4
  <2> QED BY <2>4, <2>5
<1>17. CASE Heartbeat(w, p)
  <2>1. PICK out \in PublishOutcomes :
          /\ PublishEvent(w, p, "heartbeat", j.seq + 1, 0, out)
          /\ IF out.ok
             THEN /\ GoTo(w, p, "stream")
                  /\ SetJob(w, p, [j EXCEPT !.beats = @ + 1])
             ELSE /\ RunFailed(w, p, "retryable")
                  /\ SetJob(w, p, [j EXCEPT !.err = "retryable"])
    BY <1>17 DEF Heartbeat, j
  <2>2. /\ Others
        /\ \/ k = [j EXCEPT !.beats = j.beats + 1]
           \/ k = [j EXCEPT !.err = "retryable"]
    BY <1>3, <2>1
  <2>3. k.attempt = j.attempt /\ k.seq = j.seq /\ k.chunks = j.chunks /\ k.delivery = j.delivery
    BY <1>1, <2>2 DEF Jobs
  <2>4. m = "stream" \/ FailedTo(j, m)
    BY <1>5, <2>1
  <2>5. Writes(w, p, "heartbeat", 0, out.stored)
    BY <2>1, WritesFrom DEF j
  <2>6. l = "stream" /\ UNCHANGED <<pos, deliveries>>
    BY <1>17 DEF Heartbeat, Offsets, l
  <2>7. Row(w, p, out.stored)
    BY <2>3, <2>4, <2>5, <2>6 DEF Row, j, k, l, m
  <2> QED BY <1>6, <1>7, <2>2, <2>3, <2>6, <2>7
<1>18. CASE Complete(w, p)
  <2>1. PICK out \in PublishOutcomes :
          /\ PublishEvent(w, p, "completed", j.seq + 1, j.chunks, out)
          /\ IF out.ok THEN GoTo(w, p, "aggregating") ELSE RunFailed(w, p, "retryable")
          /\ SetJob(w, p, [j EXCEPT !.seq = j.seq + 1,
                             !.err = IF out.ok THEN "none" ELSE "retryable"])
    BY <1>18 DEF Complete, j
  <2>2. k = [j EXCEPT !.seq = j.seq + 1, !.err = IF out.ok THEN "none" ELSE "retryable"] /\ Others
    BY <1>3, <2>1
  <2>3. k.attempt = j.attempt /\ k.seq = j.seq + 1 /\ k.delivery = j.delivery
    BY <1>1, <2>2 DEF Jobs
  <2>4. (out.ok /\ m = "aggregating") \/ FailedTo(j, m)
    BY <1>5, <2>1
  <2>5. /\ Writes(w, p, "completed", j.chunks, out.stored)
        /\ PublishContract /\ out.ok => out.stored
    BY <2>1, WritesFrom DEF j
  <2>6. l = "completing" /\ UNCHANGED <<pos, deliveries>>
    BY <1>18 DEF Complete, Offsets, l
  <2>7. m = "aggregating" => out.ok
    BY <2>4 DEF FailedTo
  <2>8. Row(w, p, out.stored)
    BY <2>3, <2>4, <2>5, <2>6, <2>7 DEF Row, j, k, l, m
  <2> QED BY <1>6, <1>7, <2>2, <2>3, <2>6, <2>8
<1>19. CASE Aggregate(w, p)
  <2>1. PICK out \in PublishOutcomes :
          /\ PublishResult(w, p, "completed", out)
          /\ IF out.ok THEN GoTo(w, p, "marking") ELSE RunFailed(w, p, "retryable")
          /\ SetJob(w, p, [j EXCEPT !.err = IF out.ok THEN "none" ELSE "retryable"])
    BY <1>19 DEF Aggregate, j
  <2>2. k = [j EXCEPT !.err = IF out.ok THEN "none" ELSE "retryable"] /\ Others
    BY <1>3, <2>1
  <2>3. k.attempt = j.attempt /\ k.seq = j.seq /\ k.delivery = j.delivery
    BY <1>1, <2>2 DEF Jobs
  <2>4. m = "marking" \/ FailedTo(j, m)
    BY <1>5, <2>1
  <2>5. Records(w, p, "completed", out.stored)
    BY <2>1, RecordsFrom
  <2>6. l = "aggregating" /\ UNCHANGED <<pos, deliveries>>
    BY <1>19 DEF Aggregate, Offsets, l
  <2>7. Row(w, p, out.stored)
    BY <2>3, <2>4, <2>5, <2>6 DEF Row, j, k, l, m
  <2> QED BY <1>6, <1>7, <2>2, <2>3, <2>6, <2>7
<1>20. CASE Fail(w, p)
  <2>1. PICK out \in PublishOutcomes :
          /\ PublishEvent(w, p, "failed", j.seq + 1, 0, out)
          /\ IF out.ok THEN GoTo(w, p, "recording") ELSE EndClaim(w, p)
    BY <1>20 DEF Fail, j
  <2>2. k = [j EXCEPT !.seq = j.seq + 1] /\ Others
    BY <1>3, <1>20 DEF Fail, j
  <2>3. k.attempt = j.attempt /\ k.seq = j.seq + 1 /\ k.delivery = j.delivery
    BY <1>1, <2>2 DEF Jobs
  <2>4. (out.ok /\ m = "recording") \/ m = "ended"
    BY <1>5, <2>1
  <2>5. /\ Writes(w, p, "failed", 0, out.stored)
        /\ PublishContract /\ out.ok => out.stored
    BY <2>1, WritesFrom DEF j
  <2>6. l = "failing" /\ UNCHANGED <<pos, deliveries>>
    BY <1>20 DEF Fail, Offsets, l
  <2>7. Row(w, p, out.stored)
    BY <2>3, <2>4, <2>5, <2>6 DEF Row, j, k, l, m
  <2> QED BY <1>6, <1>7, <2>2, <2>3, <2>6, <2>7
<1>21. CASE RecordFailure(w, p)
  <2>1. PICK out \in PublishOutcomes :
          /\ PublishResult(w, p, "failed", out)
          /\ IF ~out.ok THEN EndClaim(w, p)
             ELSE GoTo(w, p, IF j.attempt >= MaxRetry /\ j.err = "retryable"
                             THEN "deadletter" ELSE "marking")
    BY <1>21 DEF RecordFailure, j
  <2>2. k = j /\ Others
    BY <1>4, <1>21 DEF RecordFailure
  <2>3. \/ out.ok /\ j.attempt >= MaxRetry /\ m = "deadletter"
        \/ m \in {"marking", "ended"}
    BY <1>5, <2>1
  <2>4. Records(w, p, "failed", out.stored) /\ (PublishContract /\ out.ok => out.stored)
    BY <2>1, RecordsFrom
  <2>5. l = "recording" /\ UNCHANGED <<pos, deliveries>>
    BY <1>21 DEF RecordFailure, Offsets, l
  <2>6. Row(w, p, out.stored)
    BY <2>2, <2>3, <2>4, <2>5 DEF Row, j, k, l, m
  <2> QED BY <1>6, <1>7, <2>2, <2>5, <2>6
<1>22. CASE DeadLetter(w, p)
  <2>1. PICK out \in PublishOutcomes : PublishResult(w, p, "dlq", out)
    BY <1>22 DEF DeadLetter
  <2>2. k = j /\ Others
    BY <1>4, <1>22 DEF DeadLetter
  <2>3. Records(w, p, "dlq", out.stored)
    BY <2>1, RecordsFrom
  <2>4. l = "deadletter" /\ m = "marking" /\ UNCHANGED <<pos, deliveries>>
    BY <1>5, <1>22 DEF DeadLetter, Offsets, l
  <2>5. Row(w, p, out.stored)
    BY <2>2, <2>3, <2>4 DEF Row, j, k, l, m
  <2> QED BY <1>6, <1>7, <2>2, <2>4, <2>5
<1>23. CASE Quarantine(w, p)
  <2>1. PICK out \in PublishOutcomes :
          /\ PublishResult(w, p, "dlq", out)
          /\ IF out.ok THEN GoTo(w, p, "marking") ELSE EndClaim(w, p)
    BY <1>23 DEF Quarantine
  <2>2. k = j /\ Others
    BY <1>4, <1>23 DEF Quarantine
  <2>3. Records(w, p, "dlq", out.stored) /\ m \in {"marking", "ended"}
    BY <1>5, <2>1, RecordsFrom
  <2>4. l = "quarantine" /\ UNCHANGED <<pos, deliveries>>
    BY <1>23 DEF Quarantine, Offsets, l
  <2>5. Row(w, p, out.stored)
    BY <2>2, <2>3, <2>4 DEF Row, j, k, l, m
  <2> QED BY <1>6, <1>7, <2>2, <2>4, <2>5
<1>24. ~Fetch(w, p)
  BY DEF Fetch, Working, SlotHolders
<1> QED BY <1>10, <1>11, <1>12, <1>13, <1>14, <1>15, <1>16, <1>17, <1>18, <1>19, <1>20, <1>21,
           <1>22, <1>23, <1>24 DEF ClaimStep

-----------------------------------------------------------------------------
(* Deliveries and their events. *)

\* Every handing out of a record has a number of its own, and so has each
\* claim that works on the record.
Numbers ==
  /\ \A r \in Requests : \A i \in DOMAIN events[r] :
       1 <= events[r][i].delivery /\ events[r][i].delivery <= deliveries[r]
  /\ \A w \in Workers, p \in Partitions : pc[w][p] \in Working =>
       1 <= job[w][p].delivery /\ job[w][p].delivery <= deliveries[Current(w, p)]
  /\ \A v, w \in Workers, p \in Partitions :
       v # w /\ pc[v][p] \in Working /\ pc[w][p] \in Working /\ pos[v][p] = pos[w][p] =>
         job[v][p].delivery # job[w][p].delivery

\* Where a claim with job j may stand when e is stored as an event of its
\* delivery.
Own(e, j, l) ==
  /\ l \notin {"quarantine", "slot"}
  /\ e.attempt <= j.attempt
  /\ l = "begin" => e.attempt < j.attempt
  /\ e.type # "heartbeat" => e.seq <= j.seq
  /\ e.type = "failed" => l \in {"recording", "deadletter", "marking"}
  /\ e.type = "completed" /\ e.attempt = j.attempt =>
       l \in {"aggregating", "backoff", "failing", "recording", "deadletter", "marking"}

OwnEvents ==
  \A w \in Workers, p \in Partitions : pc[w][p] \in Working =>
    \A i \in DOMAIN events[Current(w, p)] :
      events[Current(w, p)][i].delivery = job[w][p].delivery =>
        Own(events[Current(w, p)][i], job[w][p], pc[w][p])

\* What an event e of a delivery allows to come after it.
Before(e, f) ==
  /\ e.type # "failed"
  /\ e.type = "completed" => f.type = "failed" \/ e.attempt < f.attempt
  /\ "heartbeat" \notin {e.type, f.type} => e.seq < f.seq

InOrder ==
  \A r \in Requests : \A i, k \in DOMAIN events[r] :
    i < k /\ events[r][i].delivery = events[r][k].delivery => Before(events[r][i], events[r][k])

History == Numbers /\ OwnEvents /\ InOrder


\* The step appends f to the events of the claim's record.
Adds(w, p, f) == events' = [events EXCEPT ![Current(w, p)] = Append(@, f)]

LEMMA EventOfIsEvent ==
  ASSUME TypeInv, NEW w \in Workers, NEW p \in Partitions, NEW count \in Nat,
         NEW type \in {"started", "raw_sse", "heartbeat", "completed", "failed"}
  PROVE  EventOf(w, p, type, count) \in Events
<1>1. job[w][p] \in Jobs
  BY DEF TypeInv, TypeOK
<1> QED BY <1>1 DEF EventOf, Events, Jobs

\* What the table says of the events of a delivery: those stored stay where
\* they may be, and a new one follows them.
LEMMA RowOwn ==
  ASSUME TypeInv, TypeInv', NEW w \in Workers, NEW p \in Partitions, Alone(w, p),
         NEW stored \in BOOLEAN, Row(w, p, stored)
  PROVE  /\ \A e \in Events :
              Own(e, job[w][p], pc[w][p]) =>
                (pc'[w][p] \in Working => Own(e, job'[w][p], pc'[w][p]))
         /\ \/ events' = events
            \/ \E f \in Events :
                 /\ f.delivery = job[w][p].delivery
                 /\ Adds(w, p, f)
                 /\ pc'[w][p] \in Working => Own(f, job'[w][p], pc'[w][p])
                 /\ \A e \in Events : Own(e, job[w][p], pc[w][p]) => Before(e, f)
<1> DEFINE j == job[w][p]
           k == job'[w][p]
           l == pc[w][p]
           m == pc'[w][p]
<1>1. /\ j.attempt \in Nat /\ j.seq \in Nat /\ j.delivery \in Nat /\ j.chunks \in Nat
      /\ k.attempt \in Nat /\ k.seq \in Nat
  <2>1. j \in Jobs /\ k \in Jobs
    BY DEF TypeInv, TypeOK
  <2> HIDE DEF j, k
  <2> QED BY <2>1 DEF Jobs
<1>2. \A e \in Events : e.seq \in Nat /\ e.attempt \in Nat
  BY DEF Events
<1>3. ASSUME NEW e \in Events, Own(e, j, l), m \in Working
      PROVE  Own(e, k, m)
  <2>1. e.seq \in Nat /\ e.attempt \in Nat
    BY <1>2
  <2> HIDE DEF j, k, l, m
  <2> QED BY <1>1, <1>3, <2>1 DEF Row, Own, FailedTo, Working, SlotHolders, j, k, l, m
<1>4. CASE ~stored \/ Silent \/ UNCHANGED events
  <2>1. events' = events
    BY <1>4 DEF Row, Silent, Writes, Records
  <2> QED BY <1>3, <2>1
<1>5. ASSUME NEW type \in {"started", "raw_sse", "heartbeat", "completed", "failed"},
             NEW count \in Nat, Writes(w, p, type, count, stored), stored,
             m \in Working => Own(EventOf(w, p, type, count), k, m),
             \A e \in Events : Own(e, j, l) => Before(e, EventOf(w, p, type, count))
      PROVE  \E f \in Events :
                 /\ f.delivery = j.delivery
                 /\ Adds(w, p, f)
                 /\ m \in Working => Own(f, k, m)
                 /\ \A e \in Events : Own(e, j, l) => Before(e, f)
  <2> DEFINE f == EventOf(w, p, type, count)
  <2>1. f \in Events
    BY EventOfIsEvent
  <2>2. f.delivery = j.delivery
    BY DEF EventOf
  <2>3. Adds(w, p, f)
    BY <1>5 DEF Writes, Adds
  <2> HIDE DEF f
  <2> QED BY <1>5, <2>1, <2>2, <2>3 DEF f
<1>6. ASSUME NEW type \in {"started", "raw_sse", "heartbeat", "completed", "failed"},
             NEW count \in Nat
      PROVE  LET f == EventOf(w, p, type, count) IN
             f.type = type /\ f.seq = j.seq + 1 /\ f.attempt = j.attempt
  BY DEF EventOf
<1>7. CASE stored /\ l = "begin" /\ (m = "stream" \/ FailedTo(j, m))
           /\ Writes(w, p, "started", 0, stored)
           /\ k.attempt = j.attempt /\ k.seq = j.seq + 1
  <2> DEFINE f == EventOf(w, p, "started", 0)
  <2>1. f.type = "started" /\ f.seq = j.seq + 1 /\ f.attempt = j.attempt
    BY <1>6
  <2> HIDE DEF f, j, k, l, m
  <2>2. m \in Working => Own(f, k, m)
    BY <1>1, <1>7, <2>1 DEF Own, FailedTo, Working, SlotHolders
  <2>3. \A e \in Events : Own(e, j, l) => Before(e, f)
    BY <1>1, <1>2, <1>7, <2>1 DEF Own, Before
  <2> QED BY <1>3, <1>5, <1>7, <2>2, <2>3 DEF f, j, k, l, m
<1>8. CASE stored /\ l = "stream" /\ (m = "stream" \/ FailedTo(j, m))
           /\ Writes(w, p, "raw_sse", 0, stored)
           /\ k.attempt = j.attempt /\ k.seq = j.seq + 1
  <2> DEFINE f == EventOf(w, p, "raw_sse", 0)
  <2>1. f.type = "raw_sse" /\ f.seq = j.seq + 1 /\ f.attempt = j.attempt
    BY <1>6
  <2> HIDE DEF f, j, k, l, m
  <2>2. m \in Working => Own(f, k, m)
    BY <1>1, <1>8, <2>1 DEF Own, FailedTo, Working, SlotHolders
  <2>3. \A e \in Events : Own(e, j, l) => Before(e, f)
    BY <1>1, <1>2, <1>8, <2>1 DEF Own, Before
  <2> QED BY <1>3, <1>5, <1>8, <2>2, <2>3 DEF f, j, k, l, m
<1>9. CASE stored /\ l = "stream" /\ (m = "stream" \/ FailedTo(j, m))
           /\ Writes(w, p, "heartbeat", 0, stored)
           /\ k.attempt = j.attempt /\ k.seq = j.seq
  <2> DEFINE f == EventOf(w, p, "heartbeat", 0)
  <2>1. f.type = "heartbeat" /\ f.seq = j.seq + 1 /\ f.attempt = j.attempt
    BY <1>6
  <2> HIDE DEF f, j, k, l, m
  <2>2. m \in Working => Own(f, k, m)
    BY <1>1, <1>9, <2>1 DEF Own, FailedTo, Working, SlotHolders
  <2>3. \A e \in Events : Own(e, j, l) => Before(e, f)
    BY <1>1, <1>2, <1>9, <2>1 DEF Own, Before
  <2> QED BY <1>3, <1>5, <1>9, <2>2, <2>3 DEF f, j, k, l, m
<1>10. CASE stored /\ l = "completing" /\ (m = "aggregating" \/ FailedTo(j, m))
            /\ Writes(w, p, "completed", j.chunks, stored)
            /\ k.attempt = j.attempt /\ k.seq = j.seq + 1
  <2> DEFINE f == EventOf(w, p, "completed", j.chunks)
  <2>1. f.type = "completed" /\ f.seq = j.seq + 1 /\ f.attempt = j.attempt
    BY <1>1, <1>6
  <2> HIDE DEF f, j, k, l, m
  <2>2. m \in Working => Own(f, k, m)
    BY <1>1, <1>10, <2>1 DEF Own, FailedTo, Working, SlotHolders
  <2>3. \A e \in Events : Own(e, j, l) => Before(e, f)
    BY <1>1, <1>2, <1>10, <2>1 DEF Own, Before
  <2> QED BY <1>1, <1>3, <1>5, <1>10, <2>2, <2>3 DEF f, j, k, l, m
<1>11. CASE stored /\ l = "failing" /\ m \in {"recording", "ended"}
            /\ Writes(w, p, "failed", 0, stored)
            /\ k.attempt = j.attempt /\ k.seq = j.seq + 1
  <2> DEFINE f == EventOf(w, p, "failed", 0)
  <2>1. f.type = "failed" /\ f.seq = j.seq + 1 /\ f.attempt = j.attempt
    BY <1>6
  <2> HIDE DEF f, j, k, l, m
  <2>2. m \in Working => Own(f, k, m)
    BY <1>1, <1>11, <2>1 DEF Own, Working, SlotHolders
  <2>3. \A e \in Events : Own(e, j, l) => Before(e, f)
    BY <1>1, <1>2, <1>11, <2>1 DEF Own, Before
  <2> QED BY <1>3, <1>5, <1>11, <2>2, <2>3 DEF f, j, k, l, m
<1> QED
  <2> HIDE DEF j, k, l, m
  <2>1. \/ ~stored \/ Silent \/ UNCHANGED events
        \/ stored /\ l = "begin" /\ (m = "stream" \/ FailedTo(j, m))
           /\ Writes(w, p, "started", 0, stored)
           /\ k.attempt = j.attempt /\ k.seq = j.seq + 1
        \/ stored /\ l = "stream" /\ (m = "stream" \/ FailedTo(j, m))
           /\ Writes(w, p, "raw_sse", 0, stored)
           /\ k.attempt = j.attempt /\ k.seq = j.seq + 1
        \/ stored /\ l = "stream" /\ (m = "stream" \/ FailedTo(j, m))
           /\ Writes(w, p, "heartbeat", 0, stored)
           /\ k.attempt = j.attempt /\ k.seq = j.seq
        \/ stored /\ l = "completing" /\ (m = "aggregating" \/ FailedTo(j, m))
            /\ Writes(w, p, "completed", j.chunks, stored)
            /\ k.attempt = j.attempt /\ k.seq = j.seq + 1
        \/ stored /\ l = "failing" /\ m \in {"recording", "ended"}
            /\ Writes(w, p, "failed", 0, stored)
            /\ k.attempt = j.attempt /\ k.seq = j.seq + 1
    BY Zenon DEF Row, Records, j, k, l, m
  <2> QED BY <1>4, <1>7, <1>8, <1>9, <1>10, <1>11, <2>1 DEF j, k, l, m


\* A step that leaves the log alone and puts no claim to work.
LEMMA HistoryKept ==
  ASSUME History, events' = events, deliveries' = deliveries,
         \A v \in Workers, q \in Partitions : pc'[v][q] \in Working =>
           pc'[v][q] = pc[v][q] /\ job'[v][q] = job[v][q] /\ pos'[v][q] = pos[v][q]
  PROVE  History'
<1>1. \A v \in Workers, q \in Partitions : pc'[v][q] \in Working =>
        Current(v, q)' = Current(v, q)
  BY DEF Current
<1>2. Numbers'
  BY <1>1 DEF History, Numbers
<1>3. OwnEvents'
  BY <1>1 DEF History, OwnEvents
<1>4. InOrder'
  BY DEF History, InOrder
<1> QED BY <1>2, <1>3, <1>4 DEF History

\* Fetch takes a record to the handler and leaves every other claim alone.
LEMMA FetchMoves ==
  ASSUME TypeInv, NEW w \in Workers, NEW p \in Partitions, Fetch(w, p)
  PROVE  /\ pc'[w][p] \in {"quarantine", "slot"}
         /\ UNCHANGED <<events, results, pos>>
         /\ \A v \in Workers, q \in Partitions : <<v, q>> # <<w, p>> =>
              pc'[v][q] = pc[v][q] /\ job'[v][q] = job[v][q]
<1>1. pc'[w][p] \in {"quarantine", "slot"}
  BY GoesTo DEF Fetch
<1>2. \A v \in Workers, q \in Partitions : <<v, q>> # <<w, p>> => pc'[v][q] = pc[v][q]
  BY ClaimMoves DEF ClaimStep
<1>3. \A v \in Workers, q \in Partitions : <<v, q>> # <<w, p>> => job'[v][q] = job[v][q]
  BY SetsJob DEF Fetch
<1> QED BY <1>1, <1>2, <1>3 DEF Fetch, Log, Offsets

\* Fetch hands out a delivery no event and no other claim has.
LEMMA HistoryFetch ==
  ASSUME TypeInv, TypeInv', History, NEW w \in Workers, NEW p \in Partitions, Fetch(w, p)
  PROVE  History'
<1> DEFINE r == Current(w, p)
           d == deliveries[r] + 1
<1>1. /\ events' = events /\ pos' = pos
      /\ \A v \in Workers, q \in Partitions : <<v, q>> # <<w, p>> =>
           pc'[v][q] = pc[v][q] /\ job'[v][q] = job[v][q]
  BY FetchMoves
<1>2. pc'[w][p] \in Working /\ pc'[w][p] # "none"
  BY GoesTo DEF Fetch, Working
<1>3. r \in Requests /\ r' = r
  <2>1. pos[w][p] \in Nat /\ pos[w][p] < Len(Backlog[p])
    <3>1. /\ pos[w][p] \in Nat /\ arrived[p] \in Nat
          /\ pos[w][p] < arrived[p] /\ arrived[p] <= Len(Backlog[p])
      BY DEF Fetch, TypeInv, TypeOK, AtRecord
    <3>2. Len(Backlog[p]) \in Nat
      BY WorkersAssumption
    <3> QED BY <3>1, <3>2
  <2> QED BY <1>1, <2>1, RequestOfOffset DEF Current
<1>4. deliveries \in [Requests -> Nat] /\ deliveries' = [deliveries EXCEPT ![r] = d]
  BY DEF Fetch, TypeInv, TypeOK
<1>5. job'[w][p].delivery = d
  <2>1. job'[w][p] = [NoJob EXCEPT !.delivery = d]
    BY SetsJob DEF Fetch
  <2> QED BY <2>1 DEF NoJob
<1>6. /\ \A x \in Requests : deliveries[x] \in Nat /\ deliveries'[x] \in Nat
      /\ \A x \in Requests : deliveries[x] <= deliveries'[x]
      /\ deliveries'[r] = d
  BY <1>3, <1>4
<1>7. \A v \in Workers, q \in Partitions : pc[v][q] \in Working => Current(v, q) \in Requests
  BY CurrentIsRequest
<1>8. \A v \in Workers, q \in Partitions : Current(v, q)' = Current(v, q)
  BY <1>1 DEF Current
<1>9. /\ \A v \in Workers, q \in Partitions : job[v][q] \in Jobs
      /\ \A j \in Jobs : j.delivery \in Nat
      /\ \A x \in Requests : \A i \in DOMAIN events[x] : events[x][i].delivery \in Nat
  <2>1. \A v \in Workers, q \in Partitions : job[v][q] \in Jobs
    BY DEF TypeInv, TypeOK
  <2>2. \A j \in Jobs : j.delivery \in Nat
    BY DEF Jobs
  <2>3. ASSUME NEW x \in Requests, NEW i \in DOMAIN events[x]
        PROVE  events[x][i].delivery \in Nat
    <3>1. events[x] \in Seq(Events)
      BY DEF TypeInv, TypeOK
    <3>2. events[x][i] \in Events
      BY <3>1
    <3> QED BY <3>2 DEF Events
  <2> QED BY <2>1, <2>2, <2>3
<1> HIDE DEF r, d
<1>10. Numbers'
  <2>1. \A x \in Requests : \A i \in DOMAIN events'[x] :
          1 <= events'[x][i].delivery /\ events'[x][i].delivery <= deliveries'[x]
    BY <1>1, <1>6, <1>9 DEF History, Numbers
  <2>2. ASSUME NEW v \in Workers, NEW q \in Partitions, pc'[v][q] \in Working
        PROVE  1 <= job'[v][q].delivery /\ job'[v][q].delivery <= deliveries'[Current(v, q)']
    <3>1. CASE <<v, q>> = <<w, p>>
      BY <1>3, <1>5, <1>6, <3>1 DEF r, d
    <3>2. CASE <<v, q>> # <<w, p>>
      <4>1. pc[v][q] \in Working /\ job'[v][q] = job[v][q]
        BY <1>1, <2>2, <3>2
      <4>2. 1 <= job[v][q].delivery /\ job[v][q].delivery <= deliveries[Current(v, q)]
        BY <4>1 DEF History, Numbers
      <4> QED BY <1>6, <1>7, <1>8, <1>9, <4>1, <4>2
    <3> QED BY <3>1, <3>2
  <2>3. ASSUME NEW v \in Workers, NEW q \in Partitions, <<v, q>> # <<w, p>>, q = p,
               pc'[v][q] \in Working, pos'[v][q] = pos'[w][p]
        PROVE  job'[v][q].delivery # job'[w][p].delivery
    <3>1. pc[v][q] \in Working /\ job'[v][q] = job[v][q] /\ Current(v, q) = r
      BY <1>1, <2>3 DEF Current, r
    <3>2. job[v][q].delivery <= deliveries[r]
      BY <3>1 DEF History, Numbers
    <3> QED BY <1>3, <1>5, <1>6, <1>9, <3>1, <3>2 DEF d
  <2>4. ASSUME NEW u \in Workers, NEW v \in Workers, NEW q \in Partitions, u # v,
               pc'[u][q] \in Working, pc'[v][q] \in Working, pos'[u][q] = pos'[v][q]
        PROVE  job'[u][q].delivery # job'[v][q].delivery
    <3>1. CASE <<u, q>> = <<w, p>>
      BY <2>3, <2>4, <3>1
    <3>2. CASE <<v, q>> = <<w, p>>
      BY <2>3, <2>4, <3>2
    <3>3. CASE <<u, q>> # <<w, p>> /\ <<v, q>> # <<w, p>>
      BY <1>1, <2>4, <3>3 DEF History, Numbers
    <3> QED BY <3>1, <3>2, <3>3
  <2> QED BY <2>1, <2>2, <2>4 DEF Numbers
<1>11. OwnEvents'
  <2>1. ASSUME NEW v \in Workers, NEW q \in Partitions, pc'[v][q] \in Working,
               NEW i \in DOMAIN events[Current(v, q)],
               events[Current(v, q)][i].delivery = job'[v][q].delivery
        PROVE  Own(events[Current(v, q)][i], job'[v][q], pc'[v][q])
    <3>1. CASE <<v, q>> = <<w, p>>
      <4>1. events[r][i].delivery <= deliveries[r]
        BY <1>3, <2>1, <3>1 DEF History, Numbers, r
      <4> QED BY <1>3, <1>5, <1>6, <1>9, <2>1, <3>1, <4>1 DEF r, d
    <3>2. CASE <<v, q>> # <<w, p>>
      BY <1>1, <2>1, <3>2 DEF History, OwnEvents
    <3> QED BY <3>1, <3>2
  <2> QED BY <1>1, <1>8, <2>1 DEF OwnEvents
<1>12. InOrder'
  BY <1>1 DEF History, InOrder
<1> QED BY <1>10, <1>11, <1>12 DEF History


\* What Adds does to the log of each record.
LEMMA AddsTo ==
  ASSUME TypeInv, NEW w \in Workers, NEW p \in Partitions, pc[w][p] \in Working,
         NEW f \in Events, Adds(w, p, f)
  PROVE  /\ Current(w, p) \in Requests
         /\ \A x \in Requests : x # Current(w, p) => events'[x] = events[x]
         /\ \A x \in Requests : \A i \in DOMAIN events[x] :
              i \in DOMAIN events'[x] /\ events'[x][i] = events[x][i]
         /\ LET r == Current(w, p)  n == Len(events[r]) IN
            /\ n \in Nat
            /\ DOMAIN events[r] = 1 .. n
            /\ DOMAIN events'[r] = 1 .. n + 1
            /\ events'[r][n + 1] = f
<1> DEFINE r == Current(w, p)
<1>1. r \in Requests
  BY CurrentIsRequest
<1>2. events \in [Requests -> Seq(Events)]
  BY DEF TypeInv, TypeOK
<1>3. events'[r] = Append(events[r], f) /\ \A x \in Requests : x # r => events'[x] = events[x]
  BY <1>1, <1>2 DEF Adds
<1> HIDE DEF r
<1> DEFINE s == events[r]
<1>4. s \in Seq(Events)
  BY <1>1, <1>2
<1>5. events'[r] = Append(s, f)
  BY <1>3
<1> HIDE DEF s
<1>6. /\ Len(s) \in Nat /\ DOMAIN s = 1 .. Len(s)
      /\ DOMAIN Append(s, f) = 1 .. Len(s) + 1
      /\ Append(s, f)[Len(s) + 1] = f
      /\ \A i \in 1 .. Len(s) : Append(s, f)[i] = s[i]
  BY <1>4
<1>7. ASSUME NEW x \in Requests, NEW i \in DOMAIN events[x]
      PROVE  i \in DOMAIN events'[x] /\ events'[x][i] = events[x][i]
  <2>1. CASE x = r
    BY <1>5, <1>6, <1>7, <2>1 DEF s
  <2>2. CASE x # r
    BY <1>3, <1>7, <2>2
  <2> QED BY <2>1, <2>2
<1> QED BY <1>1, <1>3, <1>5, <1>6, <1>7 DEF r, s

\* Two claims of one record, by different workers, work on different
\* deliveries of it.
LEMMA OtherDelivery ==
  ASSUME Numbers, NEW w \in Workers, NEW p \in Partitions, NEW v \in Workers,
         NEW q \in Partitions, <<v, q>> # <<w, p>>, pc[w][p] \in Working,
         pc[v][q] \in Working, Current(v, q) = Current(w, p)
  PROVE  job[v][q].delivery # job[w][p].delivery
<1>1. q = p /\ v # w /\ pos[v][p] = pos[w][p]
  BY DEF Current
<1> QED BY <1>1 DEF Numbers

LEMMA HistoryRow ==
  ASSUME TypeInv, TypeInv', History, NEW w \in Workers, NEW p \in Partitions,
         pc[w][p] \in Working, Alone(w, p), NEW stored \in BOOLEAN, Row(w, p, stored)
  PROVE  History'
<1> DEFINE j == job[w][p]
           k == job'[w][p]
           l == pc[w][p]
           m == pc'[w][p]
           r == Current(w, p)
<1>1. /\ pos' = pos /\ deliveries' = deliveries /\ k.delivery = j.delivery
      /\ \A v \in Workers, q \in Partitions : <<v, q>> # <<w, p>> =>
           pc'[v][q] = pc[v][q] /\ job'[v][q] = job[v][q]
      /\ \A v \in Workers, q \in Partitions : Current(v, q)' = Current(v, q)
  BY DEF Alone, Current
<1>2. \A e \in Events : Own(e, j, l) => (m \in Working => Own(e, k, m))
  BY RowOwn
<1>3. \A x \in Requests : \A i \in DOMAIN events[x] : events[x][i] \in Events
  BY DEF TypeInv, TypeOK
<1>4. \A v \in Workers, q \in Partitions : pc[v][q] \in Working => Current(v, q) \in Requests
  BY CurrentIsRequest
<1>5. r \in Requests
  BY <1>4
<1>6. \A i \in DOMAIN events[r] : events[r][i].delivery = j.delivery => Own(events[r][i], j, l)
  BY DEF History, OwnEvents
<1>7. \A v \in Workers, q \in Partitions : pc'[v][q] \in Working =>
        pc[v][q] \in Working /\ job'[v][q].delivery = job[v][q].delivery
  BY <1>1
<1>8. /\ \A v \in Workers, q \in Partitions : pc'[v][q] \in Working =>
           1 <= job'[v][q].delivery /\ job'[v][q].delivery <= deliveries'[Current(v, q)']
      /\ \A u, v \in Workers, q \in Partitions :
           u # v /\ pc'[u][q] \in Working /\ pc'[v][q] \in Working /\ pos'[u][q] = pos'[v][q] =>
             job'[u][q].delivery # job'[v][q].delivery
  BY <1>1, <1>7 DEF History, Numbers
\* The events stored before stay where they may be.
<1>9. ASSUME NEW v \in Workers, NEW q \in Partitions, pc'[v][q] \in Working,
             NEW i \in DOMAIN events[Current(v, q)],
             events[Current(v, q)][i].delivery = job'[v][q].delivery
      PROVE  Own(events[Current(v, q)][i], job'[v][q], pc'[v][q])
  <2>1. CASE <<v, q>> = <<w, p>>
    <3>1. v = w /\ q = p
      BY <2>1
    <3>2. Own(events[r][i], j, l) /\ events[r][i] \in Events
      BY <1>1, <1>3, <1>5, <1>6, <1>9, <3>1
    <3> QED BY <1>2, <1>9, <3>1, <3>2
  <2>2. CASE <<v, q>> # <<w, p>>
    BY <1>1, <1>9, <2>2 DEF History, OwnEvents
  <2> QED BY <2>1, <2>2
<1>10. CASE events' = events
  <2>1. Numbers'
    BY <1>1, <1>8, <1>10 DEF History, Numbers
  <2>2. OwnEvents'
    BY <1>1, <1>9, <1>10 DEF OwnEvents
  <2>3. InOrder'
    BY <1>10 DEF History, InOrder
  <2> QED BY <2>1, <2>2, <2>3 DEF History
<1>11. ASSUME NEW f \in Events, f.delivery = j.delivery, Adds(w, p, f),
              m \in Working => Own(f, k, m),
              \A e \in Events : Own(e, j, l) => Before(e, f)
       PROVE  History'
  <2> DEFINE n == Len(events[r])
  <2>1. /\ \A x \in Requests : x # r => events'[x] = events[x]
        /\ \A x \in Requests : \A i \in DOMAIN events[x] :
             i \in DOMAIN events'[x] /\ events'[x][i] = events[x][i]
        /\ n \in Nat /\ DOMAIN events[r] = 1 .. n /\ DOMAIN events'[r] = 1 .. n + 1
        /\ events'[r][n + 1] = f
    BY <1>11, AddsTo
  <2>2. ASSUME NEW x \in Requests, NEW i \in DOMAIN events'[x]
        PROVE  \/ i \in DOMAIN events[x] /\ events'[x][i] = events[x][i]
               \/ x = r /\ i = n + 1 /\ events'[x][i] = f
    <3>1. CASE x = r
      <4>1. i \in 1 .. n \/ i = n + 1
        BY <2>1, <2>2, <3>1
      <4> QED BY <1>5, <2>1, <3>1, <4>1
    <3>2. CASE x # r
      BY <2>1, <2>2, <3>2
    <3> QED BY <3>1, <3>2
  <2> HIDE DEF n
  <2>3. ASSUME NEW x \in Requests, NEW i \in DOMAIN events'[x]
        PROVE  1 <= events'[x][i].delivery /\ events'[x][i].delivery <= deliveries'[x]
    <3>1. CASE i \in DOMAIN events[x] /\ events'[x][i] = events[x][i]
      BY <1>1, <3>1 DEF History, Numbers
    <3>2. CASE x = r /\ events'[x][i] = f
      BY <1>1, <1>11, <3>2 DEF History, Numbers
    <3> QED BY <2>2, <3>1, <3>2
  <2>4. Numbers'
    BY <1>8, <2>3 DEF Numbers
  <2>5. ASSUME NEW v \in Workers, NEW q \in Partitions, pc'[v][q] \in Working,
               NEW i \in DOMAIN events'[Current(v, q)],
               events'[Current(v, q)][i].delivery = job'[v][q].delivery
        PROVE  Own(events'[Current(v, q)][i], job'[v][q], pc'[v][q])
    <3>1. Current(v, q) \in Requests
      BY <1>4, <1>7, <2>5
    <3>2. CASE i \in DOMAIN events[Current(v, q)]
               /\ events'[Current(v, q)][i] = events[Current(v, q)][i]
      BY <1>9, <2>5, <3>2
    <3>3. CASE Current(v, q) = r /\ events'[Current(v, q)][i] = f
      <4>1. job[v][q].delivery = j.delivery /\ pc[v][q] \in Working
        BY <1>7, <1>11, <2>5, <3>3
      <4>2. <<v, q>> = <<w, p>>
        BY <3>3, <4>1, OtherDelivery DEF History
      <4> QED BY <1>11, <2>5, <3>3, <4>2
    <3> QED BY <2>2, <2>5, <3>1, <3>2, <3>3
  <2>6. OwnEvents'
    BY <1>1, <2>5 DEF OwnEvents
  <2>7. ASSUME NEW x \in Requests, NEW i \in DOMAIN events'[x], NEW y \in DOMAIN events'[x],
               i < y, events'[x][i].delivery = events'[x][y].delivery
        PROVE  Before(events'[x][i], events'[x][y])
    <3>1. CASE i \in DOMAIN events[x] /\ y \in DOMAIN events[x]
      BY <2>1, <2>7, <3>1 DEF History, InOrder
    <3>2. CASE x = r /\ i = n + 1
      <4>1. y \in 1 .. n + 1
        BY <2>1, <2>7, <3>2
      <4> QED BY <2>1, <2>7, <3>2, <4>1
    <3>3. CASE x = r /\ y = n + 1 /\ i \in DOMAIN events[x]
      <4>1. /\ events'[x][i] = events[r][i] /\ events[r][i] \in Events
            /\ events'[x][y] = f
        BY <1>3, <1>5, <2>1, <3>3
      <4>2. Own(events[r][i], j, l)
        BY <1>6, <1>11, <2>7, <3>3, <4>1
      <4> QED BY <1>11, <4>1, <4>2
    <3> QED BY <2>2, <2>7, <3>1, <3>2, <3>3
  <2>8. InOrder'
    BY <2>7 DEF InOrder
  <2> QED BY <2>4, <2>6, <2>8 DEF History
<1> QED
  <2>1. \/ events' = events
        \/ \E f \in Events :
             /\ f.delivery = j.delivery
             /\ Adds(w, p, f)
             /\ m \in Working => Own(f, k, m)
             /\ \A e \in Events : Own(e, j, l) => Before(e, f)
    BY RowOwn
  <2> QED BY <1>10, <1>11, <2>1

\* The steps of the group put no claim to work, and leave the log alone.
LEMMA GroupIdles ==
  ASSUME TypeInv,
         \/ Assign
         \/ \E q \in Partitions : Arrive(q)
         \/ \E w \in Workers : \/ Revoke(w) \/ Cancel(w) \/ AutoCommit(w)
                               \/ EndSession(w) \/ Evict(w) \/ Crash(w)
  PROVE  /\ UNCHANGED <<events, results, deliveries>>
         /\ \A v \in Workers, q \in Partitions : pc'[v][q] \in Working =>
              pc'[v][q] = pc[v][q] /\ job'[v][q] = job[v][q] /\ pos'[v][q] = pos[v][q]
<1>0. "none" \notin Working /\ "idle" \notin Working
  BY DEF Working, SlotHolders
<1>1. CASE Assign
  <2>1. PICK joined \in SUBSET {w \in Workers : sess[w] = "none"} \ {{}} :
          \E share \in [Partitions -> joined] :
            /\ owner' = share
            /\ sess' = [w \in Workers |-> IF w \in joined THEN "live" ELSE sess[w]]
            /\ pc' = [w \in Workers |-> [p \in Partitions |->
                        IF share[p] = w THEN "idle" ELSE pc[w][p]]]
            /\ pos' = [w \in Workers |-> [p \in Partitions |->
                        IF share[p] = w THEN StartOffset(p) ELSE pos[w][p]]]
            /\ base' = [p \in Partitions |-> StartOffset(p)]
    BY Zenon, <1>1 DEF Assign
  <2>2. UNCHANGED <<job, events, results, deliveries>>
    BY <1>1 DEF Assign, Log
  <2> QED BY <1>0, <2>1, <2>2
<1>2. CASE \E q \in Partitions : Arrive(q)
  BY <1>2 DEF Arrive, Log
<1>3. CASE \E w \in Workers : Revoke(w) \/ Cancel(w) \/ AutoCommit(w) \/ Evict(w)
  BY <1>3 DEF Revoke, Cancel, AutoCommit, Evict, Offsets, Log
<1>4. ASSUME NEW w \in Workers, EndSession(w) \/ Crash(w)
      PROVE  /\ UNCHANGED <<events, results, deliveries>>
             /\ \A v \in Workers, q \in Partitions : pc'[v][q] \in Working =>
                  pc'[v][q] = pc[v][q] /\ job'[v][q] = job[v][q] /\ pos'[v][q] = pos[v][q]
  <2>1. \A q \in Partitions : pc'[w][q] = "none"
    BY <1>4 DEF EndSession, Crash, TypeInv, TypeOK
  <2>2. \A v \in Workers : v # w => pc'[v] = pc[v] /\ job'[v] = job[v] /\ pos'[v] = pos[v]
    BY <1>4 DEF EndSession, Crash, TypeInv, TypeOK
  <2>3. UNCHANGED <<events, results, deliveries>>
    BY <1>4 DEF EndSession, Crash, Log
  <2> QED BY <1>0, <2>1, <2>2, <2>3
<1> QED BY <1>1, <1>2, <1>3, <1>4

\* A claim that works on no record only takes one or ends, and Mark ends the
\* work on one.
LEMMA ClaimIdles ==
  ASSUME TypeInv, NEW w \in Workers, NEW p \in Partitions,
         ClaimStep(w, p) \/ AcquireSlot(w, p), ~Fetch(w, p),
         pc[w][p] \notin Working \/ Mark(w, p)
  PROVE  /\ UNCHANGED <<events, results, deliveries>>
         /\ \A v \in Workers, q \in Partitions : pc'[v][q] \in Working =>
              pc'[v][q] = pc[v][q] /\ job'[v][q] = job[v][q] /\ pos'[v][q] = pos[v][q]
<1>0. "ended" \notin Working /\ "idle" \notin Working
  BY DEF Working, SlotHolders
<1>1. \A v \in Workers, q \in Partitions : <<v, q>> # <<w, p>> => pc'[v][q] = pc[v][q]
  BY ClaimMoves
<1>2. CASE Mark(w, p)
  <2>1. pc'[w][p] = "idle" /\ UNCHANGED <<events, results, deliveries>>
    BY <1>2, GoesTo DEF Mark, Log
  <2>2. \A v \in Workers, q \in Partitions : <<v, q>> # <<w, p>> =>
          job'[v][q] = job[v][q] /\ pos'[v][q] = pos[v][q]
    <3>1. \A v \in Workers, q \in Partitions : <<v, q>> # <<w, p>> => job'[v][q] = job[v][q]
      BY <1>2, SetsJob DEF Mark
    <3>2. \A v \in Workers, q \in Partitions : <<v, q>> # <<w, p>> => pos'[v][q] = pos[v][q]
      BY <1>2 DEF Mark, TypeInv, TypeOK
    <3> QED BY <3>1, <3>2
  <2> QED BY <1>0, <1>1, <2>1, <2>2
<1>3. CASE Interrupt(w, p)
  <2>1. pc'[w][p] = "ended" /\ UNCHANGED <<events, results, deliveries, job, pos>>
    BY <1>3, GoesTo DEF Interrupt, Log, Offsets
  <2> QED BY <1>0, <1>1, <2>1
<1>4. pc[w][p] \notin Working => Interrupt(w, p)
  BY DEF ClaimStep, AcquireSlot, Quarantine, Mark, Decode, Start, Chunk, Heartbeat, StreamEnd,
         Complete, Aggregate, Retry, Fail, RecordFailure, DeadLetter, Working, SlotHolders
<1> QED BY <1>2, <1>3, <1>4

LEMMA HistoryStep ==
  ASSUME TypeInv, TypeInv', History, [Next]_vars
  PROVE  History'
<1>1. CASE \/ Assign
           \/ \E q \in Partitions : Arrive(q)
           \/ \E w \in Workers : \/ Revoke(w) \/ Cancel(w) \/ AutoCommit(w)
                                 \/ EndSession(w) \/ Evict(w) \/ Crash(w)
  BY <1>1, GroupIdles, HistoryKept
<1>2. ASSUME NEW w \in Workers, NEW p \in Partitions, ClaimStep(w, p) \/ AcquireSlot(w, p)
      PROVE  History'
  <2>1. CASE Fetch(w, p)
    BY <2>1, HistoryFetch
  <2>2. CASE ~Fetch(w, p) /\ (pc[w][p] \notin Working \/ Mark(w, p))
    BY <1>2, <2>2, ClaimIdles, HistoryKept
  <2>3. CASE pc[w][p] \in Working /\ ~Mark(w, p)
    <3>1. PICK stored \in BOOLEAN : Alone(w, p) /\ Row(w, p, stored)
      BY <1>2, <2>3, ClaimRow
    <3> QED BY <2>3, <3>1, HistoryRow
  <2> QED BY <2>1, <2>2, <2>3
<1>3. CASE UNCHANGED vars
  BY <1>3, HistoryKept DEF vars
<1> QED BY <1>1, <1>2, <1>3 DEF Next, Quiet

LEMMA HistoryInit == Init => History
<1> SUFFICES ASSUME Init PROVE History
  OBVIOUS
<1>1. \A r \in Requests : DOMAIN events[r] = {}
  BY DEF Init
<1>2. \A w \in Workers, p \in Partitions : pc[w][p] \notin Working
  BY DEF Init, Working, SlotHolders
<1> QED BY <1>1, <1>2 DEF History, Numbers, OwnEvents, InOrder

LEMMA HistoryCorrect == Spec => []History
<1>1. TypeInv /\ TypeInv' /\ History /\ [Next]_vars => History'
  BY HistoryStep
<1> QED BY <1>1, HistoryInit, TypeCorrect, PTL DEF Spec

\* Within one delivery of a record the events that carry content are numbered
\* in growing order, through every retry, failed publish and heartbeat, and
\* whatever other workers publish for the same record (seqCounter).
THEOREM ContentGrows == Spec => []ContentSequenceGrows
<1>1. History => ContentSequenceGrows
  BY DEF History, InOrder, Before, ContentSequenceGrows
<1> QED BY <1>1, HistoryCorrect, PTL

\* Nothing follows the failed event of a delivery, and only that event or a
\* later attempt follows a completed one (process, publishFailed).
THEOREM TerminalIsLast == Spec => []TerminalEventsClose
<1>1. History => TerminalEventsClose
  BY DEF History, InOrder, Before, TerminalEventsClose
<1> QED BY <1>1, HistoryCorrect, PTL

\* Every variable keeps its type.
THEOREM WorkerTypes == Spec => []TypeOK
<1>1. TypeInv => TypeOK
  BY DEF TypeInv
<1> QED BY <1>1, TypeCorrect, PTL

-----------------------------------------------------------------------------
(* The results and the events they follow. *)

\* A claim that is about to write a result has stored the event it follows,
\* its attempts are within the limit, and one that is about to dead-letter its
\* record has used them up and written its failure.
Announced(w, p) ==
  /\ pc[w][p] \in {"aggregating", "recording"} =>
       \E i \in DOMAIN events[Current(w, p)] :
         /\ events[Current(w, p)][i].type =
              IF pc[w][p] = "aggregating" THEN "completed" ELSE "failed"
         /\ SameAttempt(events[Current(w, p)][i], job[w][p])
  /\ pc[w][p] \in SlotHolders => job[w][p].attempt <= MaxRetry
  /\ pc[w][p] = "backoff" => job[w][p].attempt < MaxRetry
  /\ pc[w][p] = "deadletter" =>
       job[w][p].attempt = MaxRetry /\ ResultOf(w, p, "failed") \in results

Truthful ==
  /\ \A w \in Workers, p \in Partitions : Announced(w, p)
  /\ ResultsFollowEvents
  /\ DeadLetterIsExhausted

\* The log only grows.
Grows ==
  /\ results \subseteq results'
  /\ \A x \in Requests : \A i \in DOMAIN events[x] :
       i \in DOMAIN events'[x] /\ events'[x][i] = events[x][i]

LEMMA RowGrows ==
  ASSUME TypeInv, TypeInv', NEW w \in Workers, NEW p \in Partitions, pc[w][p] \in Working,
         Alone(w, p), NEW stored \in BOOLEAN, Row(w, p, stored)
  PROVE  Grows
<1>1. results \subseteq results'
  BY DEF Row, Silent, Writes, Records
<1>2. CASE events' = events
  BY <1>1, <1>2 DEF Grows
<1>3. CASE events' # events
  <2>1. PICK f \in Events : Adds(w, p, f)
    BY <1>3, RowOwn
  <2> QED BY <1>1, <2>1, AddsTo DEF Grows
<1> QED BY <1>2, <1>3

\* A claim that stays where it is keeps what it has announced.
LEMMA AnnouncedStays ==
  ASSUME TypeInv, Grows, NEW v \in Workers, NEW q \in Partitions, Announced(v, q),
         pc'[v][q] = pc[v][q], job'[v][q] = job[v][q], pos'[v][q] = pos[v][q]
  PROVE  Announced(v, q)'
<1>1. Current(v, q)' = Current(v, q)
  BY DEF Current
<1>2. ResultOf(v, q, "failed")' = ResultOf(v, q, "failed")
  BY <1>1 DEF ResultOf
<1>3. ASSUME pc[v][q] \in {"aggregating", "recording"}
      PROVE  \E i \in DOMAIN events'[Current(v, q)] :
               /\ events'[Current(v, q)][i].type =
                    IF pc[v][q] = "aggregating" THEN "completed" ELSE "failed"
               /\ SameAttempt(events'[Current(v, q)][i], job[v][q])
  <2>1. Current(v, q) \in Requests
    BY <1>3, CurrentIsRequest DEF Working, SlotHolders
  <2>2. PICK i \in DOMAIN events[Current(v, q)] :
          /\ events[Current(v, q)][i].type =
               IF pc[v][q] = "aggregating" THEN "completed" ELSE "failed"
          /\ SameAttempt(events[Current(v, q)][i], job[v][q])
    BY <1>3 DEF Announced
  <2>3. i \in DOMAIN events'[Current(v, q)] /\ events'[Current(v, q)][i] = events[Current(v, q)][i]
    BY <2>1 DEF Grows
  <2> QED BY <2>2, <2>3
<1> QED BY <1>1, <1>2, <1>3 DEF Announced, SameAttempt, Grows

LEMMA NothingAnnounced ==
  ASSUME NEW v \in Workers, NEW q \in Partitions, pc[v][q] \notin SlotHolders
  PROVE  Announced(v, q)
BY DEF Announced, SlotHolders

\* A step that writes nothing and puts no claim to work.
LEMMA TruthfulKept ==
  ASSUME TypeInv, Truthful, events' = events, results' = results,
         \A v \in Workers, q \in Partitions : pc'[v][q] \in SlotHolders =>
           pc'[v][q] = pc[v][q] /\ job'[v][q] = job[v][q] /\ pos'[v][q] = pos[v][q]
  PROVE  Truthful'
<1>1. Grows
  BY DEF Grows
<1>2. ASSUME NEW v \in Workers, NEW q \in Partitions PROVE Announced(v, q)'
  <2>1. CASE pc'[v][q] \in SlotHolders
    BY <1>1, <2>1, AnnouncedStays DEF Truthful
  <2>2. CASE pc'[v][q] \notin SlotHolders
    BY <2>2 DEF Announced, SlotHolders
  <2> QED BY <2>1, <2>2
<1>3. ResultsFollowEvents'
  BY DEF Truthful, ResultsFollowEvents, SameAttempt
<1>4. DeadLetterIsExhausted'
  BY DEF Truthful, DeadLetterIsExhausted, Kind
<1> QED BY <1>2, <1>3, <1>4 DEF Truthful

LEMMA AnnouncedRow ==
  ASSUME PublishContract, TypeInv, TypeInv', Truthful, NEW w \in Workers, NEW p \in Partitions,
         pc[w][p] \in Working, Alone(w, p), NEW stored \in BOOLEAN, Row(w, p, stored)
  PROVE  Announced(w, p)'
<1> DEFINE j == job[w][p]
           k == job'[w][p]
           l == pc[w][p]
           m == pc'[w][p]
           r == Current(w, p)
<1>1. j.attempt \in Nat /\ k.attempt \in Nat /\ MaxRetry \in Nat /\ MaxRetry >= 1
  <2>1. j \in Jobs /\ k \in Jobs
    BY DEF TypeInv, TypeOK
  <2> HIDE DEF j, k
  <2> QED BY <2>1, WorkersAssumption DEF Jobs
<1>2. r' = r
  BY DEF Alone, Current
<1>3. /\ l \in SlotHolders => j.attempt <= MaxRetry
      /\ l = "backoff" => j.attempt < MaxRetry
  BY DEF Truthful, Announced
<1>4. m \in SlotHolders => k.attempt <= MaxRetry /\ (m = "backoff" => k.attempt < MaxRetry)
  <2> HIDE DEF j, k, l, m
  <2> QED BY <1>1, <1>3 DEF Row, FailedTo, SlotHolders, j, k, l, m
<1>5. k.delivery = j.delivery
  BY DEF Alone
<1>6. ASSUME NEW type \in {"completed", "failed"}, NEW count \in Nat,
             Writes(w, p, type, count, stored), stored, k.attempt = j.attempt
      PROVE  \E i \in DOMAIN events'[r] : events'[r][i].type = type /\ SameAttempt(events'[r][i], k)
  <2> DEFINE f == EventOf(w, p, type, count)
  <2>1. f \in Events
    BY EventOfIsEvent
  <2>2. Adds(w, p, f)
    BY <1>6 DEF Writes, Adds
  <2>3. f.type = type /\ f.attempt = j.attempt /\ f.delivery = j.delivery
    BY DEF EventOf
  <2>4. \E i \in DOMAIN events'[r] : events'[r][i] = f
    <3> HIDE DEF f
    <3>1. LET n == Len(events[r]) IN
          n \in Nat /\ DOMAIN events'[r] = 1 .. n + 1 /\ events'[r][n + 1] = f
      BY <2>1, <2>2, AddsTo
    <3> QED BY <3>1
  <2> QED BY <1>5, <1>6, <2>3, <2>4 DEF SameAttempt
<1>7. CASE m = "aggregating"
  <2>1. Writes(w, p, "completed", j.chunks, stored) /\ stored /\ k.attempt = j.attempt
    BY <1>7 DEF Row, FailedTo
  <2>2. j.chunks \in Nat
    BY DEF TypeInv, TypeOK, Jobs
  <2> QED BY <1>2, <1>4, <1>6, <1>7, <2>1, <2>2 DEF Announced
<1>8. CASE m = "recording"
  <2>1. Writes(w, p, "failed", 0, stored) /\ stored /\ k.attempt = j.attempt
    BY <1>8 DEF Row, FailedTo
  <2> QED BY <1>2, <1>4, <1>6, <1>8, <2>1 DEF Announced
<1>9. CASE m = "deadletter"
  <2>1. /\ l = "recording" /\ Records(w, p, "failed", stored) /\ stored /\ k = j
        /\ j.attempt >= MaxRetry
    BY <1>9 DEF Row, FailedTo
  <2>2. k.attempt = MaxRetry
    BY <1>1, <1>3, <2>1 DEF SlotHolders
  <2>3. ResultOf(w, p, "failed")' = ResultOf(w, p, "failed")
    BY <1>2, <2>1 DEF ResultOf
  <2>4. ResultOf(w, p, "failed") \in results'
    BY <2>1 DEF Records
  <2> QED BY <1>4, <1>9, <2>2, <2>3, <2>4 DEF Announced
<1>10. CASE m \notin {"aggregating", "recording", "deadletter"}
  BY <1>4, <1>10 DEF Announced, SlotHolders
<1> QED BY <1>7, <1>8, <1>9, <1>10

\* What a step writes to the result topics.
LEMMA RowResult ==
  ASSUME TypeInv, NEW w \in Workers, NEW p \in Partitions, NEW stored \in BOOLEAN,
         Row(w, p, stored), NEW x \in results', x \notin results
  PROVE  /\ events' = events
         /\ \/ pc[w][p] = "aggregating" /\ x = ResultOf(w, p, "completed")
            \/ pc[w][p] = "recording" /\ x = ResultOf(w, p, "failed")
            \/ pc[w][p] \in {"deadletter", "quarantine"} /\ x = ResultOf(w, p, "dlq")
BY DEF Row, Silent, Writes, Records

LEMMA TruthfulRow ==
  ASSUME PublishContract, TypeInv, TypeInv', Truthful, NEW w \in Workers, NEW p \in Partitions,
         pc[w][p] \in Working, Alone(w, p), NEW stored \in BOOLEAN, Row(w, p, stored)
  PROVE  Truthful'
<1> DEFINE r == Current(w, p)
<1>1. Grows
  BY RowGrows
<1>2. ASSUME NEW v \in Workers, NEW q \in Partitions PROVE Announced(v, q)'
  <2>1. CASE <<v, q>> = <<w, p>>
    <3>1. v = w /\ q = p
      BY <2>1
    <3> QED BY <3>1, AnnouncedRow
  <2>2. CASE <<v, q>> # <<w, p>>
    BY <1>1, <2>2, AnnouncedStays DEF Truthful, Alone
  <2> QED BY <2>1, <2>2
<1>3. \A x \in results : x.request \in Requests
  BY DEF TypeInv, TypeOK, Results
<1>4. \A topic : LET x == ResultOf(w, p, topic) IN
        x.request = r /\ x.topic = topic /\ SameAttempt(x, job[w][p])
  BY DEF ResultOf, SameAttempt
<1>5. ASSUME NEW x \in results', x.topic # "dlq"
      PROVE  \E i \in DOMAIN events'[x.request] :
               events'[x.request][i].type = x.topic /\ SameAttempt(events'[x.request][i], x)
  <2>1. CASE x \in results
    <3>1. PICK i \in DOMAIN events[x.request] :
            events[x.request][i].type = x.topic /\ SameAttempt(events[x.request][i], x)
      BY <1>5, <2>1 DEF Truthful, ResultsFollowEvents
    <3>2. i \in DOMAIN events'[x.request] /\ events'[x.request][i] = events[x.request][i]
      BY <1>1, <1>3, <2>1 DEF Grows
    <3> QED BY <3>1, <3>2
  <2>2. CASE x \notin results
    <3>1. /\ events' = events
          /\ \/ pc[w][p] = "aggregating" /\ x = ResultOf(w, p, "completed")
             \/ pc[w][p] = "recording" /\ x = ResultOf(w, p, "failed")
      BY <1>4, <1>5, <2>2, RowResult
    <3>2. \E i \in DOMAIN events[r] :
            /\ events[r][i].type = IF pc[w][p] = "aggregating" THEN "completed" ELSE "failed"
            /\ SameAttempt(events[r][i], job[w][p])
      BY <3>1 DEF Truthful, Announced
    <3>3. x.request = r /\ SameAttempt(x, job[w][p])
          /\ x.topic = IF pc[w][p] = "aggregating" THEN "completed" ELSE "failed"
      BY <1>4, <3>1
    <3> QED BY <3>1, <3>2, <3>3 DEF SameAttempt
  <2> QED BY <2>1, <2>2
<1>6. ASSUME NEW x \in results', x.topic = "dlq", Kind(x.request[1], x.request[2]) # "poison"
      PROVE  x.attempt = MaxRetry /\ [x EXCEPT !.topic = "failed"] \in results'
  <2>1. CASE x \in results
    BY <1>1, <1>6, <2>1 DEF Truthful, DeadLetterIsExhausted, Grows
  <2>2. CASE x \notin results
    <3>1. pc[w][p] \in {"deadletter", "quarantine"} /\ x = ResultOf(w, p, "dlq")
      BY <1>4, <1>6, <2>2, RowResult
    <3>2. pc[w][p] # "quarantine"
      <4>1. Kind(p, pos[w][p]) = Kind(x.request[1], x.request[2])
        BY <3>1 DEF ResultOf, Current
      <4> QED BY <1>6, <4>1 DEF TypeInv, AtRecord, Fits
    <3>3. job[w][p].attempt = MaxRetry /\ ResultOf(w, p, "failed") \in results
      BY <3>1, <3>2 DEF Truthful, Announced
    <3>4. x.attempt = job[w][p].attempt /\ [x EXCEPT !.topic = "failed"] = ResultOf(w, p, "failed")
      BY <3>1 DEF ResultOf
    <3> QED BY <1>1, <3>3, <3>4 DEF Grows
  <2> QED BY <2>1, <2>2
<1>7. ResultsFollowEvents'
  BY <1>5 DEF ResultsFollowEvents, SameAttempt
<1>8. DeadLetterIsExhausted'
  BY <1>6 DEF DeadLetterIsExhausted, Kind
<1> QED BY <1>2, <1>7, <1>8 DEF Truthful

LEMMA TruthfulStep ==
  ASSUME PublishContract, TypeInv, TypeInv', Truthful, [Next]_vars
  PROVE  Truthful'
<1>0. SlotHolders \subseteq Working
  BY DEF Working
<1>1. CASE \/ Assign
           \/ \E q \in Partitions : Arrive(q)
           \/ \E w \in Workers : \/ Revoke(w) \/ Cancel(w) \/ AutoCommit(w)
                                 \/ EndSession(w) \/ Evict(w) \/ Crash(w)
  BY <1>0, <1>1, GroupIdles, TruthfulKept
<1>2. ASSUME NEW w \in Workers, NEW p \in Partitions, ClaimStep(w, p) \/ AcquireSlot(w, p)
      PROVE  Truthful'
  <2>1. CASE Fetch(w, p)
    BY <2>1, FetchMoves, TruthfulKept DEF SlotHolders
  <2>2. CASE ~Fetch(w, p) /\ (pc[w][p] \notin Working \/ Mark(w, p))
    BY <1>0, <1>2, <2>2, ClaimIdles, TruthfulKept
  <2>3. CASE pc[w][p] \in Working /\ ~Mark(w, p)
    <3>1. PICK stored \in BOOLEAN : Alone(w, p) /\ Row(w, p, stored)
      BY <1>2, <2>3, ClaimRow
    <3> QED BY <2>3, <3>1, TruthfulRow
  <2> QED BY <2>1, <2>2, <2>3
<1>3. CASE UNCHANGED vars
  BY <1>3, TruthfulKept DEF vars
<1> QED BY <1>1, <1>2, <1>3 DEF Next, Quiet

LEMMA TruthfulInit == Init => Truthful
<1> SUFFICES ASSUME Init PROVE Truthful
  OBVIOUS
<1>1. results = {} /\ \A w \in Workers, p \in Partitions : pc[w][p] \notin SlotHolders
  BY DEF Init, SlotHolders
<1>2. \A w \in Workers, p \in Partitions : Announced(w, p)
  BY <1>1, NothingAnnounced
<1> QED BY <1>1, <1>2 DEF Truthful, ResultsFollowEvents, DeadLetterIsExhausted

LEMMA TruthfulCorrect == ASSUME PublishContract PROVE Spec => []Truthful
<1>1. TypeInv /\ TypeInv' /\ Truthful /\ [Next]_vars => Truthful'
  BY TruthfulStep
<1> QED BY <1>1, TruthfulInit, TypeCorrect, PTL DEF Spec

\* llm.completed and llm.failed never run ahead of llm.events, however many
\* workers handle the record and whenever they fail: with a producer that keeps
\* its promise, a result has the terminal event of its attempt behind it
\* (publishCompletion, publishFailed).
THEOREM ResultsAreAnnounced ==
  ASSUME PublishContract PROVE Spec => []ResultsFollowEvents
<1>1. Truthful => ResultsFollowEvents
  BY DEF Truthful
<1> QED BY <1>1, TruthfulCorrect, PTL

\* A well-formed request is in llm.dlq only when MaxRetry attempts have failed
\* and llm.failed says so (publishFailed, handleInvalidRequest).
THEOREM DeadLettersAreExhausted ==
  ASSUME PublishContract PROVE Spec => []DeadLetterIsExhausted
<1>1. Truthful => DeadLetterIsExhausted
  BY DEF Truthful
<1> QED BY <1>1, TruthfulCorrect, PTL

-----------------------------------------------------------------------------
(* The order of a delivery's events, which the gateway builds on. *)

\* Where a claim may still publish an event, and the types the last content
\* event of its delivery may have there.
Generating == {"begin", "stream", "completing", "aggregating", "backoff", "failing"}

LastTypes(l) ==
  CASE l \in {"begin", "backoff", "failing"} -> {"none", "started", "raw_sse", "completed"}
    [] l \in {"stream", "completing"}        -> {"started", "raw_sse"}
    [] l = "aggregating"                     -> {"completed"}

\* The last of these events of r has one of the types, or there is none.
Ends(r, content, types) ==
  \/ content = {} /\ "none" \in types
  \/ \E i \in content : (\A k \in content : k <= i) /\ events[r][i].type \in types

Latest ==
  \A w \in Workers, p \in Partitions : pc[w][p] \in Generating =>
    Ends(Current(w, p), Content(Current(w, p), job[w][p].delivery), LastTypes(pc[w][p]))

Chained == Latest /\ EventsFollow


\* A step that leaves the log alone and takes no claim on.
LEMMA ChainedKept ==
  ASSUME Chained, events' = events,
         \A v \in Workers, q \in Partitions : pc'[v][q] \in Generating =>
           pc'[v][q] = pc[v][q] /\ job'[v][q] = job[v][q] /\ pos'[v][q] = pos[v][q]
  PROVE  Chained'
<1>1. \A x, d : Content(x, d)' = Content(x, d)
  BY DEF Content
<1>2. ASSUME NEW v \in Workers, NEW q \in Partitions, pc'[v][q] \in Generating
      PROVE  Ends(Current(v, q), Content(Current(v, q), job[v][q].delivery), LastTypes(pc[v][q]))'
  <2>1. Current(v, q)' = Current(v, q)
    BY <1>2 DEF Current
  <2>2. pc'[v][q] = pc[v][q] /\ job'[v][q] = job[v][q]
    BY <1>2
  <2>3. Ends(Current(v, q), Content(Current(v, q), job[v][q].delivery), LastTypes(pc[v][q]))
    BY <1>2, <2>2 DEF Chained, Latest
  <2>4. Content(Current(v, q), job[v][q].delivery)' = Content(Current(v, q), job[v][q].delivery)
    BY <2>1, <2>2 DEF Content
  <2>5. LastTypes(pc[v][q])' = LastTypes(pc[v][q])
    BY <2>2 DEF LastTypes
  <2> QED BY <2>1, <2>3, <2>4, <2>5 DEF Ends
<1>3. EventsFollow'
  BY DEF Chained, EventsFollow, Content, MayFollow
<1> QED BY <1>2, <1>3 DEF Chained, Latest

\* What the table says of the order: a claim that goes on in silence is as
\* free as before, and one that publishes goes on from the event it published,
\* which may follow all that its place allows to be the last.
LEMMA RowFollows ==
  ASSUME PublishContract, TypeInv, NEW w \in Workers, NEW p \in Partitions, Alone(w, p),
         NEW stored \in BOOLEAN, Row(w, p, stored)
  PROVE  LET l == pc[w][p]  m == pc'[w][p]
             Freer == m \in Generating =>
                        \/ l = "slot" /\ m = "begin"
                        \/ l \in Generating /\ LastTypes(l) \subseteq LastTypes(m)
         IN \/ events' = events /\ Freer
            \/ \E f \in Events :
                 /\ Adds(w, p, f) /\ f.delivery = job[w][p].delivery
                 /\ f.type = "heartbeat" /\ Freer
            \/ \E f \in Events :
                 /\ Adds(w, p, f) /\ f.delivery = job[w][p].delivery
                 /\ f.type # "heartbeat" /\ l \in Generating
                 /\ \A t \in LastTypes(l) : f.type \in Gateway!Follows(t)
                 /\ m \in Generating => f.type \in LastTypes(m)
<1> DEFINE j == job[w][p]
           l == pc[w][p]
           m == pc'[w][p]
           Freer == m \in Generating =>
                      \/ l = "slot" /\ m = "begin"
                      \/ l \in Generating /\ LastTypes(l) \subseteq LastTypes(m)
           Goes(f) == /\ l \in Generating
                      /\ \A t \in LastTypes(l) : f.type \in Gateway!Follows(t)
                      /\ m \in Generating => f.type \in LastTypes(m)
           Stands == \/ l \in {"slot", "backoff"} /\ m = "begin"
                     \/ m = "ended"
                     \/ l = "begin" /\ FailedTo(j, m)
                     \/ l = "stream" /\ (m = "completing" \/ FailedTo(j, m))
<1>1. ASSUME NEW type \in {"started", "raw_sse", "heartbeat", "completed", "failed"},
             NEW count \in Nat, Writes(w, p, type, count, stored), stored
      PROVE  \E f \in Events : Adds(w, p, f) /\ f.delivery = j.delivery /\ f.type = type
  <2> DEFINE f == EventOf(w, p, type, count)
  <2>1. f \in Events
    BY EventOfIsEvent
  <2>2. f.delivery = j.delivery /\ f.type = type
    BY DEF EventOf
  <2>3. Adds(w, p, f)
    BY <1>1 DEF Writes, Adds
  <2> HIDE DEF f
  <2> QED BY <2>1, <2>2, <2>3
<1>2. j.chunks \in Nat
  BY DEF TypeInv, TypeOK, Jobs
<1>3. ASSUME \/ ~stored
             \/ Silent /\ Stands
             \/ l \in {"aggregating", "recording", "deadletter", "quarantine"}
      PROVE  events' = events /\ Freer
  <2>1. events' = events
    BY <1>3 DEF Row, Silent, Writes, Records
  <2> HIDE DEF j, l, m
  <2>2. /\ m = "begin" => l \in {"slot", "backoff"}
        /\ m \in {"stream", "completing"} => l = "stream"
        /\ m # "aggregating"
        /\ m \in {"backoff", "failing"} => l \in {"begin", "stream", "completing", "aggregating"}
    BY <1>3 DEF Row, FailedTo, j, l, m
  <2>3. Freer
    BY <2>2 DEF Generating, LastTypes
  <2> QED BY <2>1, <2>3
<1>4. ASSUME stored, l = "stream", m = "stream" \/ FailedTo(j, m), Writes(w, p, "heartbeat", 0, stored)
      PROVE  \E f \in Events : /\ Adds(w, p, f) /\ f.delivery = j.delivery
                               /\ f.type = "heartbeat" /\ Freer
  <2>1. PICK f \in Events : Adds(w, p, f) /\ f.delivery = j.delivery /\ f.type = "heartbeat"
    BY <1>1, <1>4
  <2> HIDE DEF j, l, m
  <2>2. Freer
    BY <1>4 DEF FailedTo, Generating, LastTypes
  <2> QED BY <2>1, <2>2
<1>5. ASSUME stored,
             \/ l = "begin" /\ (m = "stream" \/ FailedTo(j, m)) /\ Writes(w, p, "started", 0, stored)
             \/ l = "stream" /\ (m = "stream" \/ FailedTo(j, m)) /\ Writes(w, p, "raw_sse", 0, stored)
             \/ /\ l = "completing" /\ (m = "aggregating" \/ FailedTo(j, m))
                /\ Writes(w, p, "completed", j.chunks, stored)
             \/ l = "failing" /\ m \in {"recording", "ended"} /\ Writes(w, p, "failed", 0, stored)
      PROVE  \E f \in Events : /\ Adds(w, p, f) /\ f.delivery = j.delivery
                               /\ f.type # "heartbeat" /\ Goes(f)
  <2>1. PICK type \in {"started", "raw_sse", "completed", "failed"}, count \in Nat :
          /\ Writes(w, p, type, count, stored)
          /\ \/ l = "begin" /\ (m = "stream" \/ FailedTo(j, m)) /\ type = "started"
             \/ l = "stream" /\ (m = "stream" \/ FailedTo(j, m)) /\ type = "raw_sse"
             \/ l = "completing" /\ (m = "aggregating" \/ FailedTo(j, m)) /\ type = "completed"
             \/ l = "failing" /\ m \in {"recording", "ended"} /\ type = "failed"
    <3> HIDE DEF j, l, m
    <3> QED BY <1>2, <1>5, Zenon
  <2>2. PICK f \in Events : Adds(w, p, f) /\ f.delivery = j.delivery /\ f.type = type
    BY <1>1, <1>5, <2>1
  <2> HIDE DEF j, l, m
  <2>3. l \in Generating
    BY <2>1 DEF Generating
  <2>4. ASSUME NEW t \in LastTypes(l) PROVE type \in Gateway!Follows(t)
    BY <2>1, <2>4 DEF LastTypes, Gateway!Follows
  <2>5. m \in Generating => type \in LastTypes(m)
    BY <2>1 DEF FailedTo, Generating, LastTypes
  <2> QED BY <2>1, <2>2, <2>3, <2>4, <2>5
<1> QED
  <2> HIDE DEF j, l, m
  <2>1. \/ ~stored
        \/ Silent /\ Stands
        \/ l \in {"aggregating", "recording", "deadletter", "quarantine"}
        \/ stored /\ l = "stream" /\ (m = "stream" \/ FailedTo(j, m))
           /\ Writes(w, p, "heartbeat", 0, stored)
        \/ /\ stored
           /\ \/ l = "begin" /\ (m = "stream" \/ FailedTo(j, m)) /\ Writes(w, p, "started", 0, stored)
              \/ l = "stream" /\ (m = "stream" \/ FailedTo(j, m)) /\ Writes(w, p, "raw_sse", 0, stored)
              \/ /\ l = "completing" /\ (m = "aggregating" \/ FailedTo(j, m))
                 /\ Writes(w, p, "completed", j.chunks, stored)
              \/ l = "failing" /\ m \in {"recording", "ended"} /\ Writes(w, p, "failed", 0, stored)
    BY Zenon DEF Row, j, l, m
  <2>2. CASE ~stored \/ (Silent /\ Stands) \/ l \in {"aggregating", "recording", "deadletter", "quarantine"}
    BY <1>3, <2>2 DEF j, l, m
  <2>3. CASE stored /\ l = "stream" /\ (m = "stream" \/ FailedTo(j, m))
             /\ Writes(w, p, "heartbeat", 0, stored)
    BY <1>4, <2>3 DEF j, l, m
  <2>4. CASE /\ stored
             /\ \/ l = "begin" /\ (m = "stream" \/ FailedTo(j, m)) /\ Writes(w, p, "started", 0, stored)
                \/ l = "stream" /\ (m = "stream" \/ FailedTo(j, m)) /\ Writes(w, p, "raw_sse", 0, stored)
                \/ /\ l = "completing" /\ (m = "aggregating" \/ FailedTo(j, m))
                   /\ Writes(w, p, "completed", j.chunks, stored)
                \/ l = "failing" /\ m \in {"recording", "ended"} /\ Writes(w, p, "failed", 0, stored)
    BY <1>5, <2>4 DEF j, l, m
  <2> QED BY <2>1, <2>2, <2>3, <2>4

\* A stored event joins the content of its own delivery, unless it is a
\* heartbeat.
LEMMA ContentAdded ==
  ASSUME TypeInv, NEW w \in Workers, NEW p \in Partitions, pc[w][p] \in Working,
         NEW f \in Events, Adds(w, p, f), NEW x \in Requests, NEW d
  PROVE  Content(x, d)' =
           Content(x, d) \cup
           (IF x = Current(w, p) /\ d = f.delivery /\ f.type # "heartbeat"
            THEN {Len(events[x]) + 1} ELSE {})
<1> DEFINE r == Current(w, p)
           n == Len(events[r])
<1>1. /\ \A y \in Requests : y # r => events'[y] = events[y]
      /\ \A y \in Requests : \A i \in DOMAIN events[y] :
           i \in DOMAIN events'[y] /\ events'[y][i] = events[y][i]
      /\ n \in Nat /\ DOMAIN events[r] = 1 .. n /\ DOMAIN events'[r] = 1 .. n + 1
      /\ events'[r][n + 1] = f
  BY AddsTo
<1> HIDE DEF r
<1>2. CASE x # r
  <2>1. events'[x] = events[x]
    BY <1>1, <1>2
  <2> QED BY <1>2, <2>1 DEF Content, r
<1>3. CASE x = r
  <2>1. DOMAIN events'[x] = DOMAIN events[x] \cup {n + 1}
    BY <1>1, <1>3
  <2>2. n + 1 \notin DOMAIN events[x]
    BY <1>1, <1>3
  <2>3. \A i \in DOMAIN events[x] : events'[x][i] = events[x][i]
    BY <1>1
  <2>4. events'[x][n + 1] = f /\ n = Len(events[x])
    BY <1>1, <1>3
  <2> HIDE DEF n
  <2> QED BY <1>3, <2>1, <2>2, <2>3, <2>4 DEF Content, r
<1> QED BY <1>2, <1>3

\* Every delivery but that of a stored content event has the content it had.
LEMMA ContentElsewhere ==
  ASSUME TypeInv, NEW w \in Workers, NEW p \in Partitions, pc[w][p] \in Working,
         NEW f \in Events, Adds(w, p, f), NEW x \in Requests, NEW d,
         f.type = "heartbeat" \/ x # Current(w, p) \/ d # f.delivery,
         NEW types, Ends(x, Content(x, d), types)
  PROVE  Ends(x, Content(x, d), types)'
<1>1. Content(x, d)' = Content(x, d)
  <2>1. Content(x, d)' =
          Content(x, d) \cup
          (IF x = Current(w, p) /\ d = f.delivery /\ f.type # "heartbeat"
           THEN {Len(events[x]) + 1} ELSE {})
    BY ContentAdded
  <2>2. ~(x = Current(w, p) /\ d = f.delivery /\ f.type # "heartbeat")
    OBVIOUS
  <2> HIDE DEF Content
  <2> QED BY <2>1, <2>2, Zenon
<1>2. \A i \in Content(x, d) : events'[x][i] = events[x][i]
  BY AddsTo DEF Content
<1> HIDE DEF Content
<1> QED BY <1>1, <1>2 DEF Ends

\* The content of a delivery that has just published f ends with f.
LEMMA ContentExtended ==
  ASSUME TypeInv, NEW w \in Workers, NEW p \in Partitions, pc[w][p] \in Working,
         NEW f \in Events, Adds(w, p, f), f.type # "heartbeat", NEW types, f.type \in types,
         NEW r, r = Current(w, p)
  PROVE  Ends(r, Content(r, f.delivery), types)'
<1> DEFINE n == Len(events[r])
           old == Content(r, f.delivery)
<1>1. /\ r \in Requests /\ n \in Nat /\ DOMAIN events[r] = 1 .. n
      /\ events'[r][n + 1] = f
  BY AddsTo
<1>2. Content(r, f.delivery)' = old \cup {n + 1}
  BY <1>1, ContentAdded
<1>3. old \subseteq 1 .. n
  BY <1>1 DEF Content
<1> QED BY <1>1, <1>2, <1>3 DEF Ends

\* The events a step finds stay in order, and the one it stores follows them.
LEMMA EventsFollowRow ==
  ASSUME TypeInv, EventsFollow, NEW w \in Workers, NEW p \in Partitions, pc[w][p] \in Working,
         NEW f \in Events, Adds(w, p, f), NEW r, r = Current(w, p),
         f.type # "heartbeat" => MayFollow(r, Content(r, f.delivery), f.type)
  PROVE  EventsFollow'
<1> DEFINE n == Len(events[r])
<1>1. /\ r \in Requests /\ n \in Nat /\ DOMAIN events[r] = 1 .. n
      /\ DOMAIN events'[r] = 1 .. n + 1 /\ events'[r][n + 1] = f
      /\ \A x \in Requests : x # r => events'[x] = events[x]
      /\ \A x \in Requests : \A i \in DOMAIN events[x] : events'[x][i] = events[x][i]
  BY AddsTo
<1>2. \A x, d : Content(x, d) \subseteq DOMAIN events[x]
  BY DEF Content
<1>3. ASSUME NEW x \in Requests, NEW content, content \subseteq DOMAIN events[x],
             NEW type, MayFollow(x, content, type)
      PROVE  MayFollow(x, content, type)'
  BY <1>1, <1>3 DEF MayFollow
<1>4. \A x \in Requests : \A d : Content(x, d)' = Content(x, d) \cup
                     (IF x = r /\ d = f.delivery /\ f.type # "heartbeat" THEN {n + 1} ELSE {})
  BY ContentAdded
<1> HIDE DEF n
<1>5. ASSUME NEW x \in Requests, NEW y \in DOMAIN events'[x], NEW d, NEW type,
             d = events'[x][y].delivery, type = events'[x][y].type, type # "heartbeat"
      PROVE  MayFollow(x, {i \in Content(x, d) : i < y}, type)'
  <2> DEFINE before == {i \in Content(x, d) : i < y}
  <2>1. before \subseteq DOMAIN events[x]
    BY <1>2
  <2>2. y \notin DOMAIN events[x] => x = r /\ y = n + 1
    BY <1>1
  <2>3. before' = before
    <3>1. x = r => ~(n + 1 < y)
      BY <1>1
    <3> QED BY <1>4, <3>1
  <2>4. CASE y \in DOMAIN events[x]
    <3>1. d = events[x][y].delivery /\ type = events[x][y].type
      BY <1>1, <1>5, <2>4
    <3>2. MayFollow(x, before, type)
      BY <1>5, <2>4, <3>1 DEF EventsFollow
    <3> HIDE DEF before
    <3>3. MayFollow(x, before, type)' 
      BY <1>3, <2>1, <2>3, <3>2
    <3> QED BY <3>3 DEF before
  <2>5. CASE y \notin DOMAIN events[x]
    <3>1. d = f.delivery /\ type = f.type
      BY <1>1, <1>5, <2>2, <2>5
    <3>2. before = Content(r, f.delivery)
      <4>1. \A i \in Content(r, f.delivery) : i < n + 1
        BY <1>1, <1>2
      <4> QED BY <2>2, <2>5, <3>1, <4>1
    <3>3. MayFollow(x, before, type)
      BY <1>5, <2>2, <2>5, <3>1, <3>2
    <3> HIDE DEF before
    <3>4. MayFollow(x, before, type)'
      BY <1>3, <2>1, <2>3, <3>3
    <3> QED BY <3>4 DEF before
  <2> QED BY <2>4, <2>5
<1> QED
  <2> SUFFICES ASSUME NEW x \in Requests, NEW y \in DOMAIN events'[x],
                      events'[x][y].type # "heartbeat"
               PROVE  MayFollow(x, {i \in Content(x, events[x][y].delivery) : i < y},
                                events[x][y].type)'
    BY DEF EventsFollow
  <2> QED BY <1>5

LEMMA ChainedRow ==
  ASSUME PublishContract, TypeInv, TypeInv', History, Chained, NEW w \in Workers,
         NEW p \in Partitions, pc[w][p] \in Working, Alone(w, p), NEW stored \in BOOLEAN,
         Row(w, p, stored)
  PROVE  Chained'
<1> DEFINE l == pc[w][p]
           m == pc'[w][p]
           Freer == m \in Generating =>
                      \/ l = "slot" /\ m = "begin"
                      \/ l \in Generating /\ LastTypes(l) \subseteq LastTypes(m)
<1>0. Generating \subseteq Working
  BY DEF Generating, Working, SlotHolders
<1>1. PICK r, d, allowed : /\ r = Current(w, p) /\ d = job[w][p].delivery
                           /\ allowed = LastTypes(m)
  OBVIOUS
<1>2. r \in Requests /\ Current(w, p)' = r /\ job'[w][p].delivery = d
  BY <1>1, CurrentIsRequest DEF Alone, Current
<1>3. l \in Generating => Ends(r, Content(r, d), LastTypes(l))
  BY <1>1 DEF Chained, Latest
<1>4. l = "slot" => Content(r, d) = {}
  BY <1>1 DEF History, OwnEvents, Own, Content
<1>5. \A content, s, t : s \subseteq t /\ Ends(r, content, s) => Ends(r, content, t)
  BY DEF Ends
<1>6. Freer /\ m \in Generating => Ends(r, Content(r, d), allowed)
  <2>1. l = "slot" /\ m = "begin" => Ends(r, Content(r, d), allowed)
    BY <1>1, <1>4 DEF Ends, LastTypes
  <2> QED BY <1>1, <1>3, <1>5, <2>1
<1>7. ASSUME NEW v \in Workers, NEW q \in Partitions, <<v, q>> # <<w, p>>
      PROVE  /\ pc'[v][q] = pc[v][q] /\ job'[v][q] = job[v][q]
             /\ Current(v, q)' = Current(v, q)
  BY <1>7 DEF Alone, Current
\* The other claims, which work on other deliveries.
<1>8. ASSUME NEW v \in Workers, NEW q \in Partitions, <<v, q>> # <<w, p>>,
             pc[v][q] \in Generating, NEW x, NEW e, x = Current(v, q), e = job[v][q].delivery
      PROVE  /\ x \in Requests
             /\ x # r \/ e # d
             /\ Ends(x, Content(x, e), LastTypes(pc[v][q]))
  BY <1>0, <1>1, <1>8, CurrentIsRequest, OtherDelivery DEF Chained, Latest, History
\* It is enough that the content of each claim's delivery still ends as it may.
<1>9. ASSUME EventsFollow',
             m \in Generating => Ends(r, Content(r, d), allowed)',
             \A x \in Requests : \A e, types :
               (x # r \/ e # d) /\ Ends(x, Content(x, e), types) => Ends(x, Content(x, e), types)'
      PROVE  Chained'
  <2>1. ASSUME NEW v \in Workers, NEW q \in Partitions, pc'[v][q] \in Generating,
               <<v, q>> # <<w, p>>
        PROVE  Ends(Current(v, q), Content(Current(v, q), job[v][q].delivery),
                    LastTypes(pc[v][q]))'
    <3>1. PICK x, e, types : /\ x = Current(v, q) /\ e = job[v][q].delivery
                             /\ types = LastTypes(pc[v][q])
      OBVIOUS
    <3>2. /\ Current(v, q)' = x /\ job'[v][q].delivery = e
          /\ LastTypes(pc[v][q])' = types /\ pc[v][q] \in Generating
      BY <1>7, <2>1, <3>1
    <3>3. Ends(x, Content(x, e), types)'
      BY <1>8, <1>9, <2>1, <3>1, <3>2
    <3> QED BY <3>2, <3>3
  <2>2. m \in Generating =>
          Ends(Current(w, p), Content(Current(w, p), job[w][p].delivery), LastTypes(pc[w][p]))'
    <3>1. LastTypes(pc[w][p])' = allowed
      BY <1>1
    <3> QED BY <1>2, <1>9, <3>1
  <2> QED BY <1>9, <2>1, <2>2 DEF Chained, Latest
<1>10. CASE events' = events /\ Freer
  <2>1. \A x, e : Content(x, e)' = Content(x, e)
    BY <1>10 DEF Content
  <2>2. \A x, e, types : Ends(x, Content(x, e), types) => Ends(x, Content(x, e), types)'
    BY <1>10, <2>1 DEF Ends
  <2>3. EventsFollow'
    BY <1>10 DEF Chained, EventsFollow, Content, MayFollow
  <2>4. m \in Generating => Ends(r, Content(r, d), allowed)'
    BY <1>6, <1>10, <2>2
  <2> QED BY <1>9, <2>2, <2>3, <2>4
<1>11. ASSUME NEW f \in Events, Adds(w, p, f), f.delivery = d, f.type = "heartbeat", Freer
       PROVE  Chained'
  <2>1. \A x \in Requests : \A e, types :
          Ends(x, Content(x, e), types) => Ends(x, Content(x, e), types)'
    BY <1>11, ContentElsewhere
  <2>2. EventsFollow'
    BY <1>1, <1>11, EventsFollowRow DEF Chained
  <2>3. m \in Generating => Ends(r, Content(r, d), allowed)'
    BY <1>2, <1>6, <1>11, <2>1
  <2> QED BY <1>9, <2>1, <2>2, <2>3
<1>12. ASSUME NEW f \in Events, Adds(w, p, f), f.delivery = d, f.type # "heartbeat",
              l \in Generating, \A t \in LastTypes(l) : f.type \in Gateway!Follows(t),
              m \in Generating => f.type \in LastTypes(m)
       PROVE  Chained'
  <2>1. \A x \in Requests : \A e, types :
          (x # r \/ e # d) /\ Ends(x, Content(x, e), types) => Ends(x, Content(x, e), types)'
    BY <1>1, <1>12, ContentElsewhere
  <2>2. MayFollow(r, Content(r, d), f.type)
    BY <1>3, <1>12 DEF Ends, MayFollow
  <2>3. EventsFollow'
    BY <1>1, <1>12, <2>2, EventsFollowRow DEF Chained
  <2>4. m \in Generating => Ends(r, Content(r, d), allowed)'
    BY <1>1, <1>12, ContentExtended
  <2> QED BY <1>9, <2>1, <2>3, <2>4
<1> QED
  <2>1. \/ events' = events /\ Freer
        \/ \E f \in Events :
             Adds(w, p, f) /\ f.delivery = d /\ f.type = "heartbeat" /\ Freer
        \/ \E f \in Events :
             /\ Adds(w, p, f) /\ f.delivery = d /\ f.type # "heartbeat"
             /\ l \in Generating /\ \A t \in LastTypes(l) : f.type \in Gateway!Follows(t)
             /\ m \in Generating => f.type \in LastTypes(m)
    BY <1>1, RowFollows
  <2> HIDE DEF Freer
  <2> QED BY <1>10, <1>11, <1>12, <2>1

LEMMA ChainedStep ==
  ASSUME PublishContract, TypeInv, TypeInv', History, Chained, [Next]_vars
  PROVE  Chained'
<1>0. Generating \subseteq Working
  BY DEF Generating, Working, SlotHolders
<1>1. CASE \/ Assign
           \/ \E q \in Partitions : Arrive(q)
           \/ \E w \in Workers : \/ Revoke(w) \/ Cancel(w) \/ AutoCommit(w)
                                 \/ EndSession(w) \/ Evict(w) \/ Crash(w)
  BY <1>0, <1>1, GroupIdles, ChainedKept
<1>2. ASSUME NEW w \in Workers, NEW p \in Partitions, ClaimStep(w, p) \/ AcquireSlot(w, p)
      PROVE  Chained'
  <2>1. CASE Fetch(w, p)
    BY <2>1, FetchMoves, ChainedKept DEF Generating
  <2>2. CASE ~Fetch(w, p) /\ (pc[w][p] \notin Working \/ Mark(w, p))
    BY <1>0, <1>2, <2>2, ClaimIdles, ChainedKept
  <2>3. CASE pc[w][p] \in Working /\ ~Mark(w, p)
    <3>1. PICK stored \in BOOLEAN : Alone(w, p) /\ Row(w, p, stored)
      BY <1>2, <2>3, ClaimRow
    <3> QED BY <2>3, <3>1, ChainedRow
  <2> QED BY <2>1, <2>2, <2>3
<1>3. CASE UNCHANGED vars
  BY <1>3, ChainedKept DEF vars
<1> QED BY <1>1, <1>2, <1>3 DEF Next, Quiet

LEMMA ChainedInit == Init => Chained
<1> SUFFICES ASSUME Init PROVE Chained
  OBVIOUS
<1>1. \A r \in Requests : DOMAIN events[r] = {}
  BY DEF Init
<1>2. \A w \in Workers, p \in Partitions : pc[w][p] \notin Generating
  BY DEF Init, Generating
<1> QED BY <1>1, <1>2 DEF Chained, Latest, EventsFollow

\* What the gateway takes a worker to do, the worker does: with a producer that
\* keeps its promise, the events of each delivery come in the order Jobs and
\* Streaming assume, through retries, redeliveries and evicted workers that go
\* on publishing beside the new owner (runOnce, process, publishFailed).
THEOREM EventsComeInOrder ==
  ASSUME PublishContract PROVE Spec => []EventsFollow
<1>1. TypeInv /\ TypeInv' /\ History /\ Chained /\ [Next]_vars => Chained'
  BY ChainedStep
<1>2. Chained => EventsFollow
  BY DEF Chained
<1> QED BY <1>1, <1>2, ChainedInit, HistoryCorrect, TypeCorrect, PTL DEF Spec

-----------------------------------------------------------------------------
(* The chunks a completed event sums up. *)

\* The raw chunks of an attempt in the log s of a record.
ChunksIn(s, d, a) ==
  {i \in DOMAIN s : s[i].type = "raw_sse" /\ s[i].delivery = d /\ s[i].attempt = a}

\* A streaming claim has counted the chunks its attempt has stored.
Counted(w, p) ==
  pc[w][p] \in {"stream", "completing"} =>
    Cardinality(ChunksIn(events[Current(w, p)], job[w][p].delivery, job[w][p].attempt))
      = job[w][p].chunks

\* A completed event sums up the chunks of its attempt, all stored before it.
SumsUp(s, i) ==
  s[i].type = "completed" =>
    /\ Cardinality(ChunksIn(s, s[i].delivery, s[i].attempt)) = s[i].count
    /\ \A k \in ChunksIn(s, s[i].delivery, s[i].attempt) : k < i

Summed ==
  /\ \A w \in Workers, p \in Partitions : Counted(w, p)
  /\ \A x \in Requests : \A i \in DOMAIN events[x] : SumsUp(events[x], i)

\* An appended event counts for its own attempt only, and only as a chunk.
LEMMA ChunksAppended ==
  ASSUME NEW s \in Seq(Events), NEW f \in Events, NEW d, NEW a
  PROVE  /\ ChunksIn(s, d, a) \subseteq 1 .. Len(s)
         /\ ChunksIn(Append(s, f), d, a) =
              IF f.type = "raw_sse" /\ f.delivery = d /\ f.attempt = a
              THEN ChunksIn(s, d, a) \cup {Len(s) + 1} ELSE ChunksIn(s, d, a)
         /\ Cardinality(ChunksIn(Append(s, f), d, a)) =
              IF f.type = "raw_sse" /\ f.delivery = d /\ f.attempt = a
              THEN Cardinality(ChunksIn(s, d, a)) + 1 ELSE Cardinality(ChunksIn(s, d, a))
<1> DEFINE n == Len(s)
           t == Append(s, f)
           S == ChunksIn(s, d, a)
           T == ChunksIn(t, d, a)
<1>1. /\ n \in Nat /\ DOMAIN s = 1 .. n /\ DOMAIN t = 1 .. n + 1 /\ t[n + 1] = f
      /\ \A i \in 1 .. n : t[i] = s[i]
  OBVIOUS
<1>2. S \subseteq 1 .. n
  BY <1>1 DEF ChunksIn
<1>3. IsFiniteSet(S)
  <2>1. IsFiniteSet(1 .. n)
    BY <1>1, FS_Interval
  <2> QED BY <1>2, <2>1, FS_Subset
<1>4. n + 1 \notin S
  BY <1>1, <1>2
<1> HIDE DEF n, t
<1>5. 1 .. n + 1 = (1 .. n) \cup {n + 1} /\ n + 1 \notin 1 .. n
  BY <1>1
<1>6. T = IF f.type = "raw_sse" /\ f.delivery = d /\ f.attempt = a
          THEN S \cup {n + 1} ELSE S
  BY <1>1, <1>5 DEF ChunksIn
<1> HIDE DEF S, T
<1>7. Cardinality(S \cup {n + 1}) = Cardinality(S) + 1
  BY <1>3, <1>4, FS_AddElement
<1> QED BY <1>2, <1>6, <1>7 DEF n, t, S, T

\* A step that writes nothing and lets no claim stream.
LEMMA SummedKept ==
  ASSUME Summed, events' = events,
         \A v \in Workers, q \in Partitions : pc'[v][q] \in {"stream", "completing"} =>
           pc'[v][q] = pc[v][q] /\ job'[v][q] = job[v][q] /\ pos'[v][q] = pos[v][q]
  PROVE  Summed'
<1>1. ASSUME NEW v \in Workers, NEW q \in Partitions PROVE Counted(v, q)'
  <2>1. CASE pc'[v][q] \in {"stream", "completing"}
    <3>1. pc'[v][q] = pc[v][q] /\ job'[v][q] = job[v][q] /\ Current(v, q)' = Current(v, q)
      BY <2>1 DEF Current
    <3>2. Counted(v, q)
      BY DEF Summed
    <3> QED BY <3>1, <3>2 DEF Counted
  <2>2. CASE pc'[v][q] \notin {"stream", "completing"}
    BY <2>2 DEF Counted
  <2> QED BY <2>1, <2>2
<1>2. ASSUME NEW x \in Requests, NEW i \in DOMAIN events'[x] PROVE SumsUp(events'[x], i)
  BY <1>2 DEF Summed
<1> QED BY <1>1, <1>2 DEF Summed

\* What the table says of the chunks: either nothing is written, or one event
\* is, and a claim that streams after the step has counted it.
LEMMA RowChunks ==
  ASSUME PublishContract, TypeInv, NEW w \in Workers, NEW p \in Partitions,
         NEW stored \in BOOLEAN, Row(w, p, stored)
  PROVE  /\ \/ events' = events
            \/ \E type \in {"started", "raw_sse", "heartbeat", "completed", "failed"} :
                 \E count \in Nat :
                   /\ Adds(w, p, EventOf(w, p, type, count))
                   /\ type = "completed" => pc[w][p] = "completing" /\ count = job[w][p].chunks
         /\ pc'[w][p] \in {"stream", "completing"} =>
              /\ job'[w][p].attempt = job[w][p].attempt
              /\ \/ /\ pc[w][p] = "begin" /\ job'[w][p].chunks = 0
                    /\ \/ events' = events
                       \/ Adds(w, p, EventOf(w, p, "started", 0))
                 \/ /\ pc[w][p] = "stream" /\ job'[w][p].chunks = job[w][p].chunks + 1
                    /\ Adds(w, p, EventOf(w, p, "raw_sse", 0))
                 \/ /\ pc[w][p] = "stream" /\ job'[w][p].chunks = job[w][p].chunks
                    /\ \/ events' = events
                       \/ Adds(w, p, EventOf(w, p, "heartbeat", 0))
<1>1. ASSUME NEW type, NEW count, Writes(w, p, type, count, stored)
      PROVE  IF stored THEN Adds(w, p, EventOf(w, p, type, count)) ELSE events' = events
  BY <1>1 DEF Writes, Adds
<1>2. job[w][p].chunks \in Nat
  <2>1. job[w][p] \in Jobs
    BY DEF TypeInv, TypeOK
  <2> QED BY <2>1 DEF Jobs
<1>3. \/ events' = events
      \/ \E type \in {"started", "raw_sse", "heartbeat", "completed", "failed"} :
           \E count \in Nat :
             /\ Adds(w, p, EventOf(w, p, type, count))
             /\ type = "completed" => pc[w][p] = "completing" /\ count = job[w][p].chunks
  BY <1>1, <1>2 DEF Row, Silent, Records
<1>4. pc'[w][p] \in {"stream", "completing"} =>
              /\ job'[w][p].attempt = job[w][p].attempt
              /\ \/ /\ pc[w][p] = "begin" /\ job'[w][p].chunks = 0
                    /\ \/ events' = events
                       \/ Adds(w, p, EventOf(w, p, "started", 0))
                 \/ /\ pc[w][p] = "stream" /\ job'[w][p].chunks = job[w][p].chunks + 1
                    /\ Adds(w, p, EventOf(w, p, "raw_sse", 0))
                 \/ /\ pc[w][p] = "stream" /\ job'[w][p].chunks = job[w][p].chunks
                    /\ \/ events' = events
                       \/ Adds(w, p, EventOf(w, p, "heartbeat", 0))
  BY <1>1 DEF Row, FailedTo, Silent
<1> QED BY <1>3, <1>4

\* A stored event, as its claim's record then has it.
LEMMA AddedChunks ==
  ASSUME TypeInv, NEW w \in Workers, NEW p \in Partitions, pc[w][p] \in Working,
         NEW type \in {"started", "raw_sse", "heartbeat", "completed", "failed"},
         NEW count \in Nat, Adds(w, p, EventOf(w, p, type, count)), NEW d, NEW a
  PROVE  Cardinality(ChunksIn(events'[Current(w, p)], d, a)) =
           IF type = "raw_sse" /\ d = job[w][p].delivery /\ a = job[w][p].attempt
           THEN Cardinality(ChunksIn(events[Current(w, p)], d, a)) + 1
           ELSE Cardinality(ChunksIn(events[Current(w, p)], d, a))
<1> DEFINE f == EventOf(w, p, type, count)
           r == Current(w, p)
<1>1. f \in Events /\ r \in Requests
  BY EventOfIsEvent, CurrentIsRequest
<1>2. f.type = type /\ f.delivery = job[w][p].delivery /\ f.attempt = job[w][p].attempt
  BY DEF EventOf
<1>3. events[r] \in Seq(Events) /\ events'[r] = Append(events[r], f)
  BY <1>1 DEF Adds, TypeInv, TypeOK
<1> HIDE DEF f, r
<1> QED BY <1>1, <1>2, <1>3, ChunksAppended DEF r

LEMMA CountedRow ==
  ASSUME PublishContract, TypeInv, History, Summed,
         NEW w \in Workers, NEW p \in Partitions, pc[w][p] \in Working,
         Alone(w, p), NEW stored \in BOOLEAN, Row(w, p, stored)
  PROVE  Counted(w, p)'
<1> DEFINE r == Current(w, p)
           d == job[w][p].delivery
           a == job[w][p].attempt
           c == job[w][p].chunks
           N == Cardinality(ChunksIn(events[r], d, a))
           M == Cardinality(ChunksIn(events'[r], d, a))
<1> SUFFICES ASSUME pc'[w][p] \in {"stream", "completing"}
             PROVE  M = job'[w][p].chunks
  <2>1. Current(w, p)' = r /\ job'[w][p].delivery = d
    BY DEF Alone, Current
  <2>2. pc'[w][p] \in {"stream", "completing"} => job'[w][p].attempt = a
    BY RowChunks
  <2> QED BY <2>1, <2>2 DEF Counted
<1>1. a \in Nat /\ c \in Nat
  <2>1. job[w][p] \in Jobs
    BY DEF TypeInv, TypeOK
  <2> QED BY <2>1 DEF Jobs
<1>2. CASE pc[w][p] = "begin"
  <2>1. job'[w][p].chunks = 0 /\ (events' = events \/ Adds(w, p, EventOf(w, p, "started", 0)))
    BY <1>2, RowChunks
  <2>2. M = N
    BY <2>1, AddedChunks
  <2>3. ChunksIn(events[r], d, a) = {}
    <3>1. \A i \in DOMAIN events[r] : events[r][i].delivery = d => events[r][i].attempt < a
      BY <1>2 DEF History, OwnEvents, Own
    <3>2. \A i \in DOMAIN events[r] : events[r][i].delivery = d => events[r][i].attempt # a
      BY <1>1, <3>1
    <3> QED BY <3>2 DEF ChunksIn
  <2> QED BY <2>1, <2>2, <2>3, FS_EmptySet
<1>3. CASE pc[w][p] = "stream"
  <2>1. N = c
    BY <1>3 DEF Summed, Counted
  <2>2. CASE job'[w][p].chunks = c + 1 /\ Adds(w, p, EventOf(w, p, "raw_sse", 0))
    BY <2>1, <2>2, AddedChunks
  <2>3. CASE /\ job'[w][p].chunks = c
             /\ events' = events \/ Adds(w, p, EventOf(w, p, "heartbeat", 0))
    BY <2>1, <2>3, AddedChunks
  <2> QED BY <1>3, <2>2, <2>3, RowChunks
<1> QED BY <1>2, <1>3, RowChunks


LEMMA SummedRow ==
  ASSUME PublishContract, TypeInv, History, History', Summed,
         NEW w \in Workers, NEW p \in Partitions, pc[w][p] \in Working,
         Alone(w, p), NEW stored \in BOOLEAN, Row(w, p, stored)
  PROVE  Summed'
<1> DEFINE r == Current(w, p)
<1>1. /\ \A v \in Workers, q \in Partitions : Current(v, q)' = Current(v, q)
      /\ \A v \in Workers, q \in Partitions : <<v, q>> # <<w, p>> =>
           pc'[v][q] = pc[v][q] /\ job'[v][q] = job[v][q]
  BY DEF Alone, Current
<1>2. Counted(w, p)'
  BY CountedRow
<1>3. r \in Requests
  BY CurrentIsRequest
<1>4. CASE events' = events
  <2>1. ASSUME NEW v \in Workers, NEW q \in Partitions PROVE Counted(v, q)'
    <3>1. CASE <<v, q>> = <<w, p>>
      <4>1. v = w /\ q = p
        BY <3>1
      <4> QED BY <1>2, <4>1
    <3>2. CASE <<v, q>> # <<w, p>>
      <4>1. Counted(v, q)
        BY DEF Summed
      <4> QED BY <1>1, <1>4, <3>2, <4>1 DEF Counted
    <3> QED BY <3>1, <3>2
  <2>2. ASSUME NEW x \in Requests, NEW i \in DOMAIN events'[x] PROVE SumsUp(events'[x], i)
    BY <1>4 DEF Summed
  <2> QED BY <2>1, <2>2 DEF Summed
<1>5. ASSUME NEW type \in {"started", "raw_sse", "heartbeat", "completed", "failed"},
             NEW count \in Nat, Adds(w, p, EventOf(w, p, type, count)),
             type = "completed" => pc[w][p] = "completing" /\ count = job[w][p].chunks
      PROVE  Summed'
  <2> DEFINE f == EventOf(w, p, type, count)
             s == events[r]
             t == events'[r]
             n == Len(s)
  <2>1. f \in Events /\ s \in Seq(Events)
    BY <1>3, EventOfIsEvent DEF TypeInv, TypeOK
  <2>2. /\ f.type = type /\ f.count = count
        /\ f.delivery = job[w][p].delivery /\ f.attempt = job[w][p].attempt
    BY DEF EventOf
  <2>3. t = Append(s, f) /\ \A x \in Requests : x # r => events'[x] = events[x]
    BY <1>3, <1>5 DEF Adds, TypeInv, TypeOK
  <2>4. ASSUME NEW v \in Workers, NEW q \in Partitions PROVE Counted(v, q)'
    <3>1. CASE <<v, q>> = <<w, p>>
      <4>1. v = w /\ q = p
        BY <3>1
      <4> QED BY <1>2, <4>1
    <3>2. CASE <<v, q>> # <<w, p>> /\ pc[v][q] \in {"stream", "completing"}
      <4>1. Counted(v, q)
        BY DEF Summed
      <4>2. Current(v, q) \in Requests
        BY <3>2, CurrentIsRequest DEF Working, SlotHolders
      <4>3. CASE Current(v, q) = r
        <5>1. job[v][q].delivery # job[w][p].delivery
          BY <3>2, <4>3, OtherDelivery DEF History, Working, SlotHolders
        <5>2. Cardinality(ChunksIn(events'[r], job[v][q].delivery, job[v][q].attempt))
                = Cardinality(ChunksIn(events[r], job[v][q].delivery, job[v][q].attempt))
          BY <1>5, <5>1, AddedChunks
        <5> QED BY <1>1, <3>2, <4>1, <4>3, <5>2 DEF Counted
      <4>4. CASE Current(v, q) # r
        BY <1>1, <2>3, <3>2, <4>1, <4>2, <4>4 DEF Counted
      <4> QED BY <4>3, <4>4
    <3>3. CASE <<v, q>> # <<w, p>> /\ pc[v][q] \notin {"stream", "completing"}
      BY <1>1, <3>3 DEF Counted
    <3> QED BY <3>1, <3>2, <3>3
  <2> HIDE DEF f, s, t
  <2>5. /\ n \in Nat /\ DOMAIN s = 1 .. n /\ DOMAIN t = 1 .. n + 1 /\ t[n + 1] = f
        /\ \A i \in 1 .. n : t[i] = s[i]
    BY <2>1, <2>3
  <2>6. \A d, a :
          /\ ChunksIn(s, d, a) \subseteq 1 .. n
          /\ ~(f.type = "raw_sse" /\ f.delivery = d /\ f.attempt = a) =>
               ChunksIn(t, d, a) = ChunksIn(s, d, a)
    BY <2>1, <2>3, ChunksAppended
  <2> HIDE DEF n
  <2>7. ASSUME NEW i \in DOMAIN t PROVE SumsUp(t, i)
    <3>1. CASE i \in 1 .. n
      <4> SUFFICES ASSUME t[i].type = "completed"
                   PROVE  /\ Cardinality(ChunksIn(t, t[i].delivery, t[i].attempt)) = t[i].count
                          /\ \A k \in ChunksIn(t, t[i].delivery, t[i].attempt) : k < i
        BY DEF SumsUp
      <4>1. s[i] = t[i] /\ SumsUp(s, i)
        BY <1>3, <2>5, <3>1 DEF Summed, s
      <4>2. i < n + 1 /\ n + 1 \in DOMAIN t
        BY <2>5, <3>1
      <4>3. t[i].delivery = f.delivery => Before(t[i], f)
        BY <1>3, <2>5, <4>2 DEF History, InOrder, t
      <4>4. t[i].attempt \in Nat /\ f.attempt \in Nat
        <5>1. s[i] \in Events
          BY <2>1, <2>5, <3>1
        <5> QED BY <2>1, <4>1, <5>1 DEF Events
      <4>5. ~(f.type = "raw_sse" /\ f.delivery = t[i].delivery /\ f.attempt = t[i].attempt)
        BY <4>3, <4>4 DEF Before
      <4>6. ChunksIn(t, t[i].delivery, t[i].attempt) = ChunksIn(s, t[i].delivery, t[i].attempt)
        BY <2>6, <4>5
      <4> QED BY <4>1, <4>6 DEF SumsUp
    <3>2. CASE i = n + 1
      <4> SUFFICES ASSUME f.type = "completed"
                   PROVE  /\ Cardinality(ChunksIn(t, f.delivery, f.attempt)) = f.count
                          /\ \A k \in ChunksIn(t, f.delivery, f.attempt) : k < i
        BY <2>5, <3>2 DEF SumsUp
      <4>1. ChunksIn(t, f.delivery, f.attempt) = ChunksIn(s, f.delivery, f.attempt)
        BY <2>6
      <4>2. pc[w][p] = "completing" /\ f.count = job[w][p].chunks
        BY <1>5, <2>2
      <4>3. Cardinality(ChunksIn(s, f.delivery, f.attempt)) = f.count
        BY <2>2, <4>2 DEF Summed, Counted, s
      <4>4. \A k \in ChunksIn(s, f.delivery, f.attempt) : k < i
        <5>1. ChunksIn(s, f.delivery, f.attempt) \subseteq 1 .. n
          BY <2>6
        <5> QED BY <2>5, <3>2, <5>1
      <4> QED BY <4>1, <4>3, <4>4
    <3> QED BY <2>5, <3>1, <3>2
  <2>8. ASSUME NEW x \in Requests, NEW i \in DOMAIN events'[x] PROVE SumsUp(events'[x], i)
    <3>1. CASE x = r
      BY <2>7, <2>8, <3>1 DEF t
    <3>2. CASE x # r
      BY <2>3, <2>8, <3>2 DEF Summed
    <3> QED BY <3>1, <3>2
  <2> QED BY <2>4, <2>8 DEF Summed
<1> QED BY <1>4, <1>5, RowChunks

LEMMA SummedStep ==
  ASSUME PublishContract, TypeInv, TypeInv', History, History', Summed, [Next]_vars
  PROVE  Summed'
<1>0. {"stream", "completing"} \subseteq Working
  BY DEF Working, SlotHolders
<1>1. CASE \/ Assign
           \/ \E q \in Partitions : Arrive(q)
           \/ \E w \in Workers : \/ Revoke(w) \/ Cancel(w) \/ AutoCommit(w)
                                 \/ EndSession(w) \/ Evict(w) \/ Crash(w)
  BY <1>0, <1>1, GroupIdles, SummedKept
<1>2. ASSUME NEW w \in Workers, NEW p \in Partitions, ClaimStep(w, p) \/ AcquireSlot(w, p)
      PROVE  Summed'
  <2>1. CASE Fetch(w, p)
    BY <2>1, FetchMoves, SummedKept
  <2>2. CASE ~Fetch(w, p) /\ (pc[w][p] \notin Working \/ Mark(w, p))
    BY <1>0, <1>2, <2>2, ClaimIdles, SummedKept
  <2>3. CASE pc[w][p] \in Working /\ ~Mark(w, p)
    <3>1. PICK stored \in BOOLEAN : Alone(w, p) /\ Row(w, p, stored)
      BY <1>2, <2>3, ClaimRow
    <3> QED BY <2>3, <3>1, SummedRow
  <2> QED BY <2>1, <2>2, <2>3
<1>3. CASE UNCHANGED vars
  BY <1>3, SummedKept DEF vars
<1> QED BY <1>1, <1>2, <1>3 DEF Next, Quiet

LEMMA SummedInit == Init => Summed
<1> SUFFICES ASSUME Init PROVE Summed
  OBVIOUS
<1>1. \A r \in Requests : DOMAIN events[r] = {}
  BY DEF Init
<1>2. \A w \in Workers, p \in Partitions : pc[w][p] = "none"
  BY DEF Init
<1> QED BY <1>1, <1>2 DEF Summed, Counted

\* A transcript is complete: a completed event sums up exactly the chunks of
\* its attempt that llm.events has before it, however many attempts, redeliveries
\* and workers wrote to the same log (handleProviderEvent, absorb,
\* publishCompletion).
THEOREM TranscriptsAreComplete ==
  ASSUME PublishContract PROVE Spec => []TranscriptComplete
<1>1. TypeInv /\ TypeInv' /\ History /\ History' /\ Summed /\ [Next]_vars => Summed'
  BY SummedStep
<1>2. Summed => TranscriptComplete
  <2> SUFFICES ASSUME Summed, NEW r \in Requests, NEW i \in DOMAIN events[r],
                      events[r][i].type = "completed"
               PROVE  LET chunks == {k \in DOMAIN events[r] :
                             events[r][k].type = "raw_sse" /\ SameAttempt(events[r][k], events[r][i])}
                      IN Cardinality(chunks) = events[r][i].count /\ \A k \in chunks : k < i
    BY DEF TranscriptComplete
  <2>1. SumsUp(events[r], i)
    BY DEF Summed
  <2>2. ChunksIn(events[r], events[r][i].delivery, events[r][i].attempt)
          = {k \in DOMAIN events[r] :
               events[r][k].type = "raw_sse" /\ SameAttempt(events[r][k], events[r][i])}
    BY DEF ChunksIn, SameAttempt
  <2> QED BY <2>1, <2>2 DEF SumsUp
<1> QED BY <1>1, <1>2, SummedInit, HistoryCorrect, TypeCorrect, PTL DEF Spec

-----------------------------------------------------------------------------
(* Redelivery. *)

\* The claims that may still hand out record o of p.
Able(p, o) ==
  {w \in Workers : pc[w][p] \notin {"none", "ended"} /\
                   (pos[w][p] < o \/ (pos[w][p] = o /\ pc[w][p] = "idle"))}

\* Some partition is about to get a new owner.
Rebalancing ==
  \/ \E p \in Partitions : owner[p] = NoWorker
  \/ \E w \in Workers, p \in Partitions : sess[w] = "cancelled" /\ owner[p] = w

\* Every handing out of a record that has happened or may still happen is the
\* first one or has a fault of its own.
Budget(p, o) ==
  /\ IsFiniteSet(Able(p, o))
  /\ deliveries[<<p, o>>] + Cardinality(Able(p, o)) + (IF Rebalancing THEN 1 ELSE 0) <= 1 + faults

\* A session that claims partitions is open, and owns all that it claims or,
\* once evicted, none.
Sessions ==
  /\ \A w \in Workers, p \in Partitions : pc[w][p] # "none" => sess[w] # "none"
  /\ \A w \in Workers, p, q \in Partitions : pc[w][p] # "none" /\ owner[p] # w => owner[q] # w

Accounted ==
  /\ Sessions
  /\ \A p \in Partitions : \A o \in 0 .. Len(Backlog[p]) - 1 : Budget(p, o)

LEMMA AbleShrinks ==
  ASSUME TypeInv, TypeInv', NEW p \in Partitions, NEW o \in 0 .. Len(Backlog[p]) - 1,
         Budget(p, o), Able(p, o)' \subseteq Able(p, o),
         deliveries'[<<p, o>>] = deliveries[<<p, o>>],
         \/ (Rebalancing' => Rebalancing) /\ faults <= faults'
         \/ faults' = faults + 1
  PROVE  Budget(p, o)'
<1>1. IsFiniteSet(Able(p, o)') /\ Cardinality(Able(p, o)') <= Cardinality(Able(p, o))
  BY FS_Subset DEF Budget
<1>2. Cardinality(Able(p, o)') \in Nat /\ Cardinality(Able(p, o)) \in Nat
  BY <1>1, FS_CardinalityType DEF Budget
<1>3. faults \in Int /\ faults' \in Int
  BY DEF TypeInv, TypeOK
<1>4. deliveries[<<p, o>>] \in Nat
  <2>1. Len(Backlog[p]) \in Nat
    BY WorkersAssumption
  <2>2. <<p, o>> \in Requests
    BY <2>1, RequestOfOffset
  <2> QED BY <2>2 DEF TypeInv, TypeOK
<1> DEFINE A == Able(p, o)  B == Able(p, o)'  R == Rebalancing  S == Rebalancing'
<1>5. deliveries[<<p, o>>] + Cardinality(A) + (IF R THEN 1 ELSE 0) <= 1 + faults
  BY DEF Budget
<1>6. deliveries'[<<p, o>>] + Cardinality(B) + (IF S THEN 1 ELSE 0) <= 1 + faults'
  <2> HIDE DEF A, B, R, S
  <2>1. (R \in BOOLEAN) /\ (S \in BOOLEAN)
    BY DEF R, S, Rebalancing
  <2>2. CASE S => R
    BY <1>1, <1>2, <1>3, <1>4, <1>5, <2>2 DEF A, B, R, S
  <2>3. CASE faults' = faults + 1
    BY <1>1, <1>2, <1>3, <1>4, <1>5, <2>3 DEF A, B
  <2> QED BY <2>2, <2>3 DEF R, S
<1> QED BY <1>1, <1>6 DEF Budget


\* The tail of every failing step: a session that was live is cancelled only
\* for a fault.
LEMMA ClaimFaults ==
  ASSUME TypeInv, Sessions, NEW w \in Workers, NEW p \in Partitions,
         ClaimStep(w, p) \/ AcquireSlot(w, p)
  PROVE  /\ owner' = owner
         /\ \/ sess' = sess /\ faults <= faults'
            \/ sess' = [sess EXCEPT ![w] = "cancelled"] /\ faults' = faults + 1
<1>1. owner' = owner
  BY ClaimOffsets
<1>2. sess \in [Workers -> {"none", "live", "cancelled"}] /\ faults \in Int
  BY DEF TypeInv, TypeOK
<1>3. \A l : GoTo(w, p, l) => sess' = sess
  BY DEF GoTo
<1>4. EndClaim(w, p) => sess' = [sess EXCEPT ![w] = "cancelled"]
  BY DEF EndClaim
<1>5. sess[w] = "cancelled" => sess = [sess EXCEPT ![w] = "cancelled"]
  BY <1>2
<1>6. \A class : RunFailed(w, p, class) => sess' = sess
  BY <1>3, <1>4, <1>5 DEF RunFailed
<1>7. \A out \in PublishOutcomes : Publish(w, out) =>
        /\ faults <= faults'
        /\ ~out.ok /\ sess[w] # "cancelled" => faults' = faults + 1
  BY <1>2 DEF Publish
<1>8. CASE Fetch(w, p) \/ AcquireSlot(w, p) \/ Retry(w, p) \/ Mark(w, p)
  BY <1>1, <1>2, <1>3, <1>8 DEF Fetch, AcquireSlot, Retry, Mark
<1>9. CASE Interrupt(w, p) \/ Decode(w, p) \/ StreamEnd(w, p)
  BY <1>1, <1>2, <1>3, <1>4, <1>5, <1>6, <1>9 DEF Interrupt, Decode, StreamEnd
<1>10. CASE Start(w, p) \/ Chunk(w, p) \/ Heartbeat(w, p) \/ Complete(w, p)
  BY <1>1, <1>3, <1>6, <1>7, <1>10 DEF Start, Chunk, Heartbeat, Complete, PublishEvent
<1>11. CASE Aggregate(w, p) \/ DeadLetter(w, p)
  BY <1>1, <1>3, <1>6, <1>7, <1>11 DEF Aggregate, DeadLetter, PublishResult
<1>12. CASE Fail(w, p) \/ RecordFailure(w, p) \/ Quarantine(w, p)
  <2>1. PICK out \in PublishOutcomes :
          Publish(w, out) /\ (~out.ok => EndClaim(w, p)) /\ (out.ok => sess' = sess)
    BY <1>3, <1>12 DEF Fail, RecordFailure, Quarantine, PublishEvent, PublishResult
  <2> QED BY <1>1, <1>4, <1>5, <1>7, <2>1
<1> QED BY <1>8, <1>9, <1>10, <1>11, <1>12 DEF ClaimStep

\* When only a session's claims and owners go, or nothing does, no partition
\* starts to look for an owner.
LEMMA SessionsStep ==
  ASSUME TypeInv, TypeInv', Ownership, Sessions, [Next]_vars
  PROVE  Sessions'
<1>0. NoWorker \notin Workers
  BY WorkersAssumption
<1> USE DEF Sessions
<1>1. CASE Assign
  <2>1. PICK joined \in SUBSET {w \in Workers : sess[w] = "none"} \ {{}} :
          \E share \in [Partitions -> joined] :
            /\ owner' = share
            /\ sess' = [w \in Workers |-> IF w \in joined THEN "live" ELSE sess[w]]
            /\ pc' = [w \in Workers |-> [p \in Partitions |->
                        IF share[p] = w THEN "idle" ELSE pc[w][p]]]
            /\ pos' = [w \in Workers |-> [p \in Partitions |->
                        IF share[p] = w THEN StartOffset(p) ELSE pos[w][p]]]
            /\ base' = [p \in Partitions |-> StartOffset(p)]
    BY Zenon, <1>1 DEF Assign
  <2>2. /\ \A w \in Workers, p \in Partitions : pc'[w][p] = IF owner'[p] = w THEN "idle" ELSE pc[w][p]
        /\ \A w \in Workers : sess'[w] = IF w \in joined THEN "live" ELSE sess[w]
        /\ \A p \in Partitions : owner'[p] \in joined
        /\ \A w \in joined : sess[w] = "none"
    BY <2>1
  <2>4. \A w \in joined, p \in Partitions : w \in Workers /\ pc[w][p] = "none"
    BY <2>1, <2>2
  <2>3. \A w \in joined, p \in Partitions : pc'[w][p] # "none" => owner'[p] = w
    BY <2>2, <2>4
  <2> QED BY <2>2, <2>3
<1>2. CASE \E w \in Workers : Revoke(w) \/ Cancel(w) \/ AutoCommit(w)
  <2>1. ASSUME NEW w \in Workers, Revoke(w) \/ Cancel(w)
        PROVE  /\ owner' = owner /\ pc' = pc
               /\ sess[w] = "live" /\ sess' = [sess EXCEPT ![w] = "cancelled"]
    BY <2>1 DEF Revoke, Cancel, Offsets
  <2>2. ASSUME NEW w \in Workers, AutoCommit(w)
        PROVE  owner' = owner /\ pc' = pc /\ sess' = sess
    BY <2>2 DEF AutoCommit
  <2>3. sess \in [Workers -> {"none", "live", "cancelled"}]
    BY DEF TypeInv, TypeOK
  <2>4. ASSUME NEW w \in Workers, Revoke(w) \/ Cancel(w) PROVE Sessions'
    BY <2>1, <2>3, <2>4
  <2>5. ASSUME NEW w \in Workers, AutoCommit(w) PROVE Sessions'
    BY <2>2, <2>5
  <2> QED BY <1>2, <2>4, <2>5
<1>3. ASSUME NEW w \in Workers, EndSession(w) \/ Crash(w) \/ Evict(w)
      PROVE  Sessions'
  <2>1. \A p \in Partitions : owner'[p] = IF owner[p] = w THEN NoWorker ELSE owner[p]
    BY <1>3 DEF EndSession, Crash, Evict
  <2>2. \A v \in Workers, p \in Partitions : pc'[v][p] # "none" =>
          pc'[v][p] = pc[v][p] /\ sess'[v] = sess[v]
    <3>1. CASE EndSession(w) \/ Crash(w)
      <4>1. \A p \in Partitions : pc'[w][p] = "none"
        BY <3>1 DEF EndSession, Crash, TypeInv, TypeOK
      <4>2. \A v \in Workers : v # w => pc'[v] = pc[v] /\ sess'[v] = sess[v]
        BY <3>1 DEF EndSession, Crash, TypeInv, TypeOK
      <4> QED BY <4>1, <4>2
    <3>2. CASE Evict(w)
      BY <3>2 DEF Evict
    <3> QED BY <1>3, <3>1, <3>2
  <2> QED BY <1>0, <2>1, <2>2
<1>4. ASSUME NEW w \in Workers, NEW p \in Partitions, ClaimStep(w, p) \/ AcquireSlot(w, p)
      PROVE  Sessions'
  <2>1. \A v \in Workers, q \in Partitions : pc'[v][q] # "none" => pc[v][q] # "none"
    BY <1>4, ClaimMoves
  <2>2. owner' = owner /\ \A v \in Workers : sess'[v] = sess[v] \/ sess'[v] = "cancelled"
    BY <1>4, ClaimFaults DEF TypeInv, TypeOK
  <2> QED BY <2>1, <2>2
<1>5. CASE UNCHANGED vars
  BY <1>5 DEF vars
<1>6. CASE \E p \in Partitions : Arrive(p)
  BY <1>6 DEF Arrive
<1> QED BY <1>1, <1>2, <1>3, <1>4, <1>5, <1>6 DEF Next, Quiet

\* The steps of the group but Assign give no claim a record, and cancel or end
\* a session that owns partitions only for a fault, or in a rebalance.
LEMMA GroupBudget ==
  ASSUME TypeInv, TypeInv', Accounted,
         \/ UNCHANGED vars
         \/ \E q \in Partitions : Arrive(q)
         \/ \E w \in Workers : \/ Revoke(w) \/ Cancel(w) \/ AutoCommit(w)
                               \/ EndSession(w) \/ Evict(w) \/ Crash(w),
         NEW p \in Partitions, NEW o \in 0 .. Len(Backlog[p]) - 1
  PROVE  Budget(p, o)'
<1>0. Budget(p, o) /\ Sessions /\ faults \in Int
  BY DEF Accounted, TypeInv, TypeOK
<1>1. deliveries' = deliveries
  BY DEF vars, Arrive, Revoke, Cancel, AutoCommit, EndSession, Evict, Crash, Offsets, Log
<1>2. CASE UNCHANGED vars \/ (\E q \in Partitions : Arrive(q)) \/ \E w \in Workers : AutoCommit(w)
  <2>1. UNCHANGED <<owner, sess, pc, pos, faults>>
    BY <1>2 DEF vars, Arrive, AutoCommit
  <2>2. Able(p, o)' = Able(p, o) /\ (Rebalancing' => Rebalancing)
    BY <2>1 DEF Able, Rebalancing
  <2> QED BY <1>0, <1>1, <2>1, <2>2, AbleShrinks
<1>3. ASSUME NEW w \in Workers, Revoke(w) PROVE Budget(p, o)'
  <2>1. UNCHANGED <<owner, pc, pos, faults>> /\ sess' = [sess EXCEPT ![w] = "cancelled"]
    BY <1>3 DEF Revoke, Offsets
  <2>2. Able(p, o)' = Able(p, o)
    BY <2>1 DEF Able
  <2>3. Rebalancing' => Rebalancing
    <3>1. CASE \E q \in Partitions : owner[q] = NoWorker
      BY <3>1 DEF Rebalancing
    <3>2. CASE \E q \in Claims(w) : owner[q] # w
      <4>1. \A q \in Partitions : owner[q] # w
        BY <1>0, <3>2 DEF Claims, Sessions
      <4> QED BY <2>1, <4>1 DEF Rebalancing, TypeInv, TypeOK
    <3> QED BY <1>3, <3>1, <3>2 DEF Revoke
  <2> QED BY <1>0, <1>1, <2>1, <2>2, <2>3, AbleShrinks
<1>4. ASSUME NEW w \in Workers, Cancel(w) \/ Evict(w) PROVE Budget(p, o)'
  <2>1. Able(p, o)' = Able(p, o)
    BY <1>4 DEF Cancel, Evict, Offsets, Able
  <2> QED BY <1>0, <1>1, <1>4, <2>1, AbleShrinks DEF Cancel, Evict
<1>5. ASSUME NEW w \in Workers, EndSession(w) \/ Crash(w) PROVE Budget(p, o)'
  <2>5. pc'[w][p] = "none"
    BY <1>5 DEF EndSession, Crash, TypeInv, TypeOK
  <2>1. \A v \in Workers : v # w => pc'[v] = pc[v] /\ pos'[v] = pos[v]
    BY <1>5 DEF EndSession, Crash, TypeInv, TypeOK
  <2>2. Able(p, o)' \subseteq Able(p, o)
    BY <2>1, <2>5 DEF Able
  <2>3. CASE Crash(w)
    BY <1>0, <1>1, <2>2, <2>3, AbleShrinks DEF Crash
  <2>4. CASE EndSession(w)
    <3>1. /\ sess[w] = "cancelled" /\ faults' = faults
          /\ owner' = [q \in Partitions |-> IF owner[q] = w THEN NoWorker ELSE owner[q]]
          /\ \A v \in Workers : v # w => sess'[v] = sess[v]
          /\ sess'[w] = "none"
      BY <2>4 DEF EndSession, TypeInv, TypeOK
    <3>2. Rebalancing' => Rebalancing
      BY <3>1 DEF Rebalancing
    <3> QED BY <1>0, <1>1, <2>2, <3>1, <3>2, AbleShrinks
  <2> QED BY <1>5, <2>3, <2>4
<1> QED BY <1>2, <1>3, <1>4, <1>5

\* A partition's new owner may hand out what is left of it once more, and with
\* it the rebalance is over.
LEMMA AssignBudget ==
  ASSUME TypeInv, TypeInv', Accounted, Assign,
         NEW p \in Partitions, NEW o \in 0 .. Len(Backlog[p]) - 1
  PROVE  Budget(p, o)'
<1>0. NoWorker \notin Workers
  BY WorkersAssumption
<1>1. PICK joined \in SUBSET {w \in Workers : sess[w] = "none"} \ {{}} :
        \E share \in [Partitions -> joined] :
          /\ owner' = share
          /\ sess' = [w \in Workers |-> IF w \in joined THEN "live" ELSE sess[w]]
          /\ pc' = [w \in Workers |-> [q \in Partitions |->
                      IF share[q] = w THEN "idle" ELSE pc[w][q]]]
          /\ pos' = [w \in Workers |-> [q \in Partitions |->
                      IF share[q] = w THEN StartOffset(q) ELSE pos[w][q]]]
          /\ base' = [q \in Partitions |-> StartOffset(q)]
  BY Zenon DEF Assign
<1>2. /\ \A w \in Workers : owner'[p] # w => pc'[w][p] = pc[w][p] /\ pos'[w][p] = pos[w][p]
      /\ \A q \in Partitions : owner'[q] \in joined /\ owner'[q] \in Workers
      /\ \A w \in joined : sess'[w] = "live"
  BY <1>1
<1> DEFINE u == owner'[p]
           A == Able(p, o)
           B == Able(p, o)'
<1>3. B \subseteq A \cup {u}
  BY <1>2 DEF Able
<1>4. Rebalancing /\ ~Rebalancing'
  <2>1. Rebalancing
    BY DEF Assign, Rebalancing
  <2>2. ~Rebalancing'
    BY <1>0, <1>2 DEF Rebalancing
  <2> QED BY <2>1, <2>2
<1>5. IsFiniteSet(A) /\ deliveries[<<p, o>>] + Cardinality(A) + 1 <= 1 + faults
  BY <1>4 DEF Accounted, Budget
<1>6. UNCHANGED <<deliveries, faults>>
  BY DEF Assign
<1> HIDE DEF A, B, u
<1>7. Cardinality(A) \in Nat /\ IsFiniteSet(A \cup {u}) /\ Cardinality(A \cup {u}) <= Cardinality(A) + 1
  <2>1. Cardinality(A) \in Nat
    BY <1>5, FS_CardinalityType
  <2>2. /\ IsFiniteSet(A \cup {u})
        /\ Cardinality(A \cup {u}) = IF u \in A THEN Cardinality(A) ELSE Cardinality(A) + 1
    BY <1>5, FS_AddElement
  <2> QED BY <2>1, <2>2
<1>8. IsFiniteSet(B) /\ Cardinality(B) <= Cardinality(A \cup {u})
  BY <1>3, <1>7, FS_Subset
<1>9. Cardinality(B) \in Nat /\ Cardinality(A \cup {u}) \in Nat
  BY <1>7, <1>8, FS_CardinalityType
<1>10. deliveries[<<p, o>>] \in Nat /\ faults \in Int
  <2>1. Len(Backlog[p]) \in Nat
    BY WorkersAssumption
  <2>2. <<p, o>> \in Requests
    BY <2>1, RequestOfOffset
  <2> QED BY <2>2 DEF TypeInv, TypeOK
<1>11. deliveries'[<<p, o>>] + Cardinality(B) + 0 <= 1 + faults'
  BY <1>5, <1>6, <1>7, <1>8, <1>9, <1>10
<1> QED BY <1>4, <1>8, <1>11 DEF Budget, B


\* What the step of a claim leaves of the claims that may still hand out a
\* record: all, but for the one that has just done so.
LEMMA ClaimAble ==
  ASSUME TypeInv, TypeInv', NEW w \in Workers, NEW q \in Partitions,
         ClaimStep(w, q) \/ AcquireSlot(w, q),
         NEW p \in Partitions, NEW o \in 0 .. Len(Backlog[p]) - 1
  PROVE  /\ Able(p, o)' \subseteq Able(p, o)
         /\ \/ deliveries'[<<p, o>>] = deliveries[<<p, o>>]
            \/ /\ w \in Able(p, o) /\ w \notin Able(p, o)'
               /\ deliveries'[<<p, o>>] = deliveries[<<p, o>>] + 1
               /\ UNCHANGED <<sess, faults>>
<1>0. /\ pos \in [Workers -> [Partitions -> Nat]]
      /\ deliveries \in [Requests -> Nat] /\ <<p, o>> \in Requests /\ o \in Int
  <2>1. Len(Backlog[p]) \in Nat
    BY WorkersAssumption
  <2>2. o \in Nat /\ o < Len(Backlog[p])
    BY <2>1
  <2>3. <<p, o>> \in Requests
    BY <2>2, RequestOfOffset
  <2>4. pos \in [Workers -> [Partitions -> Nat]] /\ deliveries \in [Requests -> Nat]
    BY DEF TypeInv, TypeOK
  <2> QED BY <2>2, <2>3, <2>4
<1>1. \A v \in Workers, x \in Partitions : <<v, x>> # <<w, q>> => pc'[v][x] = pc[v][x]
  BY ClaimMoves
<1>2. \A v \in Workers, x \in Partitions : <<v, x>> # <<w, q>> => pos'[v][x] = pos[v][x]
  BY <1>0, ClaimOffsets
<1>3. CASE Fetch(w, q)
  <2>1. /\ pc[w][q] = "idle" /\ pc'[w][q] \in {"quarantine", "slot"}
        /\ UNCHANGED <<pos, sess, faults>>
        /\ deliveries' = [deliveries EXCEPT ![Current(w, q)] = @ + 1]
    BY <1>3, GoesTo DEF Fetch, GoTo, Offsets
  <2>2. Able(p, o)' \subseteq Able(p, o)
    <3>1. ASSUME NEW v \in Able(p, o)' PROVE v \in Able(p, o)
      <4>1. v \in Workers
        BY DEF Able
      <4>2. CASE v = w /\ p = q
        BY <1>0, <2>1, <4>2 DEF Able
      <4>3. CASE <<v, p>> # <<w, q>>
        BY <1>1, <2>1, <4>1, <4>3 DEF Able
      <4> QED BY <4>2, <4>3
    <3> QED BY <3>1
  <2>3. CASE Current(w, q) = <<p, o>>
    <3>1. p = q /\ pos[w][p] = o
      BY <2>3 DEF Current
    <3>2. w \in Able(p, o) /\ w \notin Able(p, o)'
      BY <1>0, <2>1, <3>1 DEF Able
    <3>3. deliveries'[<<p, o>>] = deliveries[<<p, o>>] + 1
      BY <1>0, <2>1, <2>3
    <3> QED BY <2>1, <2>2, <3>2, <3>3
  <2>4. CASE Current(w, q) # <<p, o>>
    BY <1>0, <2>1, <2>2, <2>4
  <2> QED BY <2>3, <2>4
<1>4. CASE ~Fetch(w, q)
  <2>1. deliveries' = deliveries
    BY <1>4 DEF ClaimStep, AcquireSlot, Interrupt, Quarantine, Mark, Decode, Start, Chunk, Heartbeat,
         StreamEnd, Complete, Aggregate, Retry, Fail, RecordFailure, DeadLetter
  <2>2. Able(p, o)' \subseteq Able(p, o)
    <3>1. CASE Mark(w, q)
      <4>1. pc[w][q] = "marking" /\ pos'[w][q] = pos[w][q] + 1
        BY <1>0, <3>1 DEF Mark
      <4>2. ASSUME NEW v \in Able(p, o)' PROVE v \in Able(p, o)
        <5>1. v \in Workers
          BY DEF Able
        <5>2. CASE v = w /\ p = q
          BY <1>0, <4>1, <4>2, <5>2 DEF Able
        <5>3. CASE <<v, p>> # <<w, q>>
          BY <1>1, <1>2, <4>2, <5>1, <5>3 DEF Able
        <5> QED BY <5>2, <5>3
      <4> QED BY <4>2
    <3>2. CASE ~Mark(w, q)
      <4>1. pos' = pos
        BY <1>4, <3>2 DEF ClaimStep, AcquireSlot, Interrupt, Quarantine, Decode, Start, Chunk,
             Heartbeat, StreamEnd, Complete, Aggregate, Retry, Fail, RecordFailure, DeadLetter, Offsets
      <4>2. pc[w][q] # "none" /\ pc'[w][q] # "idle"
        <5>1. CASE pc[w][q] \in Working
          <6>1. PICK stored \in BOOLEAN : Row(w, q, stored)
            BY <3>2, <5>1, ClaimRow
          <6>2. pc'[w][q] # "idle"
            BY <6>1 DEF Row, FailedTo
          <6> QED BY <6>2, ClaimMoves
        <5>2. CASE pc[w][q] \notin Working
          <6>1. Interrupt(w, q)
            BY <1>4, <5>2
            DEF ClaimStep, AcquireSlot, Quarantine, Mark, Decode, Start, Chunk, Heartbeat, StreamEnd,
                Complete, Aggregate, Retry, Fail, RecordFailure, DeadLetter, Working, SlotHolders
          <6>2. pc'[w][q] = "ended"
            BY <6>1, GoesTo DEF Interrupt
          <6> QED BY <6>2, ClaimMoves
        <5> QED BY <5>1, <5>2
      <4>3. pc[w][q] # "ended"
        BY <1>4
        DEF ClaimStep, AcquireSlot, Interrupt, Quarantine, Mark, Decode, Start, Chunk, Heartbeat,
            StreamEnd, Complete, Aggregate, Retry, Fail, RecordFailure, DeadLetter
      <4>4. ASSUME NEW v \in Able(p, o)' PROVE v \in Able(p, o)
        <5>1. v \in Workers
          BY DEF Able
        <5>2. CASE v = w /\ p = q
          BY <4>1, <4>2, <4>3, <4>4, <5>2 DEF Able
        <5>3. CASE <<v, p>> # <<w, q>>
          BY <1>1, <4>1, <4>4, <5>1, <5>3 DEF Able
        <5> QED BY <5>2, <5>3
      <4> QED BY <4>4
    <3> QED BY <3>1, <3>2
  <2> QED BY <2>1, <2>2
<1> QED BY <1>3, <1>4

LEMMA ClaimBudget ==
  ASSUME TypeInv, TypeInv', Accounted, NEW w \in Workers, NEW q \in Partitions,
         ClaimStep(w, q) \/ AcquireSlot(w, q),
         NEW p \in Partitions, NEW o \in 0 .. Len(Backlog[p]) - 1
  PROVE  Budget(p, o)'
<1>1. Sessions /\ Budget(p, o)
  BY DEF Accounted
<1>2. /\ owner' = owner
      /\ \/ sess' = sess /\ faults <= faults'
         \/ sess' = [sess EXCEPT ![w] = "cancelled"] /\ faults' = faults + 1
  BY <1>1, ClaimFaults
<1>3. sess' = sess => (Rebalancing' => Rebalancing)
  BY <1>2 DEF Rebalancing
<1>4. CASE deliveries'[<<p, o>>] = deliveries[<<p, o>>]
  BY <1>1, <1>2, <1>3, <1>4, ClaimAble, AbleShrinks
<1>5. CASE /\ Able(p, o)' \subseteq Able(p, o) /\ w \in Able(p, o) /\ w \notin Able(p, o)'
           /\ deliveries'[<<p, o>>] = deliveries[<<p, o>>] + 1
           /\ UNCHANGED <<sess, faults>>
  <2> DEFINE A == Able(p, o)  B == Able(p, o)'
  <2>1. IsFiniteSet(A) /\ B \subseteq A \ {w}
    BY <1>1, <1>5 DEF Budget
  <2>2. IsFiniteSet(A \ {w}) /\ Cardinality(A \ {w}) = Cardinality(A) - 1
    BY <1>5, <2>1, FS_RemoveElement
  <2>3. IsFiniteSet(B) /\ Cardinality(B) <= Cardinality(A) - 1
    BY <2>1, <2>2, FS_Subset
  <2>4. Cardinality(A) \in Nat /\ Cardinality(B) \in Nat
    BY <2>1, <2>3, FS_CardinalityType
  <2>5. deliveries[<<p, o>>] \in Nat /\ faults \in Int
    <3>1. Len(Backlog[p]) \in Nat
      BY WorkersAssumption
    <3>2. <<p, o>> \in Requests
      BY <3>1, RequestOfOffset
    <3> QED BY <3>2 DEF TypeInv, TypeOK
  <2>6. deliveries[<<p, o>>] + Cardinality(A) + (IF Rebalancing THEN 1 ELSE 0) <= 1 + faults
    BY <1>1 DEF Budget
  <2> HIDE DEF A, B
  <2>7. CASE Rebalancing
    BY <1>5, <2>3, <2>4, <2>5, <2>6, <2>7 DEF Budget, B
  <2>8. CASE ~Rebalancing
    BY <1>3, <1>5, <2>3, <2>4, <2>5, <2>6, <2>8 DEF Budget, B
  <2> QED BY <2>7, <2>8
<1> QED BY <1>4, <1>5, ClaimAble

LEMMA AccountedStep ==
  ASSUME TypeInv, TypeInv', Ownership, Accounted, [Next]_vars
  PROVE  Accounted'
<1>1. Sessions'
  BY SessionsStep DEF Accounted
<1>2. ASSUME NEW p \in Partitions, NEW o \in 0 .. Len(Backlog[p]) - 1
      PROVE  Budget(p, o)'
  BY GroupBudget, AssignBudget, ClaimBudget DEF Next, Quiet
<1> QED BY <1>1, <1>2 DEF Accounted

LEMMA AccountedInit == Init => Accounted
<1> SUFFICES ASSUME Init PROVE Accounted
  OBVIOUS
<1>1. Sessions
  BY DEF Init, Sessions
<1>2. ASSUME NEW p \in Partitions, NEW o \in 0 .. Len(Backlog[p]) - 1
      PROVE  Budget(p, o)
  <2>1. Able(p, o) = {}
    BY DEF Init, Able
  <2>2. deliveries[<<p, o>>] = 0 /\ faults = 0
    <3>1. Len(Backlog[p]) \in Nat
      BY WorkersAssumption
    <3>2. <<p, o>> \in Requests
      BY <3>1, RequestOfOffset
    <3> QED BY <3>2 DEF Init
  <2> QED BY <2>1, <2>2, FS_EmptySet DEF Budget
<1> QED BY <1>1, <1>2 DEF Accounted

\* Every repeated generation has a cause: for any number of workers and
\* partitions, a record is handed out once more for at most one publish
\* failure, eviction, crash or cancelled session.  A rebalance hands a record
\* to one new owner, and only a fault starts one (Consume's loop).
THEOREM RedeliveriesHaveFaults == Spec => []RedeliveryNeedsAFault
<1>1. Init => Ownership
  BY WorkersAssumption DEF Init, Ownership
<1>2. TypeInv /\ TypeInv' /\ Ownership /\ Accounted /\ [Next]_vars => Accounted'
  BY AccountedStep
<1>3. TypeInv /\ Accounted => RedeliveryNeedsAFault
  <2> SUFFICES ASSUME TypeInv, Accounted, NEW r \in Requests PROVE deliveries[r] <= 1 + faults
    BY DEF RedeliveryNeedsAFault
  <2>1. PICK p \in Partitions : \E o \in 0 .. Len(Backlog[p]) - 1 : r = <<p, o>>
    BY DEF Requests
  <2>2. PICK o \in 0 .. Len(Backlog[p]) - 1 : r = <<p, o>>
    BY <2>1
  <2>3. /\ IsFiniteSet(Able(p, o))
        /\ deliveries[r] + Cardinality(Able(p, o)) + (IF Rebalancing THEN 1 ELSE 0) <= 1 + faults
    BY <2>2 DEF Accounted, Budget
  <2>4. Cardinality(Able(p, o)) \in Nat /\ deliveries[r] \in Nat /\ faults \in Int
    BY <2>3, FS_CardinalityType DEF TypeInv, TypeOK
  <2> QED BY <2>3, <2>4
<1> QED BY <1>1, <1>2, <1>3, AccountedInit, TypeCorrect, OwnershipStep, PTL DEF Spec

=============================================================================
