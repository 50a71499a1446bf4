---------------------------- MODULE WorkerProofs ----------------------------
(***************************************************************************)
(* Proofs about Worker, for any number of workers, partitions, records,    *)
(* slots, attempts, chunks and faults.                                     *)
(***************************************************************************)
EXTENDS Worker, TLAPS

\* A claim in one of these places has taken the record at its position.
Working == SlotHolders \cup {"quarantine", "slot", "marking"}

\* A claim may be at place l with position o: its record exists when it works
\* on one, and its handler branch is the one of the record's kind.
Fits(p, o, l) ==
  /\ o <= Len(Backlog[p])
  /\ l \in Working => o < Len(Backlog[p])
  /\ l = "quarantine" => Kind(p, o) = "poison"
  /\ l \in SlotHolders \cup {"slot"} => Kind(p, o) # "poison"

AtRecord ==
  /\ \A w \in Workers, p \in Partitions : Fits(p, pos[w][p], pc[w][p])
  /\ \A p \in Partitions :
       /\ committed[p] <= Len(Backlog[p]) /\ arrived[p] <= Len(Backlog[p])
       /\ opened[p] <= Len(Backlog[p])

TypeInv == TypeOK /\ AtRecord

LEMMA RequestOfOffset ==
  ASSUME NEW p \in Partitions, NEW o \in Nat, o < Len(Backlog[p])
  PROVE  <<p, o>> \in Requests
<1>1. Len(Backlog[p]) \in Nat
  BY WorkersAssumption
<1>2. o \in 0 .. Len(Backlog[p]) - 1
  BY <1>1
<1> QED BY <1>2 DEF Requests

LEMMA TypeInvInit == Init => TypeInv
<1> SUFFICES ASSUME Init PROVE TypeInv
  OBVIOUS
<1>1. \A p \in Partitions : Len(Backlog[p]) \in Nat
  BY WorkersAssumption
<1>2. TypeOK
  BY WorkersAssumption DEF Init, TypeOK, NoJob, Jobs, Places
<1>3. AtRecord
  BY <1>1 DEF Init, AtRecord, Fits, Working, SlotHolders
<1> QED BY <1>2, <1>3 DEF TypeInv

-----------------------------------------------------------------------------
(* What the helpers of the actions do to the types. *)

LEMMA CurrentIsRequest ==
  ASSUME TypeInv, NEW w \in Workers, NEW p \in Partitions, pc[w][p] \in Working
  PROVE  Current(w, p) \in Requests
<1>1. pos[w][p] \in Nat /\ pos[w][p] < Len(Backlog[p])
  BY DEF TypeInv, TypeOK, AtRecord, Fits
<1> QED BY <1>1, RequestOfOffset DEF Current

LEMMA PublishType ==
  ASSUME TypeInv, NEW w \in Workers, NEW out, Publish(w, out)
  PROVE  out.ok \in BOOLEAN /\ out.stored \in BOOLEAN /\ faults' \in 0 .. MaxFaults
BY WorkersAssumption DEF Publish, TypeInv, TypeOK

LEMMA PublishEventType ==
  ASSUME TypeInv, NEW w \in Workers, NEW p \in Partitions, pc[w][p] \in Working,
         NEW type \in {"started", "raw_sse", "heartbeat", "completed", "failed"},
         NEW seq \in Nat, NEW count \in Nat, NEW out,
         PublishEvent(w, p, type, seq, count, out)
  PROVE  /\ out.ok \in BOOLEAN
         /\ faults' \in 0 .. MaxFaults
         /\ events' \in [Requests -> Seq(Events)]
         /\ results' \subseteq Results /\ misled' \subseteq Requests
<1>1. out.ok \in BOOLEAN /\ faults' \in 0 .. MaxFaults
  BY PublishType DEF PublishEvent
<1>2. job[w][p] \in Jobs
  BY DEF TypeInv, TypeOK
<1> DEFINE e == [type |-> type, seq |-> seq, count |-> count,
                 delivery |-> job[w][p].delivery, attempt |-> job[w][p].attempt]
<1>3. e \in Events
  BY <1>2 DEF Jobs, Events
<1>4. Current(w, p) \in Requests
  BY CurrentIsRequest
<1>5. events \in [Requests -> Seq(Events)]
  BY DEF TypeInv, TypeOK
<1>6. events' = events \/ events' = [events EXCEPT ![Current(w, p)] = Append(@, e)]
  BY DEF PublishEvent
<1>7. Append(events[Current(w, p)], e) \in Seq(Events)
  BY <1>3, <1>4, <1>5
<1>8. events' \in [Requests -> Seq(Events)]
  BY <1>4, <1>5, <1>6, <1>7
<1> QED BY <1>1, <1>8 DEF PublishEvent, TypeInv, TypeOK

LEMMA PublishResultType ==
  ASSUME TypeInv, NEW w \in Workers, NEW p \in Partitions, pc[w][p] \in Working,
         NEW topic \in {"completed", "failed", "dlq"}, NEW out,
         PublishResult(w, p, topic, out)
  PROVE  /\ out.ok \in BOOLEAN
         /\ faults' \in 0 .. MaxFaults
         /\ events' \in [Requests -> Seq(Events)]
         /\ results' \subseteq Results /\ misled' \subseteq Requests
<1>1. out.ok \in BOOLEAN /\ faults' \in 0 .. MaxFaults
  BY PublishType DEF PublishResult
<1>2. job[w][p] \in Jobs
  BY DEF TypeInv, TypeOK
<1>3. Current(w, p) \in Requests
  BY CurrentIsRequest
<1>4. [request |-> Current(w, p), topic |-> topic,
       delivery |-> job[w][p].delivery, attempt |-> job[w][p].attempt] \in Results
  BY <1>2, <1>3 DEF Jobs, Results
<1>5. results' \subseteq Results
  BY <1>4 DEF PublishResult, TypeInv, TypeOK
<1>6. misled' \subseteq Requests
  BY <1>3 DEF PublishResult, TypeInv, TypeOK
<1>7. events' \in [Requests -> Seq(Events)]
  BY DEF PublishResult, TypeInv, TypeOK
<1> QED BY <1>1, <1>5, <1>6, <1>7

\* Wherever a claim goes, only its own pc changes.
LEMMA GoToType ==
  ASSUME TypeInv, NEW w \in Workers, NEW p \in Partitions, NEW l \in Places,
         GoTo(w, p, l)
  PROVE  /\ pc' \in [Workers -> [Partitions -> Places]]
         /\ sess' \in [Workers -> {"none", "live", "cancelled"}]
         /\ pc'[w][p] = l
         /\ \A v \in Workers, q \in Partitions : <<v, q>> # <<w, p>> => pc'[v][q] = pc[v][q]
BY DEF GoTo, TypeInv, TypeOK

LEMMA EndClaimType ==
  ASSUME TypeInv, NEW w \in Workers, NEW p \in Partitions, EndClaim(w, p)
  PROVE  /\ pc' \in [Workers -> [Partitions -> Places]]
         /\ sess' \in [Workers -> {"none", "live", "cancelled"}]
         /\ pc'[w][p] = "ended"
         /\ \A v \in Workers, q \in Partitions : <<v, q>> # <<w, p>> => pc'[v][q] = pc[v][q]
BY DEF EndClaim, Places, TypeInv, TypeOK

LEMMA RunFailedType ==
  ASSUME TypeInv, NEW w \in Workers, NEW p \in Partitions, NEW class,
         RunFailed(w, p, class)
  PROVE  /\ pc' \in [Workers -> [Partitions -> Places]]
         /\ sess' \in [Workers -> {"none", "live", "cancelled"}]
         /\ pc'[w][p] \in {"ended", "backoff", "failing"}
         /\ \A v \in Workers, q \in Partitions : <<v, q>> # <<w, p>> => pc'[v][q] = pc[v][q]
<1>1. CASE sess[w] = "cancelled"
  BY <1>1, EndClaimType DEF RunFailed
<1>2. CASE sess[w] # "cancelled"
  <2>1. \A l \in {"backoff", "failing"} : l \in Places
    BY DEF Places, SlotHolders
  <2>2. CASE class = "retryable" /\ job[w][p].attempt < MaxRetry
    <3>1. GoTo(w, p, "backoff")
      BY <1>2, <2>2 DEF RunFailed
    <3> QED BY <2>1, <3>1, GoToType
  <2>3. CASE ~(class = "retryable" /\ job[w][p].attempt < MaxRetry)
    <3>1. GoTo(w, p, "failing")
      BY <1>2, <2>3 DEF RunFailed
    <3> QED BY <2>1, <3>1, GoToType
  <2> QED BY <2>2, <2>3
<1> QED BY <1>1, <1>2

LEMMA SetJobType ==
  ASSUME TypeInv, NEW w \in Workers, NEW p \in Partitions, NEW j \in Jobs,
         SetJob(w, p, j)
  PROVE  job' \in [Workers -> [Partitions -> Jobs]]
BY DEF SetJob, TypeInv, TypeOK

-----------------------------------------------------------------------------
(* Every step preserves the types. *)

\* Handling one record moves a claim only between places that fit it.
LEMMA FitsWhileHandling ==
  ASSUME NEW p \in Partitions, NEW o \in Nat, NEW l \in SlotHolders \cup {"slot"},
         Fits(p, o, l),
         NEW m \in SlotHolders \cup {"slot", "marking", "ended"}
  PROVE  Fits(p, o, m)
BY DEF Fits, Working, SlotHolders

LEMMA ClaimKeepsAtRecord ==
  ASSUME TypeInv, NEW w \in Workers, NEW p \in Partitions, UNCHANGED Offsets,
         \A v \in Workers, q \in Partitions : <<v, q>> # <<w, p>> => pc'[v][q] = pc[v][q],
         Fits(p, pos[w][p], pc'[w][p])
  PROVE  AtRecord'
<1> USE DEF TypeInv, AtRecord, Offsets
<1>1. ASSUME NEW v \in Workers, NEW q \in Partitions
      PROVE  Fits(q, pos'[v][q], pc'[v][q])
  <2>1. CASE <<v, q>> = <<w, p>>
    BY <2>1
  <2>2. CASE <<v, q>> # <<w, p>>
    BY <2>2
  <2> QED BY <2>1, <2>2
<1> QED BY <1>1 DEF Fits, Kind

\* What a step of a claim leaves alone keeps its type.
LEMMA ClaimTypeOK ==
  ASSUME TypeInv, UNCHANGED Offsets,
         pc' \in [Workers -> [Partitions -> Places]],
         sess' \in [Workers -> {"none", "live", "cancelled"}],
         job' \in [Workers -> [Partitions -> Jobs]],
         events' \in [Requests -> Seq(Events)],
         results' \subseteq Results /\ misled' \subseteq Requests,
         deliveries' \in [Requests -> Nat],
         faults' \in 0 .. MaxFaults
  PROVE  TypeOK'
BY DEF TypeInv, TypeOK, Offsets

LEMMA AssignType == TypeInv /\ Assign => TypeInv'
<1> SUFFICES ASSUME TypeInv, Assign PROVE TypeInv'
  OBVIOUS
<1>0. PICK joined \in SUBSET {w \in Workers : sess[w] = "none"} \ {{}} :
        \E share \in [Partitions -> joined] :
         /\ owner' = share
         /\ sess' = [w \in Workers |-> IF w \in joined THEN "live" ELSE sess[w]]
         /\ pc' = [w \in Workers |-> [p \in Partitions |->
                     IF share[p] = w THEN "idle" ELSE pc[w][p]]]
         /\ pos' = [w \in Workers |-> [p \in Partitions |->
                     IF share[p] = w THEN StartOffset(p) ELSE pos[w][p]]]
         /\ base' = [p \in Partitions |-> StartOffset(p)]
  BY Zenon DEF Assign
<1>1. PICK share \in [Partitions -> joined] :
         /\ owner' = share
         /\ sess' = [w \in Workers |-> IF w \in joined THEN "live" ELSE sess[w]]
         /\ pc' = [w \in Workers |-> [p \in Partitions |->
                     IF share[p] = w THEN "idle" ELSE pc[w][p]]]
         /\ pos' = [w \in Workers |-> [p \in Partitions |->
                     IF share[p] = w THEN StartOffset(p) ELSE pos[w][p]]]
         /\ base' = [p \in Partitions |-> StartOffset(p)]
  BY <1>0
<1>4. \A p \in Partitions : StartOffset(p) \in Nat /\ StartOffset(p) <= Len(Backlog[p])
  BY DEF StartOffset, TypeInv, TypeOK, AtRecord
<1>5. opened' = [p \in Partitions |-> IF committed[p] = 0 THEN StartOffset(p) ELSE opened[p]]
  BY DEF Assign
<1>2. TypeOK'
  BY <1>1, <1>4, <1>5 DEF TypeInv, TypeOK, Assign, Log, Places
<1>3. AtRecord'
  BY <1>1, <1>4, <1>5
  DEF TypeInv, TypeOK, Assign, AtRecord, Fits, Kind, Working, SlotHolders
<1> QED BY <1>2, <1>3 DEF TypeInv

LEMMA ArriveType ==
  ASSUME TypeInv, NEW p \in Partitions, Arrive(p)
  PROVE  TypeInv'
<1>0. \A q \in Partitions : Len(Backlog[q]) \in Nat
  BY WorkersAssumption
<1>1. TypeOK'
  BY DEF Arrive, TypeInv, TypeOK, Log
<1>2. AtRecord'
  BY <1>0 DEF Arrive, TypeInv, TypeOK, AtRecord, Fits, Kind
<1> QED BY <1>1, <1>2 DEF TypeInv

LEMMA GroupType ==
  ASSUME TypeInv, NEW w \in Workers,
         Revoke(w) \/ Cancel(w) \/ AutoCommit(w) \/ EndSession(w) \/ Evict(w) \/ Crash(w)
  PROVE  TypeInv'
<1>0. \A p \in Partitions : Len(Backlog[p]) \in Nat
  BY WorkersAssumption
<1>1. CASE Revoke(w)
  BY <1>1 DEF Revoke, TypeInv, TypeOK, AtRecord, Fits, Kind, Offsets, Log
<1>2. CASE Cancel(w)
  BY <1>2, WorkersAssumption DEF Cancel, TypeInv, TypeOK, AtRecord, Fits, Kind, Offsets, Log
<1>3. CASE AutoCommit(w)
  BY <1>3 DEF AutoCommit, Commit, Marked, TypeInv, TypeOK, AtRecord, Fits, Kind, Log
<1>4. CASE EndSession(w)
  <2>1. committed' \in [Partitions -> Nat] /\ \A p \in Partitions : committed'[p] <= Len(Backlog[p])
    <3>1. ASSUME Commit(w) PROVE committed' \in [Partitions -> Nat]
      BY <3>1 DEF Commit, TypeInv, TypeOK
    <3>2. ASSUME Commit(w), NEW p \in Partitions PROVE committed'[p] <= Len(Backlog[p])
      BY <3>2 DEF Commit, TypeInv, TypeOK, AtRecord, Fits
    <3>3. CASE UNCHANGED committed
      BY <3>3 DEF TypeInv, TypeOK, AtRecord
    <3> QED BY <1>4, <3>1, <3>2, <3>3 DEF EndSession
  <2>2. TypeOK'
    BY <1>4, <2>1 DEF EndSession, TypeInv, TypeOK, Log, Places, NoJob, Jobs
  <2>3. AtRecord'
    BY <1>0, <1>4, <2>1
    DEF EndSession, TypeInv, TypeOK, AtRecord, Fits, Kind, Working, SlotHolders
  <2> QED BY <2>2, <2>3 DEF TypeInv
<1>5. CASE Evict(w)
  BY <1>5, WorkersAssumption DEF Evict, TypeInv, TypeOK, AtRecord, Fits, Kind, Log
<1>6. CASE Crash(w)
  <2>1. TypeOK'
    BY <1>6, WorkersAssumption DEF Crash, TypeInv, TypeOK, Log, Places, NoJob, Jobs
  <2>2. AtRecord'
    BY <1>0, <1>6 DEF Crash, TypeInv, TypeOK, AtRecord, Fits, Kind, Working, SlotHolders
  <2> QED BY <2>1, <2>2 DEF TypeInv
<1> QED BY <1>1, <1>2, <1>3, <1>4, <1>5, <1>6

LEMMA ClaimType ==
  ASSUME TypeInv, NEW w \in Workers, NEW p \in Partitions,
         ClaimStep(w, p) \/ AcquireSlot(w, p)
  PROVE  TypeInv'
<1> DEFINE j == job[w][p]
           Rest == \A v \in Workers, q \in Partitions : <<v, q>> # <<w, p>> => pc'[v][q] = pc[v][q]
           Moved == /\ pc' \in [Workers -> [Partitions -> Places]]
                    /\ sess' \in [Workers -> {"none", "live", "cancelled"}]
                    /\ Rest
<1>1. /\ j \in Jobs
      /\ pos[w][p] \in Nat /\ Len(Backlog[p]) \in Nat
      /\ Fits(p, pos[w][p], pc[w][p])
      /\ MaxRetry \in Nat
  BY WorkersAssumption DEF TypeInv, TypeOK, AtRecord
<1>2. SlotHolders \cup {"none", "idle", "quarantine", "slot", "marking", "ended"} = Places
  BY DEF Places
\* The end of every step that keeps the offsets: the place it reached fits.
<1>3. ASSUME UNCHANGED Offsets, Moved, Fits(p, pos[w][p], pc'[w][p]),
             job' \in [Workers -> [Partitions -> Jobs]],
             events' \in [Requests -> Seq(Events)], results' \subseteq Results /\ misled' \subseteq Requests,
             deliveries' \in [Requests -> Nat], faults' \in 0 .. MaxFaults
      PROVE  TypeInv'
  BY <1>3, ClaimTypeOK, ClaimKeepsAtRecord DEF TypeInv
<1>4. /\ job \in [Workers -> [Partitions -> Jobs]]
      /\ events \in [Requests -> Seq(Events)] /\ results \subseteq Results /\ misled \subseteq Requests
      /\ deliveries \in [Requests -> Nat] /\ faults \in 0 .. MaxFaults
  BY DEF TypeInv, TypeOK
<1>5. CASE Fetch(w, p)
  <2> DEFINE l == IF Kind(p, pos[w][p]) = "poison" THEN "quarantine" ELSE "slot"
  <2>1. l \in Places
    BY DEF Places
  <2>2. Moved /\ pc'[w][p] = l
    BY <1>5, <2>1, GoToType DEF Fetch
  <2>9. pos[w][p] < Len(Backlog[p])
    BY <1>1, <1>5 DEF Fetch, TypeInv, TypeOK, AtRecord
  <2>3. Fits(p, pos[w][p], l)
    BY <1>1, <2>9 DEF Fits, SlotHolders
  <2>4. Current(w, p) \in Requests
    BY <1>1, <2>9, RequestOfOffset DEF Current
  <2>5. deliveries' \in [Requests -> Nat]
    BY <1>4, <1>5, <2>4 DEF Fetch
  <2>6. [NoJob EXCEPT !.delivery = deliveries[Current(w, p)] + 1] \in Jobs
    BY <1>4, <2>4 DEF NoJob, Jobs
  <2>7. job' \in [Workers -> [Partitions -> Jobs]]
    BY <1>5, <2>6, SetJobType DEF Fetch
  <2>8. UNCHANGED <<Offsets, Log, faults>>
    BY <1>5 DEF Fetch
  <2> QED BY <1>3, <1>4, <2>2, <2>3, <2>5, <2>7, <2>8 DEF Log
<1>6. CASE Interrupt(w, p)
  <2>1. Moved /\ pc'[w][p] = "ended"
    BY <1>6, EndClaimType DEF Interrupt
  <2>2. Fits(p, pos[w][p], "ended")
    BY <1>1 DEF Fits, Working, SlotHolders
  <2> QED BY <1>3, <1>4, <1>6, <2>1, <2>2 DEF Interrupt, Log
<1>7. CASE Quarantine(w, p)
  <2>1. PICK out \in PublishOutcomes :
          /\ PublishResult(w, p, "dlq", out)
          /\ IF out.ok THEN GoTo(w, p, "marking") ELSE EndClaim(w, p)
    BY <1>7 DEF Quarantine
  <2>2. pc[w][p] \in Working
    BY <1>7 DEF Quarantine, Working
  <2>3. Moved /\ pc'[w][p] \in {"marking", "ended"}
    BY <2>1, <1>2, GoToType, EndClaimType
  <2>4. \A l \in {"marking", "ended"} : Fits(p, pos[w][p], l)
    BY <1>1, <1>7, <2>2 DEF Quarantine, Fits, Working, SlotHolders
  <2>5. Fits(p, pos[w][p], pc'[w][p])
    BY <2>3, <2>4
  <2> QED BY <1>3, <1>4, <1>7, <2>1, <2>2, <2>3, <2>5, PublishResultType DEF Quarantine
<1>8. CASE Mark(w, p)
  <2>1. /\ pos' = [pos EXCEPT ![w][p] = @ + 1] /\ GoTo(w, p, "idle") /\ SetJob(w, p, NoJob)
        /\ UNCHANGED <<owner, committed, base, opened, arrived, Log, deliveries, faults>>
        /\ pos[w][p] < Len(Backlog[p])
    BY <1>1, <1>8 DEF Mark, Fits, Working
  <2>2. Moved /\ pc'[w][p] = "idle"
    BY <2>1, <1>2, GoToType
  <2>3. NoJob \in Jobs
    BY DEF NoJob, Jobs
  <2>4. job' \in [Workers -> [Partitions -> Jobs]]
    BY <2>1, <2>3, SetJobType
  <2>5. TypeOK'
    <3>1. pos' \in [Workers -> [Partitions -> Nat]]
      BY <1>1, <2>1 DEF TypeInv, TypeOK
    <3>2. UNCHANGED <<owner, committed, base, opened, arrived, events, results, misled, deliveries,
                     faults>>
      BY <2>1 DEF Log
    <3> QED BY <2>2, <2>4, <3>1, <3>2 DEF TypeInv, TypeOK
  <2>7. Fits(p, pos[w][p] + 1, "idle")
    BY <1>1, <2>1 DEF Fits, Working, SlotHolders
  <2>8. ASSUME NEW v \in Workers, NEW q \in Partitions
        PROVE  Fits(q, pos'[v][q], pc'[v][q])
    <3>1. CASE <<v, q>> = <<w, p>>
      BY <2>1, <2>2, <2>7, <3>1 DEF TypeInv, TypeOK
    <3>2. CASE <<v, q>> # <<w, p>>
      BY <2>1, <2>2, <3>2 DEF TypeInv, TypeOK, AtRecord
    <3> QED BY <3>1, <3>2
  <2>6. AtRecord'
    BY <2>1, <2>8 DEF TypeInv, AtRecord, Fits, Kind
  <2> QED BY <2>5, <2>6 DEF TypeInv
\* The other steps handle a record that is not poison.
<1>9. ASSUME pc[w][p] \in SlotHolders \cup {"slot"}, UNCHANGED Offsets, Moved,
             pc'[w][p] \in SlotHolders \cup {"slot", "marking", "ended"},
             job' \in [Workers -> [Partitions -> Jobs]],
             events' \in [Requests -> Seq(Events)], results' \subseteq Results /\ misled' \subseteq Requests,
             deliveries' = deliveries, faults' \in 0 .. MaxFaults
      PROVE  TypeInv'
  <2>1. Fits(p, pos[w][p], pc'[w][p])
    BY <1>1, <1>9, FitsWhileHandling
  <2> QED BY <1>3, <1>4, <1>9, <2>1
<1>10. CASE AcquireSlot(w, p)
  <2>1. Moved /\ pc'[w][p] = "begin"
    BY <1>2, <1>10, GoToType DEF AcquireSlot, SlotHolders
  <2>2. [j EXCEPT !.attempt = 1] \in Jobs
    BY <1>1 DEF Jobs
  <2>3. job' \in [Workers -> [Partitions -> Jobs]]
    BY <1>10, <2>2, SetJobType DEF AcquireSlot
  <2> QED BY <1>4, <1>9, <1>10, <2>1, <2>3 DEF AcquireSlot, Log, SlotHolders
<1>11. CASE Decode(w, p)
  <2>1. Moved /\ pc'[w][p] \in {"ended", "backoff", "failing"}
    BY <1>11, RunFailedType DEF Decode
  <2>2. [j EXCEPT !.err = "retryable"] \in Jobs
    BY <1>1 DEF Jobs
  <2>3. job' \in [Workers -> [Partitions -> Jobs]]
    BY <1>11, <2>2, SetJobType DEF Decode
  <2> QED BY <1>4, <1>9, <1>11, <2>1, <2>3 DEF Decode, Log, SlotHolders
<1>12. CASE Start(w, p)
  <2> DEFINE seq == j.seq + 1
  <2>1. PICK out \in PublishOutcomes :
          /\ PublishEvent(w, p, "started", seq, 0, out)
          /\ IF out.ok THEN GoTo(w, p, "stream") ELSE RunFailed(w, p, "retryable")
          /\ SetJob(w, p, [j EXCEPT !.seq = seq, !.chunks = 0, !.beats = 0,
                      !.err = IF out.ok THEN "none" ELSE "retryable"])
    BY <1>12 DEF Start
  <2>2. seq \in Nat /\ j.seq \in Nat /\ j.chunks \in Nat /\ pc[w][p] \in Working
    BY <1>1, <1>12 DEF Start, Jobs, Working, SlotHolders
  <2>3. /\ out.ok \in BOOLEAN /\ faults' \in 0 .. MaxFaults
        /\ events' \in [Requests -> Seq(Events)] /\ results' \subseteq Results /\ misled' \subseteq Requests
    BY <2>1, <2>2, PublishEventType
  <2>4. Moved /\ pc'[w][p] \in {"stream", "ended", "backoff", "failing"}
    BY <2>1, <1>2, GoToType, RunFailedType, EndClaimType DEF SlotHolders
  <2>5. job' \in [Workers -> [Partitions -> Jobs]]
    <3>1. [j EXCEPT !.seq = seq, !.chunks = 0, !.beats = 0,
                      !.err = IF out.ok THEN "none" ELSE "retryable"] \in Jobs
      BY <1>1, <2>2, <2>3 DEF Jobs
    <3> QED BY <2>1, <3>1, SetJobType
  <2> QED BY <1>4, <1>9, <1>12, <2>3, <2>4, <2>5 DEF Start, SlotHolders
<1>13. CASE Chunk(w, p)
  <2> DEFINE seq == j.seq + 1
  <2>1. PICK out \in PublishOutcomes :
          /\ PublishEvent(w, p, "raw_sse", seq, 0, out)
          /\ IF out.ok
             THEN GoTo(w, p, "stream") /\ SetJob(w, p, [j EXCEPT !.seq = seq, !.chunks = @ + 1])
             ELSE RunFailed(w, p, "retryable") /\ SetJob(w, p, [j EXCEPT !.seq = seq, !.err = "retryable"])
    BY <1>13 DEF Chunk
  <2>2. seq \in Nat /\ j.seq \in Nat /\ j.chunks \in Nat /\ pc[w][p] \in Working
    BY <1>1, <1>13 DEF Chunk, Jobs, Working, SlotHolders
  <2>3. /\ out.ok \in BOOLEAN /\ faults' \in 0 .. MaxFaults
        /\ events' \in [Requests -> Seq(Events)] /\ results' \subseteq Results /\ misled' \subseteq Requests
    BY <2>1, <2>2, PublishEventType
  <2>4. Moved /\ pc'[w][p] \in {"stream", "ended", "backoff", "failing"}
    BY <2>1, <1>2, GoToType, RunFailedType, EndClaimType DEF SlotHolders
  <2>5. job' \in [Workers -> [Partitions -> Jobs]]
    <3>1. [j EXCEPT !.seq = seq, !.chunks = @ + 1] \in Jobs
      <4> DEFINE k == [j EXCEPT !.seq = seq]
      <4>1. k \in Jobs
        BY <1>1, <2>2 DEF Jobs
      <4>2. ASSUME NEW n \in Nat PROVE [k EXCEPT !.chunks = n] \in Jobs
        <5> HIDE DEF k
        <5> QED BY <4>1 DEF Jobs
      <4>3. j.chunks + 1 \in Nat
        BY <2>2
      <4>4. [k EXCEPT !.chunks = j.chunks + 1] \in Jobs
        <5> HIDE DEF k
        <5> QED BY <4>2, <4>3
      <4> QED BY Zenon, <4>4
    <3>2. [j EXCEPT !.seq = seq, !.err = "retryable"] \in Jobs
      BY <1>1, <2>2, <2>3 DEF Jobs
    <3> QED BY <2>1, <3>1, <3>2, SetJobType
  <2> QED BY <1>4, <1>9, <1>13, <2>3, <2>4, <2>5 DEF Chunk, SlotHolders
<1>14. CASE Heartbeat(w, p)
  <2> DEFINE seq == j.seq + 1
  <2>1. PICK out \in PublishOutcomes :
          /\ PublishEvent(w, p, "heartbeat", seq, 0, out)
          /\ IF out.ok
             THEN GoTo(w, p, "stream") /\ SetJob(w, p, [j EXCEPT !.beats = @ + 1])
             ELSE RunFailed(w, p, "retryable") /\ SetJob(w, p, [j EXCEPT !.err = "retryable"])
    BY <1>14 DEF Heartbeat
  <2>2. seq \in Nat /\ j.seq \in Nat /\ j.chunks \in Nat /\ pc[w][p] \in Working
    BY <1>1, <1>14 DEF Heartbeat, Jobs, Working, SlotHolders
  <2>3. /\ out.ok \in BOOLEAN /\ faults' \in 0 .. MaxFaults
        /\ events' \in [Requests -> Seq(Events)] /\ results' \subseteq Results /\ misled' \subseteq Requests
    BY <2>1, <2>2, PublishEventType
  <2>4. Moved /\ pc'[w][p] \in {"stream", "ended", "backoff", "failing"}
    BY <2>1, <1>2, GoToType, RunFailedType, EndClaimType DEF SlotHolders
  <2>5. job' \in [Workers -> [Partitions -> Jobs]]
    <3>1. [j EXCEPT !.beats = @ + 1] \in Jobs
      BY <1>1 DEF Jobs
    <3>2. [j EXCEPT !.err = "retryable"] \in Jobs
      BY <1>1 DEF Jobs
    <3> QED BY <2>1, <3>1, <3>2, SetJobType
  <2> QED BY <1>4, <1>9, <1>14, <2>3, <2>4, <2>5 DEF Heartbeat, SlotHolders
<1>15. CASE StreamEnd(w, p)
  <2>1. PICK result \in {"none", "retryable", "fatal"} :
          LET err == IF result = "none" /\ j.chunks = 0 THEN "retryable" ELSE result
          IN /\ IF err = "none" THEN GoTo(w, p, "completing") ELSE RunFailed(w, p, err)
             /\ SetJob(w, p, [j EXCEPT !.err = err])
    BY <1>15 DEF StreamEnd
  <2> DEFINE err == IF result = "none" /\ j.chunks = 0 THEN "retryable" ELSE result
  <2>2. Moved /\ pc'[w][p] \in {"completing", "ended", "backoff", "failing"}
    BY <2>1, <1>2, GoToType, RunFailedType DEF SlotHolders
  <2>3. [j EXCEPT !.err = err] \in Jobs
    BY <1>1 DEF Jobs
  <2>4. job' \in [Workers -> [Partitions -> Jobs]]
    BY <2>1, <2>3, SetJobType
  <2> QED BY <1>4, <1>9, <1>15, <2>2, <2>4 DEF StreamEnd, Log, SlotHolders
<1>16. CASE Complete(w, p)
  <2> DEFINE seq == j.seq + 1
  <2>1. PICK out \in PublishOutcomes :
          /\ PublishEvent(w, p, "completed", seq, j.chunks, out)
          /\ IF out.ok THEN GoTo(w, p, "aggregating") ELSE RunFailed(w, p, "retryable")
          /\ SetJob(w, p, [j EXCEPT !.seq = seq,
                      !.err = IF out.ok THEN "none" ELSE "retryable"])
    BY <1>16 DEF Complete
  <2>2. seq \in Nat /\ j.seq \in Nat /\ j.chunks \in Nat /\ pc[w][p] \in Working
    BY <1>1, <1>16 DEF Complete, Jobs, Working, SlotHolders
  <2>3. /\ out.ok \in BOOLEAN /\ faults' \in 0 .. MaxFaults
        /\ events' \in [Requests -> Seq(Events)] /\ results' \subseteq Results /\ misled' \subseteq Requests
    BY <2>1, <2>2, PublishEventType
  <2>4. Moved /\ pc'[w][p] \in {"aggregating", "ended", "backoff", "failing"}
    BY <2>1, <1>2, GoToType, RunFailedType, EndClaimType DEF SlotHolders
  <2>5. job' \in [Workers -> [Partitions -> Jobs]]
    <3>1. [j EXCEPT !.seq = seq,
                      !.err = IF out.ok THEN "none" ELSE "retryable"] \in Jobs
      BY <1>1, <2>2, <2>3 DEF Jobs
    <3> QED BY <2>1, <3>1, SetJobType
  <2> QED BY <1>4, <1>9, <1>16, <2>3, <2>4, <2>5 DEF Complete, SlotHolders
<1>17. CASE Aggregate(w, p)
  <2> DEFINE seq == j.seq + 1
  <2>1. PICK out \in PublishOutcomes :
          /\ PublishResult(w, p, "completed", out)
          /\ IF out.ok THEN GoTo(w, p, "marking") ELSE RunFailed(w, p, "retryable")
          /\ SetJob(w, p, [j EXCEPT !.err = IF out.ok THEN "none" ELSE "retryable"])
    BY <1>17 DEF Aggregate
  <2>2. seq \in Nat /\ j.seq \in Nat /\ j.chunks \in Nat /\ pc[w][p] \in Working
    BY <1>1, <1>17 DEF Aggregate, Jobs, Working, SlotHolders
  <2>3. /\ out.ok \in BOOLEAN /\ faults' \in 0 .. MaxFaults
        /\ events' \in [Requests -> Seq(Events)] /\ results' \subseteq Results /\ misled' \subseteq Requests
    BY <2>1, <2>2, PublishResultType
  <2>4. Moved /\ pc'[w][p] \in {"marking", "ended", "backoff", "failing"}
    BY <2>1, <1>2, GoToType, RunFailedType, EndClaimType DEF SlotHolders
  <2>5. job' \in [Workers -> [Partitions -> Jobs]]
    <3>1. [j EXCEPT !.err = IF out.ok THEN "none" ELSE "retryable"] \in Jobs
      BY <1>1, <2>2, <2>3 DEF Jobs
    <3> QED BY <2>1, <3>1, SetJobType
  <2> QED BY <1>4, <1>9, <1>17, <2>3, <2>4, <2>5 DEF Aggregate, SlotHolders
<1>18. CASE Retry(w, p)
  <2>1. Moved /\ pc'[w][p] = "begin"
    BY <1>2, <1>18, GoToType DEF Retry, SlotHolders
  <2>2. [j EXCEPT !.attempt = @ + 1] \in Jobs
    BY <1>1 DEF Jobs
  <2>3. job' \in [Workers -> [Partitions -> Jobs]]
    BY <1>18, <2>2, SetJobType DEF Retry
  <2> QED BY <1>4, <1>9, <1>18, <2>1, <2>3 DEF Retry, Log, SlotHolders
<1>19. CASE Fail(w, p)
  <2> DEFINE seq == j.seq + 1
  <2>1. PICK out \in PublishOutcomes :
          /\ PublishEvent(w, p, "failed", seq, 0, out)
          /\ IF out.ok THEN GoTo(w, p, "recording") ELSE EndClaim(w, p)
          /\ SetJob(w, p, [j EXCEPT !.seq = seq])
    BY <1>19 DEF Fail
  <2>2. seq \in Nat /\ j.seq \in Nat /\ j.chunks \in Nat /\ pc[w][p] \in Working
    BY <1>1, <1>19 DEF Fail, Jobs, Working, SlotHolders
  <2>3. /\ out.ok \in BOOLEAN /\ faults' \in 0 .. MaxFaults
        /\ events' \in [Requests -> Seq(Events)] /\ results' \subseteq Results /\ misled' \subseteq Requests
    BY <2>1, <2>2, PublishEventType
  <2>4. Moved /\ pc'[w][p] \in {"recording", "ended"}
    BY <2>1, <1>2, GoToType, RunFailedType, EndClaimType DEF SlotHolders
  <2>5. job' \in [Workers -> [Partitions -> Jobs]]
    <3>1. [j EXCEPT !.seq = seq] \in Jobs
      BY <1>1, <2>2, <2>3 DEF Jobs
    <3> QED BY <2>1, <3>1, SetJobType
  <2> QED BY <1>4, <1>9, <1>19, <2>3, <2>4, <2>5 DEF Fail, SlotHolders
<1>20. CASE RecordFailure(w, p)
  <2> DEFINE l == IF j.attempt >= MaxRetry /\ j.err = "retryable" THEN "deadletter" ELSE "marking"
  <2>1. PICK out \in PublishOutcomes :
          /\ PublishResult(w, p, "failed", out)
          /\ IF ~out.ok THEN EndClaim(w, p) ELSE GoTo(w, p, l)
    BY <1>20 DEF RecordFailure
  <2>2. pc[w][p] \in Working
    BY <1>20 DEF RecordFailure, Working, SlotHolders
  <2>3. l \in {"deadletter", "marking"} /\ l \in Places
    BY DEF Places, SlotHolders
  <2>4. Moved /\ pc'[w][p] \in {"deadletter", "marking", "ended"}
    BY <2>1, <2>3, GoToType, EndClaimType
  <2> QED BY <1>4, <1>9, <1>20, <2>1, <2>2, <2>4, PublishResultType DEF RecordFailure, SlotHolders
<1>21. CASE DeadLetter(w, p)
  <2>1. PICK out \in PublishOutcomes : PublishResult(w, p, "dlq", out)
    BY <1>21 DEF DeadLetter
  <2>2. pc[w][p] \in Working
    BY <1>21 DEF DeadLetter, Working, SlotHolders
  <2>3. Moved /\ pc'[w][p] = "marking"
    BY <1>2, <1>21, GoToType DEF DeadLetter
  <2> QED BY <1>4, <1>9, <1>21, <2>1, <2>2, <2>3, PublishResultType DEF DeadLetter, SlotHolders
<1> QED BY <1>5, <1>6, <1>7, <1>8, <1>10, <1>11, <1>12, <1>13, <1>14, <1>15, <1>16, <1>17, <1>18, <1>19, <1>20, <1>21 DEF ClaimStep

THEOREM TypeCorrect == Spec => []TypeInv
<1>1. Init => TypeInv
  BY TypeInvInit
<1>2. TypeInv /\ [Next]_vars => TypeInv'
  <2> SUFFICES ASSUME TypeInv, [Next]_vars PROVE TypeInv'
    OBVIOUS
  <2>1. CASE UNCHANGED vars
    BY <2>1 DEF vars, TypeInv, TypeOK, AtRecord, Fits, Kind
  <2>2. CASE Next
    BY <2>1, <2>2, AssignType, ArriveType, GroupType, ClaimType DEF Next, Quiet
  <2> QED BY <2>1, <2>2
<1> QED BY <1>1, <1>2, PTL DEF Spec

-----------------------------------------------------------------------------
(* The committed offset never moves back. *)

\* The owner of a partition, as the coordinator sees it, has a session that
\* claims it, and has not fallen behind the committed offset.
Ownership ==
  \A w \in Workers, p \in Partitions :
    owner[p] = w => pc[w][p] # "none" /\ committed[p] <= pos[w][p]

\* A step of a claim leaves every other claim where it is, and neither opens
\* nor closes a claim.
LEMMA ClaimMoves ==
  ASSUME TypeInv, NEW w \in Workers, NEW p \in Partitions,
         ClaimStep(w, p) \/ AcquireSlot(w, p)
  PROVE  /\ \A v \in Workers, q \in Partitions : <<v, q>> # <<w, p>> => pc'[v][q] = pc[v][q]
         /\ pc[w][p] # "none" /\ pc'[w][p] # "none"
<1>1. pc \in [Workers -> [Partitions -> Places]]
  BY DEF TypeInv, TypeOK
<1>2. ASSUME NEW l, GoTo(w, p, l), l # "none"
      PROVE  /\ \A v \in Workers, q \in Partitions : <<v, q>> # <<w, p>> => pc'[v][q] = pc[v][q]
             /\ pc'[w][p] # "none"
  BY <1>1, <1>2 DEF GoTo
<1>3. ASSUME EndClaim(w, p)
      PROVE  /\ \A v \in Workers, q \in Partitions : <<v, q>> # <<w, p>> => pc'[v][q] = pc[v][q]
             /\ pc'[w][p] # "none"
  BY <1>1, <1>3 DEF EndClaim
<1>4. ASSUME NEW class, RunFailed(w, p, class)
      PROVE  /\ \A v \in Workers, q \in Partitions : <<v, q>> # <<w, p>> => pc'[v][q] = pc[v][q]
             /\ pc'[w][p] # "none"
  BY <1>4, RunFailedType
<1>5. CASE Fetch(w, p) \/ AcquireSlot(w, p) \/ Retry(w, p) \/ Mark(w, p) \/ DeadLetter(w, p)
  BY <1>2, <1>5 DEF Fetch, AcquireSlot, Retry, Mark, DeadLetter
<1>6. CASE Interrupt(w, p) \/ Quarantine(w, p) \/ Fail(w, p) \/ RecordFailure(w, p)
  BY <1>2, <1>3, <1>6 DEF Interrupt, Quarantine, Fail, RecordFailure
<1>7. CASE Decode(w, p) \/ Start(w, p) \/ Chunk(w, p) \/ Heartbeat(w, p)
  BY <1>2, <1>4, <1>7 DEF Decode, Start, Chunk, Heartbeat
<1>8. CASE StreamEnd(w, p) \/ Complete(w, p) \/ Aggregate(w, p)
  BY <1>2, <1>4, <1>8 DEF StreamEnd, Complete, Aggregate
<1> QED BY <1>5, <1>6, <1>7, <1>8 DEF ClaimStep

\* The steps of a claim leave the owners and the group's offsets alone, and
\* move its own position forward or not at all.
LEMMA ClaimOffsets ==
  ASSUME TypeInv, NEW w \in Workers, NEW p \in Partitions,
         ClaimStep(w, p) \/ AcquireSlot(w, p)
  PROVE  /\ UNCHANGED <<owner, committed, opened>>
         /\ \/ UNCHANGED pos
            \/ pc[w][p] = "marking" /\ pc'[w][p] = "idle" /\ results' = results
               /\ pos' = [pos EXCEPT ![w][p] = @ + 1]
<1>1. CASE Mark(w, p)
  BY <1>1 DEF Mark, GoTo, TypeInv, TypeOK, Log
<1>2. CASE Fetch(w, p) \/ AcquireSlot(w, p) \/ Interrupt(w, p) \/ Quarantine(w, p)
           \/ Decode(w, p) \/ Start(w, p) \/ Chunk(w, p) \/ Heartbeat(w, p)
  BY <1>2 DEF Fetch, AcquireSlot, Interrupt, Quarantine, Decode, Start, Chunk, Heartbeat, Offsets
<1>3. CASE StreamEnd(w, p) \/ Complete(w, p) \/ Aggregate(w, p) \/ Retry(w, p)
           \/ Fail(w, p) \/ RecordFailure(w, p) \/ DeadLetter(w, p)
  BY <1>3 DEF StreamEnd, Complete, Aggregate, Retry, Fail, RecordFailure, DeadLetter, Offsets
<1> QED BY <1>1, <1>2, <1>3 DEF ClaimStep

LEMMA OwnershipStep == TypeInv /\ Ownership /\ [Next]_vars => Ownership'
<1> SUFFICES ASSUME TypeInv, Ownership, [Next]_vars PROVE Ownership'
  OBVIOUS
<1> USE DEF Ownership
<1>0. NoWorker \notin Workers
  BY WorkersAssumption
<1>1. CASE Assign
  <2>1. PICK joined \in SUBSET {w \in Workers : sess[w] = "none"} \ {{}} :
          \E share \in [Partitions -> joined] :
            /\ owner' = share
            /\ sess' = [w \in Workers |-> IF w \in joined THEN "live" ELSE sess[w]]
            /\ pc' = [w \in Workers |-> [p \in Partitions |->
                        IF share[p] = w THEN "idle" ELSE pc[w][p]]]
            /\ pos' = [w \in Workers |-> [p \in Partitions |->
                        IF share[p] = w THEN StartOffset(p) ELSE pos[w][p]]]
            /\ base' = [p \in Partitions |-> StartOffset(p)]
    BY Zenon, <1>1 DEF Assign
  <2>2. committed' = committed /\ committed \in [Partitions -> Nat]
    BY <1>1 DEF Assign, TypeInv, TypeOK
  <2>3. \A p \in Partitions : committed[p] <= StartOffset(p)
    BY DEF StartOffset, TypeInv, TypeOK
  <2> QED BY <2>1, <2>2, <2>3
<1>2. ASSUME NEW w \in Workers, Revoke(w) \/ Cancel(w)
      PROVE  Ownership'
  BY <1>2 DEF Revoke, Cancel, Offsets
<1>3. ASSUME NEW w \in Workers, AutoCommit(w)
      PROVE  Ownership'
  BY <1>0, <1>3 DEF AutoCommit, Commit, Marked, TypeInv, TypeOK
<1>4. ASSUME NEW w \in Workers, EndSession(w)
      PROVE  Ownership'
  <2>1. \A v \in Workers, p \in Partitions : owner'[p] = v => owner[p] = v /\ v # w
    BY <1>0, <1>4 DEF EndSession
  <2>2. \A v \in Workers, p \in Partitions :
          v # w => pc'[v][p] = pc[v][p] /\ pos'[v][p] = pos[v][p]
    BY <1>4 DEF EndSession, TypeInv, TypeOK
  <2>3. \A v \in Workers, p \in Partitions : owner[p] = v /\ v # w => committed'[p] = committed[p]
    BY <1>4 DEF EndSession, Commit, Marked
  <2> QED BY <2>1, <2>2, <2>3
<1>5. ASSUME NEW w \in Workers, Evict(w)
      PROVE  Ownership'
  BY <1>0, <1>5 DEF Evict
<1>6. ASSUME NEW w \in Workers, Crash(w)
      PROVE  Ownership'
  <2>1. \A v \in Workers, p \in Partitions : owner'[p] = v => owner[p] = v /\ v # w
    BY <1>0, <1>6 DEF Crash
  <2>2. \A v \in Workers, p \in Partitions :
          v # w => pc'[v][p] = pc[v][p] /\ pos'[v][p] = pos[v][p]
    BY <1>6 DEF Crash, TypeInv, TypeOK
  <2> QED BY <1>6, <2>1, <2>2 DEF Crash
<1>7. ASSUME NEW w \in Workers, NEW p \in Partitions, ClaimStep(w, p) \/ AcquireSlot(w, p)
      PROVE  Ownership'
  <2>1. UNCHANGED <<owner, committed>>
    BY <1>7, ClaimOffsets
  <2>2. \A v \in Workers, q \in Partitions : pc[v][q] # "none" => pc'[v][q] # "none"
    BY <1>7, ClaimMoves
  <2>4. committed \in [Partitions -> Nat] /\ pos \in [Workers -> [Partitions -> Nat]]
    BY DEF TypeInv, TypeOK
  <2>3. \A v \in Workers, q \in Partitions : pos'[v][q] \in Nat /\ pos[v][q] <= pos'[v][q]
    <3>1. pos' = pos \/ pos' = [pos EXCEPT ![w][p] = @ + 1]
      BY <1>7, ClaimOffsets
    <3> QED BY <2>4, <3>1
  <2> QED BY <2>1, <2>2, <2>3, <2>4
<1>8. CASE UNCHANGED vars
  BY <1>8 DEF vars
<1>9. CASE \E p \in Partitions : Arrive(p)
  BY <1>9 DEF Arrive
<1> QED BY <1>1, <1>2, <1>3, <1>4, <1>5, <1>6, <1>7, <1>8, <1>9 DEF Next, Quiet

\* Under the owner's commits, the only ones the broker takes, a partition's
\* committed offset only grows.
LEMMA CommitGrows ==
  ASSUME TypeInv, Ownership, [Next]_vars, NEW p \in Partitions
  PROVE  committed'[p] >= committed[p]
<1> committed \in [Partitions -> Nat] /\ pos \in [Workers -> [Partitions -> Nat]]
  BY DEF TypeInv, TypeOK
<1>1. ASSUME NEW w \in Workers, Commit(w) PROVE committed'[p] >= committed[p]
  BY <1>1 DEF Commit, Marked, Ownership
<1>2. CASE \E w \in Workers : AutoCommit(w) \/ EndSession(w)
  BY <1>1, <1>2 DEF AutoCommit, EndSession
<1>3. CASE Assign \/ UNCHANGED vars \/ (\E q \in Partitions : Arrive(q))
           \/ \E w \in Workers : Revoke(w) \/ Cancel(w) \/ Evict(w) \/ Crash(w)
  BY <1>3 DEF Assign, Arrive, vars, Revoke, Cancel, Evict, Crash, Offsets
<1>4. CASE \E w \in Workers, q \in Partitions : ClaimStep(w, q) \/ AcquireSlot(w, q)
  BY <1>4, ClaimOffsets
<1> QED BY <1>2, <1>3, <1>4 DEF Next, Quiet

\* A session that lost its partition, to a rebalance or to an eviction it does
\* not know of, never undoes the progress of the one that took over (Commit;
\* the broker's check of the group generation).
THEOREM CommittedNeverMovesBack == Spec => CommitNeverMovesBack
<1>1. Init => Ownership
  BY WorkersAssumption DEF Init, Ownership
<1>2. TypeInv /\ Ownership /\ [Next]_vars
        => [\A p \in Partitions : committed'[p] >= committed[p]]_committed
  BY CommitGrows
<1> QED BY <1>1, <1>2, TypeCorrect, OwnershipStep, PTL DEF Spec, CommitNeverMovesBack

-----------------------------------------------------------------------------
(* Every committed record is answered. *)

\* The record is answered, or Publish said so.
Covered(p, o) == Answered(p, o) \/ <<p, o>> \in misled

\* Why the committed offset is safe: everything between the group's start and
\* what the owner of a partition has marked is covered, and so is the record a
\* claim is about to mark.
Safe ==
  /\ \A w \in Workers, p \in Partitions : owner[p] = w =>
       \A o \in opened[p] .. pos[w][p] - 1 : Covered(p, o)
  /\ \A w \in Workers, p \in Partitions : pc[w][p] \in {"marking", "deadletter"} =>
       Covered(p, pos[w][p])
  /\ CommittedAreAnswered

\* An outcome, once stored or acknowledged, stays.
LEMMA CoveredStays ==
  ASSUME results \subseteq results', misled \subseteq misled',
         NEW p \in Partitions, NEW o, Covered(p, o)
  PROVE  Covered(p, o)'
BY DEF Covered, Answered, Answers, Kind

\* An acknowledged result is in its topic, or the record counts as misled.
LEMMA ResultAnswers ==
  ASSUME NEW w \in Workers, NEW p \in Partitions,
         NEW out \in PublishOutcomes, out.ok,
         NEW topic \in Answers(p, pos[w][p]), PublishResult(w, p, topic, out)
  PROVE  Covered(p, pos[w][p])' \/ pos' # pos
<1> SUFFICES ASSUME pos' = pos PROVE Covered(p, pos[w][p])'
  OBVIOUS
<1> DEFINE x == [request |-> Current(w, p), topic |-> topic,
                 delivery |-> job[w][p].delivery, attempt |-> job[w][p].attempt]
<1>1. CASE out.stored
  <2>1. x \in results'
    BY <1>1 DEF PublishResult
  <2>2. x.request = <<p, pos[w][p]>> /\ x.topic \in Answers(p, pos[w][p])
    BY DEF Current
  <2> QED BY <2>1, <2>2 DEF Covered, Answered, Answers, Kind
<1>2. CASE ~out.stored
  <2>1. <<p, pos[w][p]>> \in misled'
    BY <1>2 DEF PublishResult, Current
  <2> QED BY <2>1 DEF Covered
<1> QED BY <1>1, <1>2

LEMMA ResultsGrow ==
  ASSUME NEW w \in Workers, NEW p \in Partitions, ClaimStep(w, p) \/ AcquireSlot(w, p)
  PROVE  results \subseteq results' /\ misled \subseteq misled'
<1>1. CASE Fetch(w, p) \/ AcquireSlot(w, p) \/ Interrupt(w, p) \/ Mark(w, p)
           \/ Decode(w, p) \/ StreamEnd(w, p) \/ Retry(w, p)
  BY <1>1 DEF Fetch, AcquireSlot, Interrupt, Mark, Decode, StreamEnd, Retry, Log
<1>2. CASE Start(w, p) \/ Chunk(w, p) \/ Heartbeat(w, p) \/ Complete(w, p) \/ Fail(w, p)
  BY <1>2 DEF Start, Chunk, Heartbeat, Complete, Fail, PublishEvent
<1>3. CASE Quarantine(w, p) \/ Aggregate(w, p) \/ RecordFailure(w, p) \/ DeadLetter(w, p)
  BY <1>3 DEF Quarantine, Aggregate, RecordFailure, DeadLetter, PublishResult
<1> QED BY <1>1, <1>2, <1>3 DEF ClaimStep

\* A claim gets to MarkMessage only with an outcome of its record stored, or
\* with Publish's word for it.
LEMMA MarkingIsCovered ==
  ASSUME TypeInv, Safe, NEW w \in Workers, NEW p \in Partitions,
         ClaimStep(w, p) \/ AcquireSlot(w, p), pc'[w][p] \in {"marking", "deadletter"}
  PROVE  Covered(p, pos[w][p])'
<1>0. Fits(p, pos[w][p], pc[w][p]) /\ pc \in [Workers -> [Partitions -> Places]]
  BY DEF TypeInv, TypeOK, AtRecord
<1> DEFINE Landed == {"marking", "deadletter"}
<1>1. \A l : GoTo(w, p, l) => pc'[w][p] = l
  BY <1>0 DEF GoTo
<1>2. EndClaim(w, p) => pc'[w][p] \notin Landed
  BY <1>0 DEF EndClaim
<1>3. \A class : RunFailed(w, p, class) => pc'[w][p] \notin Landed
  BY RunFailedType
<1>4. ~ (\/ Fetch(w, p) \/ AcquireSlot(w, p) \/ Interrupt(w, p) \/ Mark(w, p)
         \/ Decode(w, p) \/ Start(w, p) \/ Chunk(w, p) \/ Heartbeat(w, p)
         \/ StreamEnd(w, p) \/ Complete(w, p) \/ Retry(w, p) \/ Fail(w, p))
  <2>1. ~ (Fetch(w, p) \/ AcquireSlot(w, p) \/ Mark(w, p) \/ Retry(w, p))
    BY <1>1 DEF Fetch, AcquireSlot, Mark, Retry
  <2>2. ~ (Interrupt(w, p) \/ Decode(w, p) \/ Fail(w, p))
    BY <1>1, <1>2, <1>3 DEF Interrupt, Decode, Fail
  <2>3. ~ (Start(w, p) \/ Chunk(w, p) \/ Heartbeat(w, p))
    BY <1>1, <1>3 DEF Start, Chunk, Heartbeat
  <2>4. ~ (StreamEnd(w, p) \/ Complete(w, p))
    BY <1>1, <1>3 DEF StreamEnd, Complete
  <2> QED BY <2>1, <2>2, <2>3, <2>4
<1>5. CASE Quarantine(w, p)
  <2>1. PICK out \in PublishOutcomes :
          /\ PublishResult(w, p, "dlq", out)
          /\ IF out.ok THEN GoTo(w, p, "marking") ELSE EndClaim(w, p)
    BY <1>5 DEF Quarantine
  <2>2. "dlq" \in Answers(p, pos[w][p])
    BY <1>0, <1>5 DEF Quarantine, Fits, Answers
  <2>3. pos' = pos
    BY <1>5 DEF Quarantine, Offsets
  <2> QED BY <1>2, <2>1, <2>2, <2>3, ResultAnswers
<1>6. CASE Aggregate(w, p)
  <2>1. PICK out \in PublishOutcomes :
          /\ PublishResult(w, p, "completed", out)
          /\ IF out.ok THEN GoTo(w, p, "marking") ELSE RunFailed(w, p, "retryable")
    BY <1>6 DEF Aggregate
  <2>2. "completed" \in Answers(p, pos[w][p])
    BY <1>0, <1>6 DEF Aggregate, Fits, Answers, SlotHolders
  <2>3. pos' = pos
    BY <1>6 DEF Aggregate, Offsets
  <2> QED BY <1>3, <2>1, <2>2, <2>3, ResultAnswers
<1>7. CASE RecordFailure(w, p)
  <2>1. PICK out \in PublishOutcomes :
          PublishResult(w, p, "failed", out) /\ (~out.ok => EndClaim(w, p))
    BY <1>7 DEF RecordFailure
  <2>2. "failed" \in Answers(p, pos[w][p])
    BY <1>0, <1>7 DEF RecordFailure, Fits, Answers, SlotHolders
  <2>3. pos' = pos
    BY <1>7 DEF RecordFailure, Offsets
  <2> QED BY <1>2, <2>1, <2>2, <2>3, ResultAnswers
<1>8. CASE DeadLetter(w, p)
  <2>1. Covered(p, pos[w][p]) /\ pos' = pos
    BY <1>8 DEF DeadLetter, Safe, Offsets
  <2>2. Covered(p, pos[w][p])'
    BY <2>1, CoveredStays, ResultsGrow
  <2> QED BY <2>2
<1> QED BY <1>4, <1>5, <1>6, <1>7, <1>8 DEF ClaimStep

LEMMA SafeStep ==
  ASSUME TypeInv, TypeInv', Safe, [Next]_vars
  PROVE  Safe'
<1>0. /\ committed \in [Partitions -> Nat] /\ pos \in [Workers -> [Partitions -> Nat]]
      /\ pc \in [Workers -> [Partitions -> Places]] /\ opened \in [Partitions -> Nat]
  BY DEF TypeInv, TypeOK
\* The steps of the consumer group: no claim gets to MarkMessage by them.
<1>1. ASSUME results' = results, misled' = misled, opened' = opened,
             \A v \in Workers, p \in Partitions :
               owner'[p] = v => owner[p] = v /\ pos'[v][p] = pos[v][p],
             \A v \in Workers, p \in Partitions :
               \/ pc'[v][p] = pc[v][p] /\ pos'[v][p] = pos[v][p]
               \/ pc'[v][p] = "none",
             \A p \in Partitions :
               \/ committed'[p] = committed[p]
               \/ \E v \in Workers : owner[p] = v /\ committed'[p] = pos[v][p]
      PROVE  Safe'
  <2>1. \A p, o : Covered(p, o)' = Covered(p, o)
    BY <1>1 DEF Covered, Answered, Answers, Kind
  <2>2. \A v \in Workers, p \in Partitions : owner'[p] = v =>
          \A o \in opened'[p] .. pos'[v][p] - 1 : Covered(p, o)
    BY <1>1 DEF Safe
  <2>3. \A v \in Workers, p \in Partitions : pc'[v][p] \in {"marking", "deadletter"} =>
          Covered(p, pos'[v][p])
    BY <1>1 DEF Safe
  <2>4. \A p \in Partitions : \A o \in opened'[p] .. committed'[p] - 1 : Covered(p, o)
    BY <1>1 DEF Safe, CommittedAreAnswered, Covered
  <2>5. CommittedAreAnswered'
    BY <2>1, <2>4 DEF CommittedAreAnswered, Covered
  <2> QED BY <2>1, <2>2, <2>3, <2>5 DEF Safe
<1>2. CASE Assign
  <2>1. PICK joined \in SUBSET {w \in Workers : sess[w] = "none"} \ {{}} :
          \E share \in [Partitions -> joined] :
            /\ owner' = share
            /\ sess' = [w \in Workers |-> IF w \in joined THEN "live" ELSE sess[w]]
            /\ pc' = [w \in Workers |-> [p \in Partitions |->
                        IF share[p] = w THEN "idle" ELSE pc[w][p]]]
            /\ pos' = [w \in Workers |-> [p \in Partitions |->
                        IF share[p] = w THEN StartOffset(p) ELSE pos[w][p]]]
            /\ base' = [p \in Partitions |-> StartOffset(p)]
    BY Zenon, <1>2 DEF Assign
  <2>2. /\ results' = results /\ misled' = misled /\ committed' = committed
        /\ opened' = [p \in Partitions |-> IF committed[p] = 0 THEN StartOffset(p) ELSE opened[p]]
    BY <1>2 DEF Assign, Log
  <2>3. \A p, o : Covered(p, o)' = Covered(p, o)
    BY <2>2 DEF Covered, Answered, Answers, Kind
  <2>4. \A v \in Workers, p \in Partitions :
          /\ owner'[p] = v => pos'[v][p] = StartOffset(p)
          /\ \/ pc'[v][p] = pc[v][p] /\ pos'[v][p] = pos[v][p]
             \/ pc'[v][p] = "idle"
    BY <2>1
  \* A group without an offset has nothing to answer for behind its start.
  <2>5. ASSUME NEW p \in Partitions
        PROVE  /\ \A o \in opened'[p] .. StartOffset(p) - 1 : Covered(p, o)
               /\ \A o \in opened'[p] .. committed[p] - 1 : Covered(p, o)
    <3>1. StartOffset(p) \in Nat /\ (committed[p] > 0 => StartOffset(p) = committed[p])
      BY <1>0 DEF StartOffset, TypeInv, TypeOK
    <3>2. CASE committed[p] = 0
      <4>1. opened'[p] = StartOffset(p)
        BY <2>2, <3>2
      <4>2. opened'[p] .. StartOffset(p) - 1 = {} /\ opened'[p] .. committed[p] - 1 = {}
        BY <3>1, <3>2, <4>1
      <4> QED BY <4>2
    <3>3. CASE committed[p] # 0
      <4>1. opened'[p] = opened[p] /\ StartOffset(p) = committed[p]
        BY <1>0, <2>2, <3>1, <3>3
      <4> QED BY <4>1 DEF Safe, CommittedAreAnswered, Covered
    <3> QED BY <3>2, <3>3
  <2>6. \A v \in Workers, p \in Partitions : owner'[p] = v =>
          \A o \in opened'[p] .. pos'[v][p] - 1 : Covered(p, o)
    BY <2>4, <2>5
  <2>7. \A v \in Workers, p \in Partitions : pc'[v][p] \in {"marking", "deadletter"} =>
          Covered(p, pos'[v][p])
    BY <2>4 DEF Safe
  <2>8. CommittedAreAnswered'
    BY <2>2, <2>3, <2>5 DEF CommittedAreAnswered, Covered
  <2> QED BY <2>3, <2>6, <2>7, <2>8 DEF Safe
<1>3. CASE (\E w \in Workers : Revoke(w) \/ Cancel(w)) \/ \E p \in Partitions : Arrive(p)
  BY <1>1, <1>3 DEF Revoke, Cancel, Arrive, Offsets, Log
<1>4. ASSUME NEW w \in Workers, Commit(w), NEW p \in Partitions
      PROVE  \/ committed'[p] = committed[p]
             \/ \E v \in Workers : owner[p] = v /\ committed'[p] = pos[v][p]
  BY <1>4 DEF Commit, Marked
<1>5. CASE \E w \in Workers : AutoCommit(w)
  BY <1>1, <1>4, <1>5 DEF AutoCommit, Log
<1>6. ASSUME NEW w \in Workers, EndSession(w) \/ Crash(w) \/ Evict(w)
      PROVE  Safe'
  <2>0. NoWorker \notin Workers
    BY WorkersAssumption
  <2>1. \A v \in Workers, p \in Partitions :
          \/ pc'[v][p] = pc[v][p] /\ pos'[v][p] = pos[v][p]
          \/ pc'[v][p] = "none"
    BY <1>0, <1>6 DEF EndSession, Crash, Evict
  <2>2. \A p \in Partitions :
          \/ committed'[p] = committed[p]
          \/ \E v \in Workers : owner[p] = v /\ committed'[p] = pos[v][p]
    BY <1>4, <1>6 DEF EndSession, Crash, Evict
  <2>3. \A v \in Workers, p \in Partitions : owner'[p] = v => owner[p] = v /\ v # w
    BY <1>6, <2>0 DEF EndSession, Crash, Evict
  <2>4. \A v \in Workers, p \in Partitions : v # w => pos'[v][p] = pos[v][p]
    BY <1>0, <1>6 DEF EndSession, Crash, Evict
  <2>5. results' = results /\ misled' = misled /\ opened' = opened
    BY <1>6 DEF EndSession, Crash, Evict, Log
  <2> QED BY <1>1, <2>1, <2>2, <2>3, <2>4, <2>5
<1>7. ASSUME NEW w \in Workers, NEW p \in Partitions, ClaimStep(w, p) \/ AcquireSlot(w, p)
      PROVE  Safe'
  <2>1. /\ results \subseteq results' /\ misled \subseteq misled'
        /\ committed' = committed /\ opened' = opened /\ owner' = owner
    BY <1>7, ResultsGrow, ClaimOffsets
  <2>2. \A v \in Workers, q \in Partitions : <<v, q>> # <<w, p>> => pc'[v][q] = pc[v][q]
    BY <1>7, ClaimMoves
  <2>4. \/ pos' = pos
        \/ pc[w][p] = "marking" /\ pc'[w][p] = "idle" /\ pos' = [pos EXCEPT ![w][p] = @ + 1]
    BY <1>7, ClaimOffsets
  <2>5. ASSUME NEW v \in Workers, NEW q \in Partitions, owner'[q] = v,
               NEW o \in opened'[q] .. pos'[v][q] - 1
        PROVE  Covered(q, o)'
    <3>1. CASE o \in opened[q] .. pos[v][q] - 1
      <4>1. Covered(q, o)
        BY <2>1, <2>5, <3>1 DEF Safe
      <4> QED BY <2>1, <4>1, CoveredStays
    <3>2. CASE o \notin opened[q] .. pos[v][q] - 1
      <4>1. v = w /\ q = p /\ pc[w][p] = "marking" /\ o = pos[w][p]
        BY <1>0, <2>1, <2>4, <2>5, <3>2
      <4>2. Covered(p, pos[w][p])
        BY <4>1 DEF Safe
      <4>3. Covered(q, o)
        BY <4>1, <4>2
      <4> QED BY <2>1, <4>3, CoveredStays
    <3> QED BY <3>1, <3>2
  <2>6. ASSUME NEW v \in Workers, NEW q \in Partitions, pc'[v][q] \in {"marking", "deadletter"}
        PROVE  Covered(q, pos[v][q])'
    <3>1. CASE <<v, q>> = <<w, p>>
      BY <1>7, <2>6, <3>1, MarkingIsCovered
    <3>2. CASE <<v, q>> # <<w, p>>
      <4>1. pc[v][q] \in {"marking", "deadletter"}
        BY <2>2, <2>6, <3>2
      <4>2. PICK o : o = pos[v][q]
        OBVIOUS
      <4>3. Covered(q, o) /\ pos'[v][q] = o
        BY <1>0, <2>4, <3>2, <4>1, <4>2 DEF Safe
      <4>4. Covered(q, o)'
        BY <2>1, <4>3, CoveredStays
      <4> QED BY <4>3, <4>4
    <3> QED BY <3>1, <3>2
  <2>7. CommittedAreAnswered'
    <3> SUFFICES ASSUME NEW q \in Partitions, NEW o \in opened[q] .. committed[q] - 1
                 PROVE  Covered(q, o)'
      BY <2>1 DEF CommittedAreAnswered, Covered
    <3>1. Covered(q, o)
      BY DEF Safe, CommittedAreAnswered, Covered
    <3> QED BY <2>1, <3>1, CoveredStays
  <2> QED BY <2>5, <2>6, <2>7 DEF Safe
<1>8. CASE UNCHANGED vars
  BY <1>1, <1>8 DEF vars
<1> QED BY <1>2, <1>3, <1>5, <1>6, <1>7, <1>8 DEF Next, Quiet

LEMMA SafeInit == Init => Safe
<1> SUFFICES ASSUME Init PROVE Safe
  OBVIOUS
<1>1. \A p \in Partitions : opened[p] .. committed[p] - 1 = {}
  BY DEF Init
<1> QED BY <1>1, WorkersAssumption DEF Init, Safe, CommittedAreAnswered

\* No request is lost but by the two ways CommittedAreAnswered names, a start at
\* the end of a partition (KAFKA_CONSUMER_START) and a nil of Publish for what is
\* not stored: for both starts, whatever Publish does, for any number of workers,
\* partitions and records and through any crashes, evictions and rebalances
\* (process before MarkMessage, MarkMessage before the commit).
THEOREM NoRequestIsLost == Spec => []CommittedAreAnswered
<1>1. TypeInv /\ TypeInv' /\ Safe /\ [Next]_vars => Safe'
  BY SafeStep
<1>2. Safe => CommittedAreAnswered
  BY DEF Safe
<1> QED BY <1>1, <1>2, SafeInit, TypeCorrect, PTL DEF Spec

-----------------------------------------------------------------------------
(* The worker group implements the at-least-once queue. *)

\* A group that starts at the oldest record leaves none behind.
OldestOpens == StartOldest => \A p \in Partitions : opened[p] = 0

LEMMA OldestStep == TypeInv /\ OldestOpens /\ [Next]_vars => OldestOpens'
<1> SUFFICES ASSUME TypeInv, OldestOpens, [Next]_vars PROVE OldestOpens'
  OBVIOUS
<1>1. CASE Assign
  <2>1. opened' = [p \in Partitions |-> IF committed[p] = 0 THEN StartOffset(p) ELSE opened[p]]
    BY <1>1 DEF Assign
  <2>2. \A p \in Partitions : StartOldest /\ committed[p] = 0 => StartOffset(p) = 0
    BY DEF StartOffset
  <2> QED BY <2>1, <2>2 DEF OldestOpens
<1>2. ASSUME opened' = opened PROVE OldestOpens'
  BY <1>2 DEF OldestOpens
<1>3. CASE UNCHANGED vars \/ (\E p \in Partitions : Arrive(p))
           \/ \E w \in Workers : \/ Revoke(w) \/ Cancel(w) \/ Evict(w) \/ Crash(w)
                                 \/ AutoCommit(w) \/ EndSession(w)
  BY <1>2, <1>3 DEF vars, Arrive, Revoke, Cancel, Evict, Crash, AutoCommit, EndSession, Offsets
<1>4. CASE \E w \in Workers, p \in Partitions : ClaimStep(w, p) \/ AcquireSlot(w, p)
  BY <1>2, <1>4, ClaimOffsets
<1> QED BY <1>1, <1>3, <1>4 DEF Next, Quiet

\* A step of a claim stores an outcome of the record it works on, or takes it
\* for stored on a promise that was not kept, or does nothing the queue can see.
LEMMA ClaimAnswers ==
  ASSUME TypeInv, NEW w \in Workers, NEW p \in Partitions,
         ClaimStep(w, p) \/ AcquireSlot(w, p)
  PROVE  \/ results' = results /\ misled' = misled
         \/ /\ pc[w][p] \in Working /\ misled' = misled
            /\ \A x \in results' \ results : x.request = Current(w, p)
         \/ /\ pc[w][p] \in Working /\ results' = results /\ ~PublishContract
            /\ misled' = misled \cup {Current(w, p)}
<1>1. ASSUME NEW topic, NEW out \in PublishOutcomes, PublishResult(w, p, topic, out),
             pc[w][p] \in Working
      PROVE  \/ /\ misled' = misled
                /\ \A x \in results' \ results : x.request = Current(w, p)
             \/ /\ results' = results /\ ~PublishContract
                /\ misled' = misled \cup {Current(w, p)}
  <2>1. CASE out.ok /\ ~out.stored
    BY <1>1, <2>1 DEF PublishResult, PublishContract
  <2>2. CASE ~(out.ok /\ ~out.stored)
    BY <1>1, <2>2 DEF PublishResult
  <2> QED BY <2>1, <2>2
<1>2. CASE Fetch(w, p) \/ AcquireSlot(w, p) \/ Interrupt(w, p) \/ Mark(w, p)
           \/ Decode(w, p) \/ StreamEnd(w, p) \/ Retry(w, p)
  BY <1>2 DEF Fetch, AcquireSlot, Interrupt, Mark, Decode, StreamEnd, Retry, Log
<1>3. CASE Start(w, p) \/ Chunk(w, p) \/ Heartbeat(w, p) \/ Complete(w, p) \/ Fail(w, p)
  BY <1>3 DEF Start, Chunk, Heartbeat, Complete, Fail, PublishEvent
<1>4. CASE Quarantine(w, p) \/ Aggregate(w, p) \/ RecordFailure(w, p) \/ DeadLetter(w, p)
  BY <1>1, <1>4
  DEF Quarantine, Aggregate, RecordFailure, DeadLetter, Working, SlotHolders
<1> QED BY <1>2, <1>3, <1>4 DEF ClaimStep

LEMMA AnsweredInit == Init => Abstract!Init
<1> SUFFICES ASSUME Init PROVE Abstract!Init
  OBVIOUS
<1>1. \A p \in Partitions : AnsweredOffsets[p] = {} /\ MisledOffsets[p] = {}
  BY DEF Init, AnsweredOffsets, MisledOffsets, Answered
<1> QED BY <1>1 DEF Init, Abstract!Init, AnsweredOffsets, MisledOffsets

LEMMA AbstractStep ==
  ASSUME TypeInv, TypeInv', Ownership, CommittedAreAnswered', OldestOpens, OldestOpens',
         [Next]_vars
  PROVE  [Abstract!Next]_(Abstract!vars)
<1> USE DEF Abstract!vars
<1>0. /\ \A q \in Partitions : Len(Backlog[q]) \in Nat
      /\ committed \in [Partitions -> Nat] /\ committed' \in [Partitions -> Nat]
      /\ opened \in [Partitions -> Nat] /\ opened' \in [Partitions -> Nat]
      /\ \A q \in Partitions : committed'[q] <= Len(Backlog[q]) /\ opened'[q] <= Len(Backlog[q])
      /\ \A q \in Partitions : committed[q] <= committed'[q]
  BY WorkersAssumption, CommitGrows DEF TypeInv, TypeOK, AtRecord
<1>1. ASSUME results' = results PROVE AnsweredOffsets' = AnsweredOffsets
  BY <1>1 DEF AnsweredOffsets, Answered, Answers, Kind
<1>m. ASSUME misled' = misled PROVE MisledOffsets' = MisledOffsets
  BY <1>m DEF MisledOffsets
<1>2. ASSUME results' = results, misled' = misled, opened' = opened PROVE Abstract!Advance
  <2>1. \A q \in Partitions :
          opened[q] .. committed'[q] - 1 \subseteq AnsweredOffsets[q] \cup MisledOffsets[q]
    <3>1. ASSUME NEW q \in Partitions, NEW o \in opened[q] .. committed'[q] - 1
          PROVE  o \in AnsweredOffsets[q] \cup MisledOffsets[q]
      <4>1. o \in 0 .. Len(Backlog[q]) - 1
        BY <1>0
      <4>2. Answered(q, o) \/ <<q, o>> \in misled
        BY <1>2 DEF CommittedAreAnswered, Answered, Answers, Kind
      <4> QED BY <4>1, <4>2 DEF AnsweredOffsets, MisledOffsets
    <3> QED BY <3>1
  <2>2. AnsweredOffsets' = AnsweredOffsets /\ MisledOffsets' = MisledOffsets
    BY <1>1, <1>m, <1>2
  <2>3. /\ committed' \in [Partitions -> Nat]
        /\ \A q \in Partitions :
             /\ committed[q] <= committed'[q] /\ committed'[q] <= Len(Backlog[q])
             /\ opened[q] .. committed'[q] - 1 \subseteq AnsweredOffsets[q] \cup MisledOffsets[q]
    BY <1>0, <2>1
  <2> QED BY <1>2, <2>2, <2>3 DEF Abstract!Advance
<1>3. ASSUME NEW w \in Workers, NEW p \in Partitions, ClaimStep(w, p) \/ AcquireSlot(w, p),
             results' # results
      PROVE  [Abstract!Next]_(Abstract!vars)
  <2>1. /\ pc[w][p] \in Working /\ misled' = misled
        /\ \A x \in results' \ results : x.request = Current(w, p)
    BY <1>3, ClaimAnswers
  <2>2. /\ results \subseteq results' /\ committed' = committed /\ opened' = opened
        /\ MisledOffsets' = MisledOffsets
    BY <1>3, <1>m, <2>1, ResultsGrow, ClaimOffsets
  <2>3. PICK o \in 0 .. Len(Backlog[p]) - 1 : o = pos[w][p]
    <3>1. pos[w][p] \in 0 .. Len(Backlog[p]) - 1
      BY <1>0, <2>1 DEF TypeInv, TypeOK, AtRecord, Fits
    <3> QED BY <3>1
  <2>4. \A q \in Partitions, n \in Nat : <<q, n>> # <<p, o>> => (Answered(q, n)' <=> Answered(q, n))
    BY <2>1, <2>2, <2>3 DEF Answered, Answers, Kind, Current
  <2>5. \A q \in Partitions, n \in Nat : Answered(q, n) => Answered(q, n)'
    BY <2>2 DEF Answered, Answers, Kind
  <2>6. CASE Answered(p, o) \/ ~Answered(p, o)'
    <3>1. ASSUME NEW q \in Partitions, NEW n \in 0 .. Len(Backlog[q]) - 1
          PROVE  Answered(q, n)' <=> Answered(q, n)
      <4>1. n \in Nat
        BY <1>0
      <4>2. CASE <<q, n>> = <<p, o>>
        BY <1>0, <2>5, <2>6, <4>1, <4>2
      <4>3. CASE <<q, n>> # <<p, o>>
        BY Zenon, <2>4, <4>1, <4>3
      <4> QED BY <4>2, <4>3
    <3>2. AnsweredOffsets' = AnsweredOffsets
      BY Zenon, <3>1 DEF AnsweredOffsets
    <3> QED BY <2>2, <3>2
  <2>7. CASE ~Answered(p, o) /\ Answered(p, o)'
    <3>4. ASSUME NEW q \in Partitions
          PROVE  {n \in 0 .. Len(Backlog[q]) - 1 : Answered(q, n)'} =
                   IF q = p THEN {n \in 0 .. Len(Backlog[q]) - 1 : Answered(q, n)} \cup {o}
                            ELSE {n \in 0 .. Len(Backlog[q]) - 1 : Answered(q, n)}
      <4>1. ASSUME NEW n \in 0 .. Len(Backlog[q]) - 1
            PROVE  Answered(q, n)' <=> (Answered(q, n) \/ <<q, n>> = <<p, o>>)
        <5>1. n \in Nat
          BY <1>0
        <5>2. CASE <<q, n>> = <<p, o>>
          BY <2>7, <5>2
        <5>3. CASE <<q, n>> # <<p, o>>
          BY Zenon, <2>4, <5>1, <5>3
        <5> QED BY <5>2, <5>3
      <4>2. CASE q = p
        BY <2>3, <4>1, <4>2
      <4>3. CASE q # p
        BY <4>1, <4>3
      <4> QED BY <4>2, <4>3
    <3>1. AnsweredOffsets' = [AnsweredOffsets EXCEPT ![p] = @ \cup {o}]
      BY <3>4 DEF AnsweredOffsets
    <3>2. Abstract!Answer(p, o)
      BY <2>2, <2>3, <3>1 DEF Abstract!Answer
    <3> QED BY <2>3, <3>2 DEF Abstract!Next
  <2> QED BY <2>6, <2>7
<1>7. ASSUME NEW w \in Workers, NEW p \in Partitions, ClaimStep(w, p) \/ AcquireSlot(w, p),
             results' = results, misled' # misled
      PROVE  [Abstract!Next]_(Abstract!vars)
  <2>1. /\ pc[w][p] \in Working /\ ~PublishContract
        /\ misled' = misled \cup {<<p, pos[w][p]>>}
    BY <1>7, ClaimAnswers DEF Current
  <2>2. AnsweredOffsets' = AnsweredOffsets /\ committed' = committed /\ opened' = opened
    BY <1>1, <1>7, ClaimOffsets
  <2>3. PICK o \in 0 .. Len(Backlog[p]) - 1 : o = pos[w][p]
    <3>1. pos[w][p] \in 0 .. Len(Backlog[p]) - 1
      BY <1>0, <2>1 DEF TypeInv, TypeOK, AtRecord, Fits
    <3> QED BY <3>1
  <2>4. misled' = misled \cup {<<p, o>>}
    BY <2>1, <2>3
  <2>5. ASSUME NEW q \in Partitions
        PROVE  {n \in 0 .. Len(Backlog[q]) - 1 : <<q, n>> \in misled'} =
                 IF q = p THEN {n \in 0 .. Len(Backlog[q]) - 1 : <<q, n>> \in misled} \cup {o}
                          ELSE {n \in 0 .. Len(Backlog[q]) - 1 : <<q, n>> \in misled}
    BY <2>3, <2>4
  <2>6. MisledOffsets' = [MisledOffsets EXCEPT ![p] = @ \cup {o}]
    BY <2>5 DEF MisledOffsets
  <2>7. Abstract!Mislead(p, o)
    BY <2>1, <2>2, <2>6 DEF Abstract!Mislead
  <2> QED BY <2>3, <2>7 DEF Abstract!Next
<1>4. CASE \E w \in Workers : AutoCommit(w) \/ EndSession(w)
  <2>1. results' = results /\ misled' = misled /\ opened' = opened
    BY <1>4 DEF AutoCommit, EndSession, Log
  <2> QED BY <1>2, <2>1 DEF Abstract!Next
<1>8. CASE Assign
  <2>1. /\ AnsweredOffsets' = AnsweredOffsets /\ MisledOffsets' = MisledOffsets
        /\ committed' = committed
    BY <1>1, <1>m, <1>8 DEF Assign, Log
  <2>2. opened' = [q \in Partitions |-> IF committed[q] = 0 THEN StartOffset(q) ELSE opened[q]]
    BY <1>8 DEF Assign
  <2>3. CASE StartOldest
    <3>1. opened' = opened
      BY <1>0, <2>3 DEF OldestOpens
    <3> QED BY <2>1, <3>1
  <2>4. CASE ~StartOldest
    <3>1. \A q \in Partitions : opened'[q] # opened[q] => committed[q] = 0
      BY <2>2
    <3>2. Abstract!SkipToEnd
      BY <1>0, <2>1, <2>4, <3>1 DEF Abstract!SkipToEnd
    <3> QED BY <3>2 DEF Abstract!Next
  <2> QED BY <2>3, <2>4
<1>5. CASE UNCHANGED vars \/ (\E q \in Partitions : Arrive(q))
           \/ \E w \in Workers : Revoke(w) \/ Cancel(w) \/ Evict(w) \/ Crash(w)
  <2>1. /\ results' = results /\ misled' = misled /\ opened' = opened
        /\ committed' = committed
    BY <1>5 DEF Arrive, vars, Revoke, Cancel, Evict, Crash, Offsets, Log
  <2> QED BY <1>1, <1>m, <2>1
<1>6. ASSUME NEW w \in Workers, NEW p \in Partitions, ClaimStep(w, p) \/ AcquireSlot(w, p),
             results' = results, misled' = misled
      PROVE  [Abstract!Next]_(Abstract!vars)
  BY <1>1, <1>m, <1>6, ClaimOffsets
<1> QED BY <1>3, <1>4, <1>5, <1>6, <1>7, <1>8 DEF Next, Quiet

\* What a producer of llm.requests may rely on: the worker group, with all its
\* sessions, retries and crashes, is an at-least-once queue, which leaves out a
\* record only where the configuration starts the group at the end of a
\* partition, and takes one for answered that is not only where Publish breaks
\* its promise.
THEOREM WorkerImplementsQueue == Spec => ImplementsAtLeastOnce
<1>1. Init => Ownership /\ OldestOpens
  BY WorkersAssumption DEF Init, Ownership, OldestOpens
<1>2. TypeInv /\ TypeInv' /\ Ownership /\ CommittedAreAnswered' /\ OldestOpens /\ OldestOpens'
        /\ [Next]_vars => [Abstract!Next]_(Abstract!vars)
  BY AbstractStep
<1> QED BY <1>1, <1>2, AnsweredInit, TypeCorrect, OwnershipStep, OldestStep, NoRequestIsLost, PTL
        DEF Spec, ImplementsAtLeastOnce, Abstract!Spec

\* With a producer that keeps its promise and a group that starts at the oldest
\* record there are no exceptions.
COROLLARY StrictlyAnswered ==
  ASSUME PublishContract, StartOldest
  PROVE  Spec => [](\A p \in Partitions : \A o \in 0 .. committed[p] - 1 : Answered(p, o))
<1> DEFINE Trusted == misled = {}
           Strict == \A p \in Partitions : \A o \in 0 .. committed[p] - 1 : Answered(p, o)
<1>1. Init => Trusted /\ OldestOpens
  BY DEF Init, OldestOpens
<1>2. TypeInv /\ Trusted /\ [Next]_vars => Trusted'
  <2> SUFFICES ASSUME TypeInv, Trusted, [Next]_vars PROVE misled' = misled
    OBVIOUS
  <2>1. ASSUME NEW w \in Workers, NEW p \in Partitions, ClaimStep(w, p) \/ AcquireSlot(w, p)
        PROVE  misled' = misled
    BY <2>1, ClaimAnswers
  <2>2. CASE UNCHANGED vars \/ Assign \/ (\E q \in Partitions : Arrive(q))
             \/ \E w \in Workers : \/ Revoke(w) \/ Cancel(w) \/ Evict(w) \/ Crash(w)
                                   \/ AutoCommit(w) \/ EndSession(w)
    BY <2>2
    DEF vars, Assign, Arrive, Revoke, Cancel, Evict, Crash, AutoCommit, EndSession, Log
  <2> QED BY <2>1, <2>2 DEF Next, Quiet
<1>3. Trusted /\ OldestOpens /\ CommittedAreAnswered => Strict
  BY DEF OldestOpens, CommittedAreAnswered
<1> QED BY <1>1, <1>2, <1>3, OldestStep, TypeCorrect, NoRequestIsLost, PTL DEF Spec
=============================================================================
