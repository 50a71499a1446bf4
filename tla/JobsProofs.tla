----------------------------- MODULE JobsProofs -----------------------------
(***************************************************************************)
(* Proofs about module Jobs: the sequence and the status of a settled job  *)
(* are those of its log.                                                   *)
(*                                                                         *)
(* What a step does to one job is said once, in the table Row; the three   *)
(* invariants that matter, Covered, Numbered and Decided, are then proved  *)
(* over the rows of the table and no longer over the actions.              *)
(***************************************************************************)
EXTENDS Jobs, TLAPS

Lasts == {"none", "started", "raw_sse", "completed", "failed"}

\* A post that has not created its job yet.
Early(c) == at[c] \in {"new", "claim", "ensure"}

\* Types, and what the places of the handlers imply.
WorkerStands == \A c \in Posts : worker[c].last \in Lasts

\* A post handles the job of its own id; before it has created the job there
\* is no job, no record and no event with that id.
Posting ==
  \A c \in Posts :
    /\ at[c] # "answered" => id[c] = c
    /\ Early(c) => ~Known(c) /\ requests[c] = 0 /\ events[c] = <<>>

\* A DELETE past its lookup handles a job that is known.
Deleting ==
  \A d \in Deletes :
    delete[d].at \in {"update", "publish"} => delete[d].id \in Posts /\ Known(delete[d].id)

\* A GET past its lookup recovers a job from events that are in its log.
Getting ==
  \A g \in Gets :
    /\ get[g].at \in {"read", "ensure", "apply"} => get[g].id \in Posts
    /\ get[g].at \in {"ensure", "apply"} =>
         1 <= get[g].len /\ get[g].len <= Len(events[get[g].id])
    /\ get[g].at = "apply" => 1 <= get[g].next /\ get[g].next <= get[g].len

\* The consumer's offsets.
Reading ==
  \A c \in Posts : committed[c] <= cursor[c] /\ cursor[c] <= Len(events[c])

Base == TypeOK /\ WorkerStands /\ Posting /\ Deleting /\ Getting /\ Reading

-----------------------------------------------------------------------------
Applying(g, c) == get[g].id = c /\ get[g].at = "apply"

\* A recovering GET is still to apply the event at i.
Awaited(c, i) == \E g \in Gets : Applying(g, c) /\ get[g].next <= i /\ i <= get[g].len

\* The event at i is the last one that sets a status.
Latest(c, i) ==
  /\ i \in DOMAIN events[c] /\ SetsStatus(events[c][i])
  /\ \A j \in DOMAIN events[c] : SetsStatus(events[c][j]) => j <= i
Silent(c) == \A j \in DOMAIN events[c] : ~SetsStatus(events[c][j])

\* No log is without a last event that sets a status but one without any.
Ended == \A c \in Posts : Silent(c) \/ \E i \in Nat : Latest(c, i)

\* The consumer or a recovering GET is still to apply the event at i.
Due(c, i) == i > cursor[c] \/ Awaited(c, i)

\* An event has been applied since the job was created or is due.
Covered ==
  \A c \in Posts : Known(c) /\ "gap" \notin flaws[c] =>
    \A i \in DOMAIN events[c] : i <= top[c] \/ Due(c, i)

\* The job's number is in its log or 0, and not below that of an event that is
\* not due.
Numbered ==
  \A c \in Posts : Known(c) =>
    /\ store[c].seq = 0 \/ \E i \in DOMAIN events[c] : store[c].seq = events[c][i].seq
    /\ "gap" \notin flaws[c] =>
         \A i \in DOMAIN events[c] : events[c][i].seq <= store[c].seq \/ Due(c, i)

\* The job has the status its log ends with,
Agrees(c) ==
  \/ Silent(c) /\ store[c].status = "queued"
  \/ \E i \in Nat : Latest(c, i) /\ store[c].status = StatusOf[events[c][i].type]
\* or the event that gives it is still to be applied,
Pending(c) == \E i \in Nat : Latest(c, i) /\ Due(c, i)
\* or a GET is behind an event applied before it and will say so,
Behind(c) == \E g \in Gets : Applying(g, c) /\ get[g].len < top[c]
\* or a DELETE has set the status and is to publish its event.
Cancelling(c) == \E d \in Deletes : delete[d].at = "publish" /\ delete[d].id = c

Decided ==
  \A c \in Posts : Known(c) /\ flaws[c] = {} =>
    Agrees(c) \/ Pending(c) \/ Behind(c) \/ Cancelling(c)

-----------------------------------------------------------------------------
(* Types. *)

JobRecords == [status : Statuses, seq : Nat]
DeleteRecords == [at : DeletePlaces, id : Posts \cup {None}, seq : Nat]
GetRecords == [at : GetPlaces, id : Posts \cup {None}, len : Nat, next : Nat]
WorkerRecords == [last : Types \cup {"none"}, seq : Nat]

\* An event that sets a status sets one that a known job has.
LEMMA StatusIsKnown ==
  ASSUME NEW e \in Events, SetsStatus(e)
  PROVE  StatusOf[e.type] \in Statuses \ {"none"}
BY DEF Events, Types, SetsStatus, StatusOf, Statuses

\* Applying an event to a known job leaves a known job.
LEMMA AppliedFacts ==
  ASSUME NEW j \in JobRecords, NEW e \in Events
  PROVE  /\ Applied(j, e) \in JobRecords
         /\ j.status # "none" => Applied(j, e).status # "none"
         /\ Applied(j, e).seq \in {j.seq, e.seq}
         /\ Applied(j, e).seq >= j.seq /\ Applied(j, e).seq >= e.seq
         /\ Applied(j, e).status = IF SetsStatus(e) THEN StatusOf[e.type] ELSE j.status
<1>1. j.seq \in Nat /\ j.status \in Statuses
  BY DEF JobRecords
<1>2. e.seq \in Nat
  BY DEF Events
<1>3. SetsStatus(e) => StatusOf[e.type] \in Statuses \ {"none"}
  BY StatusIsKnown
<1> QED  BY <1>1, <1>2, <1>3 DEF Applied, JobRecords

\* What a worker may publish next is an event it may stand at.
LEMMA FollowsLasts ==
  ASSUME NEW last \in Lasts
  PROVE  Follows(last) \subseteq Lasts /\ Follows(last) \subseteq Types
BY DEF Lasts, Follows, Types

LEMMA GetFacts ==
  ASSUME TypeOK, NEW g \in Gets
  PROVE  /\ get \in [Gets -> GetRecords] /\ get[g] \in GetRecords
         /\ get[g].at \in GetPlaces /\ get[g].id \in Posts \cup {None}
         /\ get[g].len \in Nat /\ get[g].next \in Nat
<1>1. get \in [Gets -> GetRecords]
  BY DEF TypeOK, GetRecords
<1>2. get[g] \in GetRecords
  BY <1>1
<1> QED  BY <1>1, <1>2 DEF GetRecords

LEMMA DeleteFacts ==
  ASSUME TypeOK, NEW d \in Deletes
  PROVE  /\ delete \in [Deletes -> DeleteRecords] /\ delete[d] \in DeleteRecords
         /\ delete[d].at \in DeletePlaces /\ delete[d].id \in Posts \cup {None}
         /\ delete[d].seq \in Nat
<1>1. delete \in [Deletes -> DeleteRecords]
  BY DEF TypeOK, DeleteRecords
<1>2. delete[d] \in DeleteRecords
  BY <1>1
<1> QED  BY <1>1, <1>2 DEF DeleteRecords

\* The next event of a recovering GET is in the log.
LEMMA NextIsRead ==
  ASSUME TypeOK, Getting, NEW g \in Gets, get[g].at = "apply"
  PROVE  /\ get[g].next \in DOMAIN events[get[g].id]
         /\ get[g].next \in Nat /\ get[g].len \in Nat
         /\ 1 <= get[g].next /\ get[g].next <= get[g].len
         /\ get[g].len <= Len(events[get[g].id])
<1> DEFINE log == events[get[g].id]
           i == get[g].next
           n == get[g].len
<1>1. get[g].id \in Posts
  BY DEF Getting
<1>2. DOMAIN log = 1 .. Len(log) /\ Len(log) \in Nat
  <2>1. events \in [Posts -> Seq(Events)]
    BY DEF TypeOK
  <2>2. log \in Seq(Events)
    BY <1>1, <2>1
  <2> HIDE DEF log
  <2> QED  BY <2>2
<1>3. i \in Nat /\ n \in Nat
  BY GetFacts
<1>4. 1 <= i /\ i <= n /\ n <= Len(log)
  BY DEF Getting
<1>5. i \in DOMAIN log
  <2> HIDE DEF log, i, n
  <2> QED  BY <1>2, <1>3, <1>4
<1> QED  BY <1>3, <1>4, <1>5

LEMMA FaultTypes ==
  ASSUME TypeOK, NEW out, Publish(out)
  PROVE  faults' \in 0 .. MaxFaults
<1>1. faults \in 0 .. MaxFaults /\ MaxFaults \in Nat
  BY JobsAssumption DEF TypeOK
<1>2. faults' = faults \/ (faults < MaxFaults /\ faults' = faults + 1)
  BY DEF Publish
<1> QED  BY <1>1, <1>2

LEMMA MoreFaults ==
  ASSUME TypeOK, faults < MaxFaults, faults' = faults + 1
  PROVE  faults' \in 0 .. MaxFaults
<1>1. faults \in 0 .. MaxFaults /\ MaxFaults \in Nat
  BY JobsAssumption DEF TypeOK
<1> QED  BY <1>1

\* The types of the store's calls.
LEMMA ApplyTypes ==
  ASSUME TypeOK, NEW c \in Posts, NEW i \in DOMAIN events[c], Apply(c, i)
  PROVE  /\ store' \in [Posts -> JobRecords]
         /\ top' \in [Posts -> Nat]
         /\ \A p \in Posts : Known(p) => Known(p)'
<1>1. /\ store \in [Posts -> JobRecords]
      /\ events \in [Posts -> Seq(Events)]
      /\ top \in [Posts -> Nat]
  BY DEF TypeOK, JobRecords
<1>2. events[c][i] \in Events /\ i \in Nat
  BY <1>1
<1>3. store[c] \in JobRecords
  BY <1>1
<1>4. /\ Applied(store[c], events[c][i]) \in JobRecords
      /\ store[c].status # "none" => Applied(store[c], events[c][i]).status # "none"
  BY <1>2, <1>3, AppliedFacts
<1>5. CASE Known(c)
  <2>1. store' = [store EXCEPT ![c] = Applied(store[c], events[c][i])]
    BY <1>5 DEF Apply
  <2>2. top' = [top EXCEPT ![c] = IF i > top[c] THEN i ELSE top[c]]
    BY <1>5 DEF Apply
  <2>3. top' \in [Posts -> Nat]
    BY <2>2, <1>1, <1>2
  <2>4. store' \in [Posts -> JobRecords]
    BY <2>1, <1>1, <1>4
  <2>5. \A p \in Posts : Known(p) => Known(p)'
    BY <2>1, <1>1, <1>4, <1>5 DEF Known
  <2> QED  BY <2>3, <2>4, <2>5
<1>6. CASE ~Known(c)
  <2>1. UNCHANGED <<store, top>>
    BY <1>6 DEF Apply
  <2> QED  BY <2>1, <1>1 DEF Known
<1> QED  BY <1>5, <1>6

Flaws == {"gap", "overtaken", "unlogged"}

LEMMA CreateTypes ==
  ASSUME TypeOK, NEW c \in Posts, NEW flaw \in SUBSET Flaws, Create(c, flaw)
  PROVE  /\ store' \in [Posts -> JobRecords]
         /\ top' \in [Posts -> Nat]
         /\ flaws' \in [Posts -> SUBSET Flaws]
         /\ \A p \in Posts : Known(p) => Known(p)'
<1>1. /\ store \in [Posts -> JobRecords]
      /\ flaws \in [Posts -> SUBSET Flaws]
      /\ top \in [Posts -> Nat]
  BY DEF TypeOK, JobRecords, Flaws
<1>2. CASE Known(c)
  BY <1>1, <1>2 DEF Create, jobs, Known
<1>3. CASE ~Known(c)
  <2>1. /\ store' = [store EXCEPT ![c] = [status |-> "queued", seq |-> 0]]
        /\ top' = [top EXCEPT ![c] = 0]
        /\ flaws' = [flaws EXCEPT ![c] = flaw]
    BY <1>3 DEF Create
  <2>2. [status |-> "queued", seq |-> 0] \in JobRecords
    BY DEF JobRecords, Statuses
  <2>3. store' \in [Posts -> JobRecords]
    BY <2>1, <2>2, <1>1
  <2>4. \A p \in Posts : Known(p) => Known(p)'
    BY <2>1, <1>1 DEF Known
  <2> QED  BY <2>1, <2>3, <2>4, <1>1
<1> QED  BY <1>2, <1>3

LEMMA SetStatusTypes ==
  ASSUME TypeOK, NEW c \in Posts, NEW s \in Statuses \ {"none"}, SetStatus(c, s)
  PROVE  /\ store' \in [Posts -> JobRecords]
         /\ \A p \in Posts : Known(p) => Known(p)'
<1>1. store \in [Posts -> JobRecords]
  BY DEF TypeOK, JobRecords
<1>2. [store[c] EXCEPT !.status = s] \in JobRecords
  BY <1>1 DEF JobRecords
<1>3. store' = IF Known(c) THEN [store EXCEPT ![c] = [store[c] EXCEPT !.status = s]] ELSE store
  BY DEF SetStatus
<1>4. store' \in [Posts -> JobRecords]
  BY <1>1, <1>2, <1>3
<1>5. [store[c] EXCEPT !.status = s].status = s
  BY <1>1 DEF JobRecords
<1>6. \A p \in Posts : Known(p) => Known(p)'
  BY <1>1, <1>3, <1>5 DEF Known
<1> QED  BY <1>4, <1>6

LEMMA FlawTypes ==
  ASSUME TypeOK, NEW c \in Posts, NEW flaw \in SUBSET Flaws, Flaw(c, flaw)
  PROVE  flaws' \in [Posts -> SUBSET Flaws]
BY DEF TypeOK, Flaw, Flaws

LEMMA EventTypes ==
  ASSUME TypeOK, NEW c \in Posts, NEW e \in Events,
         events' = [events EXCEPT ![c] = Append(@, e)]
  PROVE  /\ events' \in [Posts -> Seq(Events)]
         /\ \A p \in Posts : Len(events'[p]) >= Len(events[p])
         /\ \A p \in Posts : p # c => events'[p] = events[p]
<1>1. events \in [Posts -> Seq(Events)]
  BY DEF TypeOK
<1>2. Append(events[c], e) \in Seq(Events) /\ Len(Append(events[c], e)) = Len(events[c]) + 1
  BY <1>1
<1>3. \A p \in Posts : Len(events[p]) \in Nat
  BY <1>1
<1> QED  BY <1>1, <1>2, <1>3

LEMMA PublishTypes ==
  ASSUME TypeOK, NEW c \in Posts, NEW type \in Types, NEW seq \in Nat, NEW out \in Outcomes,
         PublishEvent(c, type, seq, out)
  PROVE  /\ events' \in [Posts -> Seq(Events)]
         /\ \A p \in Posts : Len(events'[p]) >= Len(events[p])
         /\ \A p \in Posts : p # c => events'[p] = events[p]
         /\ faults' \in 0 .. MaxFaults
<1>1. [type |-> type, seq |-> seq] \in Events
  BY DEF Events
<1>2. faults' \in 0 .. MaxFaults
  BY FaultTypes DEF PublishEvent
<1>3. CASE out.stored
  BY <1>1, <1>2, <1>3, EventTypes DEF PublishEvent
<1>4. CASE ~out.stored
  BY <1>2, <1>4 DEF PublishEvent, TypeOK
<1> QED  BY <1>3, <1>4

-----------------------------------------------------------------------------
(* Every variable keeps its type. *)

Typed == TypeOK /\ WorkerStands

\* The handler of a post goes on to another place.
LEMMA ToTypes ==
  ASSUME TypeOK, NEW c \in Posts, NEW l \in PostPlaces, To(c, l)
  PROVE  at' \in [Posts -> PostPlaces]
BY DEF TypeOK, To

LEMMA PostTypes ==
  ASSUME Typed, NEW c \in Posts,
         \/ Post(c) \/ Claim(c) \/ Ensure(c) \/ MarkQueued(c)
         \/ PublishRequest(c) \/ Announce(c)
  PROVE  Typed'
<1> USE DEF Typed
<1>0. id[c] \in Posts
  BY DEF TypeOK
<1>1. CASE Post(c)
  <2>1. CASE c \in Keyed /\ idem # None
    <3>1. idem \in Posts
      BY <2>1 DEF TypeOK
    <3>2. id' = [id EXCEPT ![c] = idem] /\ To(c, "answered")
      BY <1>1, <2>1 DEF Post, Reuse
    <3>3. at' \in [Posts -> PostPlaces]
      BY <3>2, ToTypes DEF PostPlaces
    <3>4. id' \in [Posts -> Posts]
      BY <3>1, <3>2 DEF TypeOK
    <3> QED  BY <1>1, <3>3, <3>4 DEF Post, TypeOK, WorkerStands, kafka, consumer, jobs
  <2>2. CASE ~(c \in Keyed /\ idem # None)
    <3>1. UNCHANGED id /\ To(c, IF c \in Keyed THEN "claim" ELSE "ensure")
      BY <1>1, <2>2 DEF Post
    <3>2. at' \in [Posts -> PostPlaces]
      BY <3>1, ToTypes DEF PostPlaces
    <3> QED  BY <1>1, <3>1, <3>2 DEF Post, TypeOK, WorkerStands, kafka, consumer, jobs
  <2> QED  BY <2>1, <2>2
<1>2. CASE Claim(c)
  <2>1. at' \in [Posts -> PostPlaces]
    BY <1>2, ToTypes DEF Claim, PostPlaces
  <2> QED  BY <1>2, <2>1 DEF Claim, TypeOK, WorkerStands, kafka, consumer, jobs
<1>3. CASE Ensure(c)
  <2>1. at' \in [Posts -> PostPlaces]
    BY <1>3, ToTypes DEF Ensure, PostPlaces
  <2>2. store' \in [Posts -> JobRecords] /\ top' \in [Posts -> Nat]
        /\ flaws' \in [Posts -> SUBSET Flaws]
    BY <1>0, <1>3, CreateTypes DEF Ensure
  <2> QED  BY <1>3, <2>1, <2>2 DEF Ensure, TypeOK, WorkerStands, kafka, consumer, JobRecords, Flaws
<1>4. CASE MarkQueued(c)
  <2>1. at' \in [Posts -> PostPlaces]
    BY <1>4, ToTypes DEF MarkQueued, PostPlaces
  <2>2. store' \in [Posts -> JobRecords]
    <3>1. "queued" \in Statuses \ {"none"}
      BY DEF Statuses
    <3>2. SetStatus(id[c], "queued")
      BY <1>4 DEF MarkQueued
    <3> QED  BY <1>0, <3>1, <3>2, SetStatusTypes
  <2>3. flaws' \in [Posts -> SUBSET Flaws]
    <3>1. (IF store[id[c]].status = "queued" THEN {} ELSE {"unlogged"}) \in SUBSET Flaws
      BY DEF Flaws
    <3> QED  BY <1>0, <1>4, <3>1, FlawTypes DEF MarkQueued
  <2> QED  BY <1>4, <2>1, <2>2, <2>3 DEF MarkQueued, TypeOK, WorkerStands, kafka, consumer, JobRecords, Flaws
<1>5. CASE PublishRequest(c)
  <2>1. PICK out \in Outcomes :
          /\ Publish(out)
          /\ requests' = IF out.stored THEN [requests EXCEPT ![id[c]] = @ + 1] ELSE requests
          /\ To(c, IF out.ok THEN "announce" ELSE "failed")
    BY <1>5 DEF PublishRequest
  <2>2. at' \in [Posts -> PostPlaces]
    BY <2>1, ToTypes DEF PostPlaces
  <2>3. faults' \in 0 .. MaxFaults
    BY <2>1, FaultTypes
  <2>4. requests' \in [Posts -> Nat]
    <3>1. requests \in [Posts -> Nat]
      BY DEF TypeOK
    <3>2. requests' = requests \/ requests' = [requests EXCEPT ![id[c]] = requests[id[c]] + 1]
      BY <2>1
    <3> QED  BY <1>0, <3>1, <3>2
  <2> QED  BY <1>5, <2>2, <2>3, <2>4 DEF PublishRequest, TypeOK, WorkerStands, consumer, jobs
<1>6. CASE Announce(c)
  <2>1. PICK out \in Outcomes : PublishEvent(id[c], "queued", 0, out)
    BY <1>6 DEF Announce
  <2>2. events' \in [Posts -> Seq(Events)] /\ faults' \in 0 .. MaxFaults
    BY <1>0, <2>1, PublishTypes DEF Types
  <2>3. at' \in [Posts -> PostPlaces]
    BY <1>6, ToTypes DEF Announce, PostPlaces
  <2> QED  BY <1>6, <2>2, <2>3 DEF Announce, TypeOK, WorkerStands, consumer, jobs
<1> QED  BY <1>1, <1>2, <1>3, <1>4, <1>5, <1>6

LEMMA WorkerTypes ==
  ASSUME Typed, NEW c \in Posts, WorkerEvent(c) \/ Redeliver(c)
  PROVE  Typed'
<1> USE DEF Typed
<1>0. /\ worker \in [Posts -> WorkerRecords]
      /\ worker[c].seq \in Nat /\ worker[c].last \in Lasts
      /\ \A p \in Posts : worker[p].last \in Lasts
  <2>1. worker \in [Posts -> WorkerRecords]
    BY DEF TypeOK, WorkerRecords
  <2>2. worker[c] \in WorkerRecords
    BY <2>1
  <2> QED  BY <2>1, <2>2 DEF WorkerRecords, WorkerStands
<1>1. CASE WorkerEvent(c)
  <2> DEFINE seq == worker[c].seq + 1
  <2>1. PICK type \in Follows(worker[c].last) :
          /\ IF worker[c].last = "completed"
             THEN faults < MaxFaults /\ faults' = faults + 1
             ELSE UNCHANGED faults
          /\ events' = [events EXCEPT ![c] = Append(@, [type |-> type, seq |-> seq])]
          /\ worker' = [worker EXCEPT ![c] = [last |-> type, seq |-> seq]]
    BY <1>1 DEF WorkerEvent
  <2>2. type \in Types /\ type \in Lasts /\ seq \in Nat
    BY <1>0, FollowsLasts
  <2> HIDE DEF seq
  <2>3. [type |-> type, seq |-> seq] \in Events
    BY <2>2 DEF Events
  <2>4. events' \in [Posts -> Seq(Events)]
    BY <2>1, <2>3, EventTypes
  <2>5. [last |-> type, seq |-> seq] \in WorkerRecords
    BY <2>2 DEF WorkerRecords
  <2>6. worker' \in [Posts -> WorkerRecords]
    BY <1>0, <2>1, <2>5
  <2>7. \A p \in Posts : worker'[p].last \in Lasts
    BY <1>0, <2>1, <2>2
  <2>8. faults' \in 0 .. MaxFaults
    BY <2>1, MoreFaults DEF TypeOK
  <2>9. UNCHANGED <<idem, at, id, requests, cursor, committed, store, top, flaws, delete, get>>
    BY <1>1 DEF WorkerEvent, client, consumer, jobs
  <2> QED  BY <2>4, <2>6, <2>7, <2>8, <2>9 DEF TypeOK, WorkerStands, WorkerRecords
<1>2. CASE Redeliver(c)
  <2>1. faults' \in 0 .. MaxFaults
    BY <1>2, MoreFaults DEF Redeliver
  <2>2. worker' = [worker EXCEPT ![c] = [last |-> "none", seq |-> 0]]
    BY <1>2 DEF Redeliver
  <2>3. [last |-> "none", seq |-> 0] \in WorkerRecords
    BY DEF WorkerRecords
  <2>4. worker' \in [Posts -> WorkerRecords]
    BY <1>0, <2>2, <2>3
  <2>5. \A p \in Posts : worker'[p].last \in Lasts
    BY <1>0, <2>2 DEF Lasts
  <2>6. UNCHANGED <<idem, at, id, requests, events, cursor, committed, store, top, flaws, delete, get>>
    BY <1>2 DEF Redeliver, client, consumer, jobs
  <2> QED  BY <2>1, <2>4, <2>5, <2>6 DEF TypeOK, WorkerStands, WorkerRecords
<1> QED  BY <1>1, <1>2

LEMMA ConsumerTypes ==
  ASSUME Typed, NEW c \in Posts, Consume(c) \/ AutoCommit(c) \/ Rewind(c)
  PROVE  Typed'
<1> USE DEF Typed
<1>1. CASE Consume(c)
  <2>1. cursor[c] \in Nat /\ Len(events[c]) \in Nat /\ DOMAIN events[c] = 1 .. Len(events[c])
    BY DEF TypeOK
  <2>2. cursor[c] + 1 \in DOMAIN events[c]
    BY <1>1, <2>1 DEF Consume
  <2>3. store' \in [Posts -> JobRecords] /\ top' \in [Posts -> Nat]
    BY <1>1, <2>2, ApplyTypes DEF Consume
  <2>4. cursor' \in [Posts -> Nat]
    BY <1>1 DEF Consume, TypeOK
  <2> QED  BY <1>1, <2>3, <2>4 DEF Consume, TypeOK, WorkerStands, client, kafka, JobRecords
<1>2. CASE AutoCommit(c)
  BY <1>2 DEF AutoCommit, TypeOK, WorkerStands, client, kafka, jobs
<1>3. CASE Rewind(c)
  <2>1. faults' \in 0 .. MaxFaults
    BY <1>3, MoreFaults DEF Rewind
  <2> QED  BY <1>3, <2>1 DEF Rewind, TypeOK, WorkerStands, client, kafka, jobs
<1> QED  BY <1>1, <1>2, <1>3

LEMMA DeleteTypes ==
  ASSUME Typed, Deleting, NEW d \in Deletes, CancelGet(d) \/ CancelUpdate(d) \/ CancelPublish(d)
  PROVE  Typed'
<1> USE DEF Typed
<1>0. /\ delete \in [Deletes -> DeleteRecords] /\ delete[d] \in DeleteRecords
      /\ delete[d].seq \in Nat
      /\ delete[d].at \in {"update", "publish"} => delete[d].id \in Posts
  BY DeleteFacts DEF Deleting
<1>d. DeleteAt("done") \in DeleteRecords
  BY DEF DeleteAt, DeleteRecords, DeletePlaces
<1>1. CASE CancelGet(d)
  <2>1. PICK c \in Answered :
          delete' = [delete EXCEPT ![d] =
            IF store[c].status \in {"queued", "running"}
            THEN [at |-> "update", id |-> c, seq |-> store[c].seq + 1]
            ELSE DeleteAt("done")]
    BY <1>1 DEF CancelGet
  <2>2. c \in Posts
    BY DEF Answered, TypeOK
  <2>3. store[c] \in JobRecords
    BY <2>2 DEF TypeOK, JobRecords
  <2>4. store[c].seq + 1 \in Nat
    BY <2>3 DEF JobRecords
  <2>5. [at |-> "update", id |-> c, seq |-> store[c].seq + 1] \in DeleteRecords
    BY <2>2, <2>4 DEF DeleteRecords, DeletePlaces
  <2>6. delete' \in [Deletes -> DeleteRecords]
    BY <1>0, <1>d, <2>1, <2>5
  <2> QED  BY <1>1, <2>6 DEF CancelGet, TypeOK, WorkerStands, client, kafka, consumer, jobs, DeleteRecords
<1>2. CASE CancelUpdate(d)
  <2>1. store' \in [Posts -> JobRecords]
    <3>1. "cancelled" \in Statuses \ {"none"}
      BY DEF Statuses
    <3>2. SetStatus(delete[d].id, "cancelled") /\ delete[d].at = "update"
      BY <1>2 DEF CancelUpdate
    <3>3. delete[d].id \in Posts
      BY <1>0, <3>2
    <3> QED  BY <3>1, <3>2, <3>3, SetStatusTypes
  <2>2. [delete[d] EXCEPT !.at = "publish"] \in DeleteRecords
    BY <1>0 DEF DeleteRecords, DeletePlaces
  <2>3. delete' \in [Deletes -> DeleteRecords]
    BY <1>0, <1>2, <2>2 DEF CancelUpdate
  <2> QED  BY <1>2, <2>1, <2>3 DEF CancelUpdate, TypeOK, WorkerStands, client, kafka, consumer, JobRecords, DeleteRecords
<1>3. CASE CancelPublish(d)
  <2>1. PICK out \in Outcomes :
          /\ PublishEvent(delete[d].id, "cancelled", delete[d].seq, out)
          /\ Flaw(delete[d].id, IF out.stored THEN {} ELSE {"unlogged"})
    BY <1>3 DEF CancelPublish
  <2>2. delete[d].id \in Posts /\ "cancelled" \in Types
    BY <1>0, <1>3 DEF CancelPublish, Types
  <2>3. events' \in [Posts -> Seq(Events)] /\ faults' \in 0 .. MaxFaults
    BY <1>0, <2>1, <2>2, PublishTypes
  <2>4. (IF out.stored THEN {} ELSE {"unlogged"}) \in SUBSET Flaws
    BY DEF Flaws
  <2>5. flaws' \in [Posts -> SUBSET Flaws]
    BY <2>1, <2>2, <2>4, FlawTypes
  <2>6. delete' \in [Deletes -> DeleteRecords]
    BY <1>0, <1>d, <1>3 DEF CancelPublish
  <2> QED  BY <1>3, <2>3, <2>5, <2>6 DEF CancelPublish, TypeOK, WorkerStands, client, consumer, Flaws, DeleteRecords
<1> QED  BY <1>1, <1>2, <1>3

LEMMA GetTypes ==
  ASSUME Typed, Getting, NEW g \in Gets, GetJob(g) \/ ReadAll(g) \/ Recreate(g) \/ ApplyNext(g)
  PROVE  Typed'
<1> USE DEF Typed
<1>0. /\ get \in [Gets -> GetRecords] /\ get[g] \in GetRecords
      /\ get[g].len \in Nat /\ get[g].next \in Nat
      /\ get[g].at \in {"read", "ensure", "apply"} => get[g].id \in Posts
  BY GetFacts DEF Getting
<1>d. GetAt("done") \in GetRecords
  BY DEF GetAt, GetRecords, GetPlaces
<1>1. CASE GetJob(g)
  <2>1. PICK c \in Answered :
          get' = [get EXCEPT ![g] = IF Known(c) THEN GetAt("done")
                                    ELSE [GetAt("read") EXCEPT !.id = c]]
    BY <1>1 DEF GetJob
  <2>2. c \in Posts
    BY DEF Answered, TypeOK
  <2>3. [GetAt("read") EXCEPT !.id = c] \in GetRecords
    BY <2>2 DEF GetAt, GetRecords, GetPlaces
  <2>4. get' \in [Gets -> GetRecords]
    BY <1>0, <1>d, <2>1, <2>3
  <2> QED  BY <1>1, <2>4 DEF GetJob, TypeOK, WorkerStands, client, kafka, consumer, jobs, GetRecords
<1>2. CASE ReadAll(g)
  <2>1. PICK n \in 0 .. Len(events[get[g].id]) :
          get' = [get EXCEPT ![g] = IF n = 0 THEN GetAt("done")
                                    ELSE [@ EXCEPT !.at = "ensure", !.len = n]]
    BY <1>2 DEF ReadAll
  <2>2. n \in Nat
    <3>1. get[g].id \in Posts
      BY <1>0, <1>2 DEF ReadAll
    <3>2. Len(events[get[g].id]) \in Nat
      BY <3>1 DEF TypeOK
    <3> QED  BY <3>2
  <2>3. [get[g] EXCEPT !.at = "ensure", !.len = n] \in GetRecords
    BY <1>0, <2>2 DEF GetRecords, GetPlaces
  <2>4. get' \in [Gets -> GetRecords]
    BY <1>0, <1>d, <2>1, <2>3
  <2> QED  BY <1>2, <2>4 DEF ReadAll, TypeOK, WorkerStands, client, kafka, consumer, jobs, GetRecords
<1>3. CASE Recreate(g)
  <2>1. (IF cursor[get[g].id] > get[g].len THEN {"gap"} ELSE {}) \in SUBSET Flaws
    BY DEF Flaws
  <2>2. store' \in [Posts -> JobRecords] /\ top' \in [Posts -> Nat]
        /\ flaws' \in [Posts -> SUBSET Flaws]
    BY <1>0, <1>3, <2>1, CreateTypes DEF Recreate
  <2>3. [get[g] EXCEPT !.at = "apply", !.next = 1] \in GetRecords
    BY <1>0 DEF GetRecords, GetPlaces
  <2>4. get' \in [Gets -> GetRecords]
    BY <1>0, <1>3, <2>3 DEF Recreate
  <2> QED  BY <1>3, <2>2, <2>4 DEF Recreate, TypeOK, WorkerStands, client, kafka, consumer, JobRecords, Flaws, GetRecords
<1>4. CASE ApplyNext(g)
  <2> DEFINE c == get[g].id
             i == get[g].next
  <2>1. /\ get[g].at = "apply" /\ Apply(c, i)
        /\ get' = [get EXCEPT ![g] = IF i = get[g].len THEN GetAt("done") ELSE [@ EXCEPT !.next = i + 1]]
        /\ Flaw(c, IF i = get[g].len /\ top[c] > i THEN {"overtaken"} ELSE {})
    BY <1>4 DEF ApplyNext
  <2>2. c \in Posts
    BY <1>0, <2>1
  <2>3. i \in DOMAIN events[c]
    BY <2>1, NextIsRead
  <2>4. store' \in [Posts -> JobRecords] /\ top' \in [Posts -> Nat]
    BY <2>1, <2>2, <2>3, ApplyTypes
  <2>5. (IF i = get[g].len /\ top[c] > i THEN {"overtaken"} ELSE {}) \in SUBSET Flaws
    BY DEF Flaws
  <2>6. flaws' \in [Posts -> SUBSET Flaws]
    BY <2>1, <2>2, <2>5, FlawTypes
  <2>7. [get[g] EXCEPT !.next = i + 1] \in GetRecords
    BY <1>0 DEF GetRecords
  <2>8. get' \in [Gets -> GetRecords]
    BY <1>0, <1>d, <2>1, <2>7
  <2>9. UNCHANGED <<client, kafka, consumer, delete, faults>>
    BY <1>4 DEF ApplyNext
  <2> QED  BY <2>4, <2>6, <2>8, <2>9 DEF TypeOK, WorkerStands, client, kafka, consumer, JobRecords, Flaws, GetRecords
<1> QED  BY <1>1, <1>2, <1>3, <1>4

LEMMA RestartTypes ==
  ASSUME Typed, Restart
  PROVE  Typed'
<1> USE DEF Typed
<1>1. at' \in [Posts -> PostPlaces]
  BY DEF Restart, TypeOK, PostPlaces
<1>2. delete' \in [Deletes -> DeleteRecords]
  <2>1. DeleteAt("done") \in DeleteRecords
    BY DEF DeleteAt, DeleteRecords, DeletePlaces
  <2> QED  BY <2>1 DEF Restart, TypeOK, DeleteRecords
<1>3. get' \in [Gets -> GetRecords]
  <2>1. GetAt("done") \in GetRecords
    BY DEF GetAt, GetRecords, GetPlaces
  <2> QED  BY <2>1 DEF Restart, TypeOK, GetRecords
<1>4. store' \in [Posts -> JobRecords]
  <2>1. NoJob \in JobRecords
    BY DEF NoJob, JobRecords, Statuses
  <2> QED  BY <2>1 DEF Restart
<1>5. faults' \in 0 .. MaxFaults
  BY MoreFaults DEF Restart
<1>6. idem' = None /\ cursor' = committed
  BY DEF Restart
<1>7. UNCHANGED <<id, requests, events, worker, committed, top, flaws>>
  BY DEF Restart, kafka
<1> QED
  BY <1>1, <1>2, <1>3, <1>4, <1>5, <1>6, <1>7
  DEF TypeOK, WorkerStands, DeleteRecords, GetRecords, JobRecords

LEMMA TypedStep ==
  ASSUME Typed, Deleting, Getting, [Next]_vars
  PROVE  Typed'
<1>1. CASE UNCHANGED vars
  BY <1>1 DEF Typed, TypeOK, WorkerStands, vars, client, kafka, consumer, jobs
<1>2. CASE Next
  BY <1>2, PostTypes, WorkerTypes, ConsumerTypes, DeleteTypes, GetTypes, RestartTypes DEF Next
<1> QED  BY <1>1, <1>2

-----------------------------------------------------------------------------
(* What the places of the handlers imply. *)

\* A job stays known until the process ends.
LEMMA KnownGrows ==
  ASSUME Base, [Next]_vars, ~Restart, NEW p \in Posts, Known(p)
  PROVE  Known(p)'
<1>0. TypeOK /\ Deleting /\ Getting /\ Reading
  BY DEF Base
<1>k. UNCHANGED store => Known(p)'
  BY DEF Known
<1>1. CASE UNCHANGED vars
  BY <1>1, <1>k DEF vars, jobs
<1>2. ASSUME NEW c \in Posts,
             \/ Post(c) \/ Claim(c) \/ Ensure(c) \/ MarkQueued(c)
             \/ PublishRequest(c) \/ Announce(c) \/ WorkerEvent(c) \/ Redeliver(c)
      PROVE  Known(p)'
  <2>0. id[c] \in Posts /\ "queued" \in Statuses \ {"none"}
    BY <1>0 DEF TypeOK, Statuses
  <2>1. CASE Ensure(c)
    BY <1>0, <2>0, <2>1, CreateTypes DEF Ensure
  <2>2. CASE MarkQueued(c)
    BY <1>0, <2>0, <2>2, SetStatusTypes DEF MarkQueued
  <2>3. CASE ~Ensure(c) /\ ~MarkQueued(c)
    BY <1>2, <2>3, <1>k
    DEF Post, Claim, PublishRequest, Announce, WorkerEvent, Redeliver, jobs
  <2> QED  BY <2>1, <2>2, <2>3
<1>3. ASSUME NEW c \in Posts, Consume(c) \/ AutoCommit(c) \/ Rewind(c)
      PROVE  Known(p)'
  <2>1. CASE Consume(c)
    <3>1. cursor[c] + 1 \in DOMAIN events[c]
      <4>1. cursor[c] \in Nat /\ Len(events[c]) \in Nat /\ DOMAIN events[c] = 1 .. Len(events[c])
        BY <1>0 DEF TypeOK
      <4> QED  BY <2>1, <4>1 DEF Consume
    <3> QED  BY <1>0, <2>1, <3>1, ApplyTypes DEF Consume
  <2>2. CASE ~Consume(c)
    BY <1>3, <2>2, <1>k DEF AutoCommit, Rewind, jobs
  <2> QED  BY <2>1, <2>2
<1>4. ASSUME NEW d \in Deletes, CancelGet(d) \/ CancelUpdate(d) \/ CancelPublish(d)
      PROVE  Known(p)'
  <2>1. CASE CancelUpdate(d)
    <3>1. delete[d].id \in Posts /\ SetStatus(delete[d].id, "cancelled")
      BY <1>0, <2>1 DEF CancelUpdate, Deleting
    <3>2. "cancelled" \in Statuses \ {"none"}
      BY DEF Statuses
    <3> QED  BY <1>0, <3>1, <3>2, SetStatusTypes
  <2>2. CASE ~CancelUpdate(d)
    BY <1>4, <2>2, <1>k DEF CancelGet, CancelPublish, jobs
  <2> QED  BY <2>1, <2>2
<1>5. ASSUME NEW g \in Gets, GetJob(g) \/ ReadAll(g) \/ Recreate(g) \/ ApplyNext(g)
      PROVE  Known(p)'
  <2>1. CASE Recreate(g)
    <3>1. get[g].id \in Posts
      BY <1>0, <2>1 DEF Recreate, Getting
    <3>2. (IF cursor[get[g].id] > get[g].len THEN {"gap"} ELSE {}) \in SUBSET Flaws
      BY DEF Flaws
    <3> QED  BY <1>0, <2>1, <3>1, <3>2, CreateTypes DEF Recreate
  <2>2. CASE ApplyNext(g)
    <3>1. get[g].at = "apply" /\ get[g].id \in Posts /\ Apply(get[g].id, get[g].next)
      BY <1>0, <2>2 DEF ApplyNext, Getting
    <3>2. get[g].next \in DOMAIN events[get[g].id]
      BY <1>0, <3>1, NextIsRead
    <3> QED  BY <1>0, <3>1, <3>2, ApplyTypes
  <2>3. CASE ~Recreate(g) /\ ~ApplyNext(g)
    BY <1>5, <2>3, <1>k DEF GetJob, ReadAll, jobs
  <2> QED  BY <2>1, <2>2, <2>3
<1> QED  BY <1>1, <1>2, <1>3, <1>4, <1>5 DEF Next

\* An event that comes is the last of its log, and a job whose post is early gains none.
Comes(c, e) == events' = [events EXCEPT ![c] = Append(@, e)]

LEMMA EventsCome ==
  ASSUME Base, [Next]_vars
  PROVE  \/ UNCHANGED events
         \/ \E c \in Posts, e \in Events : Comes(c, e) /\ ~Early(c) /\ UNCHANGED <<store, at>>
            /\ WorkerEvent(c)
         \/ \E c \in Posts, e \in Events : Comes(c, e) /\ Announce(c)
         \/ \E d \in Deletes, e \in Events : Comes(delete[d].id, e) /\ CancelPublish(d)
<1>0. TypeOK /\ WorkerStands /\ Deleting /\ Posting
  BY DEF Base
<1>1. ASSUME NEW c \in Posts, WorkerEvent(c)
      PROVE  \E e \in Events : Comes(c, e) /\ ~Early(c) /\ UNCHANGED <<store, at>>
  <2> DEFINE seq == worker[c].seq + 1
  <2>1. PICK type \in Follows(worker[c].last) :
          events' = [events EXCEPT ![c] = Append(@, [type |-> type, seq |-> seq])]
    BY <1>1 DEF WorkerEvent
  <2>2. worker[c].seq \in Nat /\ worker[c].last \in Lasts
    BY <1>0 DEF TypeOK, WorkerStands
  <2>3. type \in Types /\ seq \in Nat
    BY <2>2, FollowsLasts
  <2> HIDE DEF seq
  <2>4. [type |-> type, seq |-> seq] \in Events
    BY <2>3 DEF Events
  <2>5. ~Early(c)
    BY <1>0, <1>1 DEF WorkerEvent, Posting
  <2>6. UNCHANGED <<store, at>>
    BY <1>1 DEF WorkerEvent, client, jobs
  <2> QED  BY <2>1, <2>4, <2>5, <2>6 DEF Comes
<1>2. ASSUME NEW c \in Posts, Announce(c)
      PROVE  UNCHANGED events \/ \E e \in Events : Comes(c, e)
  <2>1. PICK out \in Outcomes : PublishEvent(id[c], "queued", 0, out)
    BY <1>2 DEF Announce
  <2>2. id[c] = c
    BY <1>0, <1>2 DEF Announce, Posting
  <2>3. [type |-> "queued", seq |-> 0] \in Events
    BY DEF Events, Types
  <2> QED  BY <2>1, <2>2, <2>3 DEF PublishEvent, Comes
<1>3. ASSUME NEW d \in Deletes, CancelPublish(d)
      PROVE  UNCHANGED events \/ \E e \in Events : Comes(delete[d].id, e)
  <2>1. PICK out \in Outcomes : PublishEvent(delete[d].id, "cancelled", delete[d].seq, out)
    BY <1>3 DEF CancelPublish
  <2>2. delete[d].seq \in Nat
    BY <1>0 DEF TypeOK
  <2>3. [type |-> "cancelled", seq |-> delete[d].seq] \in Events
    BY <2>2 DEF Events, Types
  <2> QED  BY <2>1, <2>3 DEF PublishEvent, Comes
<1>4. ASSUME NEW c \in Posts,
             \/ Post(c) \/ Claim(c) \/ Ensure(c) \/ MarkQueued(c) \/ PublishRequest(c)
             \/ Redeliver(c) \/ Consume(c) \/ AutoCommit(c) \/ Rewind(c)
      PROVE  UNCHANGED events
  BY <1>4
  DEF Post, Claim, Ensure, MarkQueued, PublishRequest, Redeliver, Consume, AutoCommit, Rewind, kafka
<1>5. ASSUME NEW d \in Deletes, CancelGet(d) \/ CancelUpdate(d)
      PROVE  UNCHANGED events
  BY <1>5 DEF CancelGet, CancelUpdate, kafka
<1>6. ASSUME NEW g \in Gets, GetJob(g) \/ ReadAll(g) \/ Recreate(g) \/ ApplyNext(g)
      PROVE  UNCHANGED events
  BY <1>6 DEF GetJob, ReadAll, Recreate, ApplyNext, kafka
<1>7. Restart \/ UNCHANGED vars => UNCHANGED events
  BY DEF Restart, vars, kafka
<1> QED  BY <1>1, <1>2, <1>3, <1>4, <1>5, <1>6, <1>7 DEF Next

LEMMA LogsGrow ==
  ASSUME Base, [Next]_vars, NEW c \in Posts
  PROVE  Len(events'[c]) >= Len(events[c])
<1>0. TypeOK /\ Deleting
  BY DEF Base
<1>1. Len(events[c]) \in Nat
  BY <1>0 DEF TypeOK
<1>2. CASE UNCHANGED events
  BY <1>1, <1>2
<1>3. CASE \E p \in Posts, e \in Events : Comes(p, e)
  BY <1>0, <1>3, EventTypes DEF Comes
<1>4. CASE \E d \in Deletes, e \in Events : Comes(delete[d].id, e) /\ CancelPublish(d)
  <2>1. PICK d \in Deletes, e \in Events : Comes(delete[d].id, e) /\ CancelPublish(d)
    BY <1>4
  <2>2. delete[d].id \in Posts
    BY <1>0, <2>1 DEF CancelPublish, Deleting
  <2> QED  BY <1>0, <2>1, <2>2, EventTypes DEF Comes
<1> QED  BY <1>2, <1>3, <1>4, EventsCome

-----------------------------------------------------------------------------
(* The table: what a step does to the job c. *)

\* The recovering GETs of c, and the DELETEs about to publish, do not move.
GetsStay(c) == \A g \in Gets : Applying(g, c) => get'[g] = get[g]
CancelsStay(c) ==
  \A d \in Deletes : delete[d].at = "publish" /\ delete[d].id = c => delete'[d] = delete[d]

LogStays(c) == events'[c] = events[c] /\ cursor'[c] = cursor[c]
FlawsGrow(c) == flaws[c] \subseteq flaws'[c]

\* The event at i is applied.
Applies(c, i) ==
  /\ i \in DOMAIN events[c]
  /\ store'[c] = Applied(store[c], events[c][i])
  /\ top'[c] = IF i > top[c] THEN i ELSE top[c]

\* Nothing happens to the job; the consumer may be set back.
Rests(c) ==
  /\ store'[c] = store[c] /\ top'[c] = top[c] /\ flaws'[c] = flaws[c]
  /\ events'[c] = events[c] /\ cursor'[c] <= cursor[c]
  /\ GetsStay(c) /\ CancelsStay(c)

\* The job is created: what the consumer has passed is to be applied again, or
\* there is a gap.
Appears(c) ==
  /\ ~Known(c) /\ store'[c] = [status |-> "queued", seq |-> 0] /\ top'[c] = 0
  /\ ~Early(c)' /\ LogStays(c)
  /\ \/ "gap" \in flaws'[c]
     \/ \A i \in 1 .. cursor[c] : Awaited(c, i)'

\* A handler sets the status, and a flaw is noted or the event is to follow.
Marks(c) ==
  /\ store'[c].seq = store[c].seq /\ top'[c] = top[c] /\ FlawsGrow(c)
  /\ LogStays(c) /\ GetsStay(c)
  /\ flaws'[c] # {} \/ Cancelling(c)'

\* An event is stored in the log.
Gains(c) ==
  /\ store'[c] = store[c] /\ top'[c] = top[c] /\ FlawsGrow(c)
  /\ \E e \in Events :
       /\ events'[c] = Append(events[c], e)
       /\ CancelsStay(c) \/ SetsStatus(e)
  /\ cursor'[c] = cursor[c] /\ GetsStay(c)

\* The consumer applies the next event.
Reads(c) ==
  /\ Applies(c, cursor[c] + 1) /\ cursor'[c] = cursor[c] + 1
  /\ flaws'[c] = flaws[c] /\ events'[c] = events[c]
  /\ GetsStay(c) /\ CancelsStay(c)

\* A recovering GET applies its next event, and notes after its last one that
\* it was behind.
Recovers(c, g) ==
  /\ Applying(g, c) /\ Applies(c, get[g].next)
  /\ LogStays(c) /\ FlawsGrow(c) /\ CancelsStay(c)
  /\ \A h \in Gets \ {g} : Applying(h, c) => get'[h] = get[h]
  /\ IF get[g].next = get[g].len
     THEN top[c] > get[g].next => flaws'[c] # {}
     ELSE get'[g] = [get[g] EXCEPT !.next = get[g].next + 1]

Row(c) ==
  \/ Appears(c)
  \/ /\ Known(c)
     /\ \/ Rests(c) \/ Marks(c) \/ Gains(c) \/ Reads(c)
        \/ \E g \in Gets : Recovers(c, g)

\* What the calls of the store do to the job c.
LEMMA ApplyOne ==
  ASSUME TypeOK, NEW c \in Posts, NEW t \in Posts, NEW i, Apply(t, i)
  PROVE  /\ t # c \/ ~Known(c) => store'[c] = store[c] /\ top'[c] = top[c]
         /\ t = c /\ Known(c) =>
              /\ store'[c] = Applied(store[c], events[c][i])
              /\ top'[c] = IF i > top[c] THEN i ELSE top[c]
BY DEF Apply, TypeOK

LEMMA CreateOne ==
  ASSUME TypeOK, NEW c \in Posts, NEW t \in Posts, NEW flaw, Create(t, flaw)
  PROVE  /\ t # c \/ Known(c) => store'[c] = store[c] /\ top'[c] = top[c] /\ flaws'[c] = flaws[c]
         /\ t = c /\ ~Known(c) =>
              /\ store'[c] = [status |-> "queued", seq |-> 0]
              /\ top'[c] = 0 /\ flaws'[c] = flaw
<1>1. CASE Known(t)
  BY <1>1 DEF Create, jobs
<1>2. CASE ~Known(t)
  BY <1>2 DEF Create, TypeOK
<1> QED  BY <1>1, <1>2

LEMMA SetStatusOne ==
  ASSUME TypeOK, NEW c \in Posts, NEW t \in Posts, NEW s, SetStatus(t, s)
  PROVE  /\ t # c => store'[c] = store[c]
         /\ store'[c].seq = store[c].seq
         /\ store[c].status = s => store'[c] = store[c]
<1>1. store \in [Posts -> JobRecords]
  BY DEF TypeOK, JobRecords
<1>2. store[c] \in JobRecords
  BY <1>1
<1>3. store' = store \/ store' = [store EXCEPT ![t] = [store[t] EXCEPT !.status = s]]
  BY DEF SetStatus
<1>4. [store[c] EXCEPT !.status = s].seq = store[c].seq
      /\ (store[c].status = s => [store[c] EXCEPT !.status = s] = store[c])
  BY <1>2 DEF JobRecords
<1> QED  BY <1>1, <1>3, <1>4

LEMMA FlawOne ==
  ASSUME TypeOK, NEW c \in Posts, NEW t \in Posts, NEW flaw, Flaw(t, flaw)
  PROVE  flaws'[c] = IF t = c THEN flaws[c] \cup flaw ELSE flaws[c]
BY DEF TypeOK, Flaw

\* What the base of the invariant says of one job.
LEMMA JobFacts ==
  ASSUME Base, NEW c \in Posts
  PROVE  /\ TypeOK /\ WorkerStands /\ Posting /\ Deleting /\ Getting /\ Reading
         /\ store[c] \in JobRecords /\ store[c].seq \in Nat
         /\ top[c] \in Nat /\ cursor[c] \in Nat /\ committed[c] \in Nat
         /\ events[c] \in Seq(Events) /\ Len(events[c]) \in Nat
         /\ DOMAIN events[c] = 1 .. Len(events[c])
<1>1. TypeOK /\ WorkerStands /\ Posting /\ Deleting /\ Getting /\ Reading
  BY DEF Base
<1>2. store[c] \in JobRecords
  BY <1>1 DEF TypeOK, JobRecords
<1>3. store[c].seq \in Nat
  BY <1>2 DEF JobRecords
<1>4. top[c] \in Nat /\ cursor[c] \in Nat /\ committed[c] \in Nat
  BY <1>1 DEF TypeOK
<1>5. events[c] \in Seq(Events)
  BY <1>1 DEF TypeOK
<1> QED  BY <1>1, <1>2, <1>3, <1>4, <1>5

LEMMA RestRow ==
  ASSUME TypeOK, UNCHANGED <<store, top, flaws, events>>, NEW c \in Posts, Known(c)',
         cursor'[c] <= cursor[c], GetsStay(c), CancelsStay(c)
  PROVE  Row(c)
BY DEF Row, Rests, Known

LEMMA StillRow ==
  ASSUME TypeOK, UNCHANGED <<store, top, flaws, events, cursor, delete, get>>,
         NEW c \in Posts, Known(c)'
  PROVE  Row(c)
<1>1. cursor'[c] <= cursor[c]
  BY DEF TypeOK
<1>2. GetsStay(c) /\ CancelsStay(c)
  BY DEF GetsStay, CancelsStay
<1> QED  BY <1>1, <1>2, RestRow

LEMMA GainRow ==
  ASSUME Base, NEW p \in Posts, NEW e \in Events, Comes(p, e),
         NEW c \in Posts, Known(c)', UNCHANGED <<store, top, cursor>>,
         GetsStay(c), FlawsGrow(c),
         IF p = c THEN CancelsStay(c) \/ SetsStatus(e)
                  ELSE CancelsStay(c) /\ flaws'[c] = flaws[c]
  PROVE  Row(c)
<1>1. events \in [Posts -> Seq(Events)] /\ cursor[c] \in Nat
  BY JobFacts DEF TypeOK
<1>2. CASE p = c
  <2>1. events'[c] = Append(events[c], e)
    BY <1>1, <1>2 DEF Comes
  <2> QED  BY <1>2, <2>1 DEF Row, Gains, Known
<1>3. CASE p # c
  <2>1. events'[c] = events[c] /\ cursor'[c] <= cursor[c]
    BY <1>1, <1>3 DEF Comes
  <2> QED  BY <1>3, <2>1 DEF Row, Rests, Known
<1> QED  BY <1>2, <1>3

LEMMA PostRow ==
  ASSUME Base, NEW c \in Posts, Known(c)', NEW p \in Posts,
         \/ Post(p) \/ Claim(p) \/ Ensure(p) \/ MarkQueued(p)
         \/ PublishRequest(p) \/ Announce(p)
  PROVE  Row(c)
<1>0. /\ TypeOK /\ Deleting /\ Posting /\ Reading
      /\ cursor[c] \in Nat /\ Len(events[c]) \in Nat
  BY JobFacts
<1>1. CASE Post(p) \/ Claim(p) \/ PublishRequest(p)
  BY <1>0, <1>1, StillRow DEF Post, Claim, PublishRequest, kafka, consumer, jobs
<1>2. CASE Ensure(p)
  <2>1. id[p] = p /\ events[p] = <<>> /\ ~Known(p) /\ Create(p, {})
    BY <1>0, <1>2 DEF Ensure, Posting, Early
  <2>2. UNCHANGED <<events, cursor, delete, get>>
    BY <1>2 DEF Ensure, kafka, consumer
  <2>3. CASE c = p
    <3>1. store'[c] = [status |-> "queued", seq |-> 0] /\ top'[c] = 0
      BY <1>0, <2>1, <2>3, CreateOne
    <3>2. Len(events[c]) = 0
      BY <2>1, <2>3
    <3>3. cursor[c] = 0
      BY <1>0, <3>2 DEF Reading
    <3>4. \A i \in 1 .. cursor[c] : Awaited(c, i)'
      BY <3>3
    <3>5. ~Early(c)'
      BY <1>0, <1>2, <2>3 DEF Ensure, To, Early, TypeOK
    <3> QED  BY <2>1, <2>2, <2>3, <3>1, <3>4, <3>5 DEF Row, Appears, LogStays
  <2>4. CASE c # p
    <3>1. store'[c] = store[c] /\ top'[c] = top[c] /\ flaws'[c] = flaws[c]
      BY <1>0, <2>1, <2>4, CreateOne
    <3>2. GetsStay(c) /\ CancelsStay(c) /\ cursor'[c] <= cursor[c]
      BY <1>0, <2>2 DEF GetsStay, CancelsStay
    <3> QED  BY <2>2, <3>1, <3>2 DEF Row, Rests, Known
  <2> QED  BY <2>3, <2>4
<1>3. CASE MarkQueued(p)
  <2> DEFINE flaw == IF store[p].status = "queued" THEN {} ELSE {"unlogged"}
  <2>1. id[p] = p /\ SetStatus(p, "queued") /\ Flaw(p, flaw)
    BY <1>0, <1>3 DEF MarkQueued, Posting
  <2>2. UNCHANGED <<events, cursor, delete, get, top>>
    BY <1>3 DEF MarkQueued, kafka, consumer
  <2>3. GetsStay(c) /\ CancelsStay(c) /\ cursor'[c] <= cursor[c]
    BY <1>0, <2>2 DEF GetsStay, CancelsStay
  <2>4. /\ p # c => store'[c] = store[c]
        /\ store'[c].seq = store[c].seq
        /\ store[c].status = "queued" => store'[c] = store[c]
    BY <1>0, <2>1, SetStatusOne
  <2>5. flaws'[c] = IF p = c THEN flaws[c] \cup flaw ELSE flaws[c]
    <3> HIDE DEF flaw
    <3> QED  BY <1>0, <2>1, FlawOne
  <2>6. Known(c)
    <3>1. \A q \in Posts : SetStatus(q, "queued") => (store[q].status # "none" \/ store' = store)
      BY DEF SetStatus, Known
    <3>2. p = c => Known(c)
      BY <2>1, <3>1 DEF Known
    <3> QED  BY <2>4, <3>2 DEF Known
  <2>7. CASE p # c \/ store[c].status = "queued"
    <3>1. store'[c] = store[c] /\ flaws'[c] = flaws[c]
      BY <2>4, <2>5, <2>7
    <3> QED  BY <2>2, <2>3, <2>6, <3>1 DEF Row, Rests
  <2>8. CASE p = c /\ store[c].status # "queued"
    <3>1. flaws'[c] # {} /\ flaws[c] \subseteq flaws'[c]
      BY <2>5, <2>8
    <3> QED  BY <2>2, <2>3, <2>4, <2>6, <3>1 DEF Row, Marks, LogStays, FlawsGrow
  <2> QED  BY <2>7, <2>8
<1>4. CASE Announce(p)
  <2>1. PICK out \in Outcomes : PublishEvent(p, "queued", 0, out)
    BY <1>0, <1>4 DEF Announce, Posting
  <2>2. UNCHANGED <<store, top, flaws, cursor, delete, get>>
    BY <1>4 DEF Announce, consumer, jobs
  <2>3. CASE UNCHANGED events
    BY <1>0, <2>2, <2>3, StillRow
  <2>4. CASE ~ UNCHANGED events
    <3>1. Comes(p, [type |-> "queued", seq |-> 0])
      BY <2>1, <2>4 DEF PublishEvent, Comes
    <3>2. [type |-> "queued", seq |-> 0] \in Events
      BY DEF Events, Types
    <3>3. GetsStay(c) /\ CancelsStay(c) /\ FlawsGrow(c)
      BY <2>2 DEF GetsStay, CancelsStay, FlawsGrow
    <3> QED  BY <1>0, <2>2, <3>1, <3>2, <3>3, GainRow
  <2> QED  BY <2>3, <2>4
<1> QED  BY <1>1, <1>2, <1>3, <1>4

LEMMA WorkerRow ==
  ASSUME Base, NEW c \in Posts, Known(c)', NEW p \in Posts, WorkerEvent(p) \/ Redeliver(p)
  PROVE  Row(c)
<1>0. TypeOK /\ WorkerStands
  BY JobFacts
<1>1. CASE WorkerEvent(p)
  <2> DEFINE seq == worker[p].seq + 1
  <2>1. PICK type \in Follows(worker[p].last) :
          events' = [events EXCEPT ![p] = Append(@, [type |-> type, seq |-> seq])]
    BY <1>1 DEF WorkerEvent
  <2>2. worker[p].seq \in Nat /\ worker[p].last \in Lasts
    BY <1>0 DEF TypeOK, WorkerStands
  <2>3. type \in Types /\ seq \in Nat
    BY <2>2, FollowsLasts
  <2> HIDE DEF seq
  <2>4. [type |-> type, seq |-> seq] \in Events
    BY <2>3 DEF Events
  <2>5. Comes(p, [type |-> type, seq |-> seq])
    BY <2>1 DEF Comes
  <2>6. UNCHANGED <<store, top, flaws, cursor, delete, get>>
    BY <1>1 DEF WorkerEvent, consumer, jobs
  <2>7. GetsStay(c) /\ CancelsStay(c) /\ FlawsGrow(c)
    BY <2>6 DEF GetsStay, CancelsStay, FlawsGrow
  <2> QED  BY <2>4, <2>5, <2>6, <2>7, GainRow
<1>2. CASE Redeliver(p)
  BY <1>0, <1>2, StillRow DEF Redeliver, consumer, jobs
<1> QED  BY <1>1, <1>2

LEMMA ConsumerRow ==
  ASSUME Base, NEW c \in Posts, Known(c)', NEW p \in Posts,
         Consume(p) \/ AutoCommit(p) \/ Rewind(p)
  PROVE  Row(c)
<1>0. /\ TypeOK /\ Reading /\ cursor[c] \in Nat /\ committed[c] \in Nat
      /\ Len(events[c]) \in Nat /\ DOMAIN events[c] = 1 .. Len(events[c])
  BY JobFacts
<1>1. CASE Consume(p)
  <2>1. UNCHANGED <<events, flaws, delete, get>> /\ Apply(p, cursor[p] + 1)
    BY <1>1 DEF Consume, kafka
  <2>2. GetsStay(c) /\ CancelsStay(c)
    BY <2>1 DEF GetsStay, CancelsStay
  <2>3. CASE p = c
    <3>1. cursor'[c] = cursor[c] + 1 /\ cursor[c] + 1 \in DOMAIN events[c]
      BY <1>0, <1>1, <2>3 DEF Consume, TypeOK
    <3>2. Known(c)
      BY <1>0, <2>1, <2>3, ApplyOne DEF Known
    <3>3. Applies(c, cursor[c] + 1)
      <4>1. store'[c] = Applied(store[c], events[c][cursor[c] + 1])
            /\ top'[c] = IF cursor[c] + 1 > top[c] THEN cursor[c] + 1 ELSE top[c]
        BY <1>0, <2>1, <2>3, <3>2, ApplyOne
      <4> QED  BY <3>1, <4>1 DEF Applies
    <3> QED  BY <2>1, <2>2, <3>1, <3>2, <3>3 DEF Row, Reads
  <2>4. CASE p # c
    <3>1. store'[c] = store[c] /\ top'[c] = top[c]
      BY <1>0, <2>1, <2>4, ApplyOne
    <3>2. cursor'[c] <= cursor[c]
      BY <1>0, <1>1, <2>4 DEF Consume, TypeOK
    <3> QED  BY <2>1, <2>2, <3>1, <3>2 DEF Row, Rests, Known
  <2> QED  BY <2>3, <2>4
<1>2. CASE AutoCommit(p)
  BY <1>0, <1>2, StillRow DEF AutoCommit, kafka, jobs
<1>3. CASE Rewind(p)
  <2>1. UNCHANGED <<store, top, flaws, events, delete, get>>
    BY <1>3 DEF Rewind, kafka, jobs
  <2>2. GetsStay(c) /\ CancelsStay(c)
    BY <2>1 DEF GetsStay, CancelsStay
  <2>3. cursor'[c] <= cursor[c]
    <3>1. committed[c] <= cursor[c]
      BY <1>0 DEF Reading
    <3>2. cursor'[c] = IF p = c THEN committed[c] ELSE cursor[c]
      BY <1>0, <1>3 DEF Rewind, TypeOK
    <3> QED  BY <1>0, <3>1, <3>2
  <2> QED  BY <1>0, <2>1, <2>2, <2>3, RestRow
<1> QED  BY <1>1, <1>2, <1>3

LEMMA DeleteRow ==
  ASSUME Base, NEW c \in Posts, Known(c)', NEW d \in Deletes,
         CancelGet(d) \/ CancelUpdate(d) \/ CancelPublish(d)
  PROVE  Row(c)
<1>0. TypeOK /\ Deleting /\ cursor[c] \in Nat
  BY JobFacts
<1>d. delete \in [Deletes -> DeleteRecords] /\ delete[d] \in DeleteRecords
      /\ delete[d].id \in Posts \cup {None} /\ delete[d].seq \in Nat
  BY <1>0, DeleteFacts
<1>m. \A v : delete' = [delete EXCEPT ![d] = v] =>
        \A x \in Deletes : x # d => delete'[x] = delete[x]
  BY <1>d
<1>1. CASE CancelGet(d)
  <2>1. UNCHANGED <<store, top, flaws, events, cursor, get>> /\ delete[d].at = "idle"
    BY <1>1 DEF CancelGet, kafka, consumer, jobs
  <2>2. \A x \in Deletes : x # d => delete'[x] = delete[x]
    BY <1>1, <1>m DEF CancelGet
  <2>3. GetsStay(c) /\ CancelsStay(c) /\ cursor'[c] <= cursor[c]
    BY <1>0, <2>1, <2>2 DEF GetsStay, CancelsStay
  <2> QED  BY <1>0, <2>1, <2>3, RestRow
<1>2. CASE CancelUpdate(d)
  <2> DEFINE t == delete[d].id
  <2>1. UNCHANGED <<top, flaws, events, cursor, get>> /\ SetStatus(t, "cancelled")
        /\ delete[d].at = "update" /\ delete' = [delete EXCEPT ![d].at = "publish"]
    BY <1>2 DEF CancelUpdate, kafka, consumer
  <2>2. t \in Posts /\ Known(t)
    BY <1>0, <2>1 DEF Deleting
  <2>3. /\ t # c => store'[c] = store[c]
        /\ store'[c].seq = store[c].seq
    BY <1>0, <2>1, <2>2, SetStatusOne
  <2>4. GetsStay(c)
    BY <2>1 DEF GetsStay
  <2>5. CASE t = c
    <3>1. delete'[d] = [delete[d] EXCEPT !.at = "publish"]
      BY <1>d, <2>1
    <3>2. delete'[d].at = "publish" /\ delete'[d].id = c
      BY <1>d, <2>5, <3>1 DEF DeleteRecords
    <3>3. Cancelling(c)'
      BY <3>2 DEF Cancelling
    <3> QED  BY <2>1, <2>2, <2>3, <2>4, <2>5, <3>3 DEF Row, Marks, LogStays, FlawsGrow
  <2>6. CASE t # c
    <3>1. \A x \in Deletes : x # d => delete'[x] = delete[x]
      BY <2>1, <1>m
    <3>2. CancelsStay(c) /\ cursor'[c] <= cursor[c]
      BY <1>0, <2>1, <3>1 DEF CancelsStay
    <3> QED  BY <2>1, <2>3, <2>4, <2>6, <3>2 DEF Row, Rests, Known
  <2> QED  BY <2>5, <2>6
<1>3. CASE CancelPublish(d)
  <2> DEFINE t == delete[d].id
             e == [type |-> "cancelled", seq |-> delete[d].seq]
  <2>1. PICK out \in Outcomes :
          /\ PublishEvent(t, "cancelled", delete[d].seq, out)
          /\ Flaw(t, IF out.stored THEN {} ELSE {"unlogged"})
    BY <1>3 DEF CancelPublish
  <2>2. UNCHANGED <<store, top, cursor, get>> /\ delete[d].at = "publish"
        /\ delete' = [delete EXCEPT ![d] = DeleteAt("done")]
    BY <1>3 DEF CancelPublish, consumer
  <2>3. t \in Posts
    BY <1>0, <2>2 DEF Deleting
  <2>4. GetsStay(c)
    BY <2>2 DEF GetsStay
  <2>5. t # c => CancelsStay(c)
    <3>1. \A x \in Deletes : x # d => delete'[x] = delete[x]
      BY <2>2, <1>m
    <3> QED  BY <3>1 DEF CancelsStay
  <2>6. CASE out.stored
    <3>1. Comes(t, e)
      BY <2>1, <2>6 DEF PublishEvent, Comes
    <3>2. e \in Events
      BY <1>d DEF Events, Types
    <3>3. SetsStatus(e)
      BY DEF SetsStatus, StatusOf
    <3>4. flaws'[c] = IF t = c THEN flaws[c] \cup {} ELSE flaws[c]
      BY <1>0, <2>1, <2>3, <2>6, FlawOne
    <3>5. FlawsGrow(c) /\ flaws'[c] = flaws[c]
      BY <3>4 DEF FlawsGrow
    <3> HIDE DEF e, t
    <3> QED  BY <2>2, <2>3, <2>4, <2>5, <3>1, <3>2, <3>3, <3>5, GainRow
  <2>7. CASE ~out.stored
    <3>1. UNCHANGED events
      BY <2>1, <2>7 DEF PublishEvent
    <3>2. flaws'[c] = IF t = c THEN flaws[c] \cup {"unlogged"} ELSE flaws[c]
      BY <1>0, <2>1, <2>3, <2>7, FlawOne
    <3>3. CASE t = c
      <4>1. flaws'[c] # {} /\ FlawsGrow(c)
        BY <3>2, <3>3 DEF FlawsGrow
      <4> QED  BY <2>2, <2>4, <3>1, <4>1 DEF Row, Marks, LogStays, Known
    <3>4. CASE t # c
      <4>1. cursor'[c] <= cursor[c]
        BY <1>0, <2>2
      <4> QED  BY <2>2, <2>4, <2>5, <3>1, <3>2, <3>4, <4>1 DEF Row, Rests, Known
    <3> QED  BY <3>3, <3>4
  <2> QED  BY <2>6, <2>7
<1> QED  BY <1>1, <1>2, <1>3

LEMMA GetRow ==
  ASSUME Base, NEW c \in Posts, Known(c)', NEW g \in Gets,
         GetJob(g) \/ ReadAll(g) \/ Recreate(g) \/ ApplyNext(g)
  PROVE  Row(c)
<1>0. /\ TypeOK /\ Getting /\ Reading /\ cursor[c] \in Nat
      /\ Len(events[c]) \in Nat /\ DOMAIN events[c] = 1 .. Len(events[c])
  BY JobFacts
<1>g. /\ get \in [Gets -> GetRecords] /\ get[g] \in GetRecords
      /\ get[g].len \in Nat /\ get[g].next \in Nat
  BY <1>0, GetFacts
<1>m. \A v : get' = [get EXCEPT ![g] = v] => \A h \in Gets : h # g => get'[h] = get[h]
  BY <1>g
<1>1. CASE GetJob(g) \/ ReadAll(g)
  <2>1. UNCHANGED <<store, top, flaws, events, cursor, delete>> /\ get[g].at \in {"idle", "read"}
    BY <1>1 DEF GetJob, ReadAll, kafka, consumer, jobs
  <2>2. \A h \in Gets : h # g => get'[h] = get[h]
    BY <1>1, <1>m DEF GetJob, ReadAll
  <2>3. GetsStay(c)
    BY <2>1, <2>2 DEF GetsStay, Applying
  <2>4. CancelsStay(c) /\ cursor'[c] <= cursor[c]
    BY <1>0, <2>1 DEF CancelsStay
  <2> QED  BY <1>0, <2>1, <2>3, <2>4, RestRow
<1>2. CASE Recreate(g)
  <2> DEFINE t == get[g].id
             flaw == IF cursor[t] > get[g].len THEN {"gap"} ELSE {}
  <2>1. /\ get[g].at = "ensure" /\ Create(t, flaw) /\ t \in Posts
        /\ get' = [get EXCEPT ![g] = [get[g] EXCEPT !.at = "apply", !.next = 1]]
        /\ UNCHANGED <<events, cursor, delete>>
    BY <1>0, <1>2 DEF Recreate, Getting, kafka, consumer
  <2>2. \A h \in Gets : h # g => get'[h] = get[h]
    BY <2>1, <1>m
  <2>3. GetsStay(c) /\ CancelsStay(c) /\ cursor'[c] <= cursor[c]
    BY <1>0, <2>1, <2>2 DEF GetsStay, CancelsStay, Applying
  <2>4. CASE t # c \/ Known(c)
    <3>1. store'[c] = store[c] /\ top'[c] = top[c] /\ flaws'[c] = flaws[c]
      BY <1>0, <2>1, <2>4, CreateOne
    <3> QED  BY <2>1, <2>3, <3>1 DEF Row, Rests, Known
  <2>5. CASE t = c /\ ~Known(c)
    <3>1. /\ store'[c] = [status |-> "queued", seq |-> 0]
          /\ top'[c] = 0 /\ flaws'[c] = flaw
      BY <1>0, <2>1, <2>5, CreateOne
    <3>0. ~Early(c)'
      <4>1. 1 <= get[g].len /\ get[g].len <= Len(events[c])
        BY <2>1, <2>5, <1>0 DEF Getting
      <4>2. events[c] # <<>>
        BY <1>g, <4>1
      <4>3. at' = at /\ Posting
        BY <1>2, JobFacts DEF Recreate, client
      <4> QED  BY <4>2, <4>3 DEF Posting, Early
    <3>2. CASE cursor[c] > get[g].len
      <4>1. "gap" \in flaws'[c]
        BY <2>5, <3>1, <3>2
      <4> QED  BY <2>1, <2>5, <3>0, <3>1, <4>1 DEF Row, Appears, LogStays
    <3>3. CASE cursor[c] <= get[g].len
      <4>1. get'[g] = [get[g] EXCEPT !.at = "apply", !.next = 1]
        BY <1>g, <2>1
      <4>2. get'[g].at = "apply" /\ get'[g].next = 1 /\ get'[g].len = get[g].len
            /\ get'[g].id = c
        BY <1>g, <2>5, <4>1 DEF GetRecords
      <4>3. \A i \in 1 .. cursor[c] : Awaited(c, i)'
        BY <1>0, <1>g, <3>3, <4>2 DEF Awaited, Applying
      <4> QED  BY <2>1, <2>5, <3>0, <3>1, <4>3 DEF Row, Appears, LogStays
    <3> QED  BY <1>0, <1>g, <3>2, <3>3
  <2> QED  BY <2>4, <2>5
<1>3. CASE ApplyNext(g)
  <2> DEFINE t == get[g].id
             i == get[g].next
             flaw == IF i = get[g].len /\ top[t] > i THEN {"overtaken"} ELSE {}
  <2>1. /\ get[g].at = "apply" /\ Apply(t, i) /\ t \in Posts
        /\ get' = [get EXCEPT ![g] = IF i = get[g].len THEN GetAt("done")
                                     ELSE [get[g] EXCEPT !.next = i + 1]]
        /\ Flaw(t, flaw)
        /\ UNCHANGED <<events, cursor, delete>>
    BY <1>0, <1>3 DEF ApplyNext, Getting, kafka, consumer
  <2>2. \A h \in Gets : h # g => get'[h] = get[h]
    BY <2>1, <1>m
  <2>3. CancelsStay(c) /\ cursor'[c] <= cursor[c]
    BY <1>0, <2>1 DEF CancelsStay
  <2>4. flaws'[c] = IF t = c THEN flaws[c] \cup flaw ELSE flaws[c]
    <3> HIDE DEF flaw
    <3> QED  BY <1>0, <2>1, FlawOne
  <2>5. Known(c)
    BY <1>0, <2>1, ApplyOne DEF Known
  <2>6. CASE t # c
    <3>1. store'[c] = store[c] /\ top'[c] = top[c]
      BY <1>0, <2>1, <2>6, ApplyOne
    <3>2. GetsStay(c)
      BY <2>2, <2>6 DEF GetsStay, Applying
    <3> QED  BY <2>1, <2>3, <2>4, <2>5, <2>6, <3>1, <3>2 DEF Row, Rests
  <2>7. CASE t = c
    <3>1. Applies(c, i)
      <4>1. i \in DOMAIN events[c]
        BY <1>0, <2>1, <2>7, NextIsRead
      <4>2. store'[c] = Applied(store[c], events[c][i])
            /\ top'[c] = IF i > top[c] THEN i ELSE top[c]
        BY <1>0, <2>1, <2>5, <2>7, ApplyOne
      <4> QED  BY <4>1, <4>2 DEF Applies
    <3>2. LogStays(c) /\ Applying(g, c) /\ FlawsGrow(c)
      BY <2>1, <2>4, <2>7 DEF LogStays, Applying, FlawsGrow
    <3>3. \A h \in Gets \ {g} : Applying(h, c) => get'[h] = get[h]
      BY <2>2
    <3>4. CASE i = get[g].len
      <4>1. top[c] > i => flaws'[c] # {}
        BY <2>4, <2>7, <3>4
      <4>2. Recovers(c, g)
        BY <2>3, <3>1, <3>2, <3>3, <3>4, <4>1 DEF Recovers
      <4> QED  BY <2>5, <4>2 DEF Row
    <3>5. CASE i # get[g].len
      <4>1. get'[g] = [get[g] EXCEPT !.next = i + 1]
        BY <1>g, <2>1, <3>5
      <4>2. Recovers(c, g)
        BY <2>3, <3>1, <3>2, <3>3, <3>5, <4>1 DEF Recovers
      <4> QED  BY <2>5, <4>2 DEF Row
    <3> QED  BY <3>4, <3>5
  <2> QED  BY <2>6, <2>7
<1> QED  BY <1>1, <1>2, <1>3

\* The table covers every step after which the job is known.
LEMMA JobRow ==
  ASSUME Base, [Next]_vars, NEW c \in Posts, Known(c)'
  PROVE  Row(c)
<1>1. CASE UNCHANGED vars
  BY <1>1, JobFacts, StillRow DEF vars, client, kafka, consumer, jobs
<1>2. CASE Restart
  BY <1>2 DEF Restart, Known, NoJob
<1> QED
  BY <1>1, <1>2, PostRow, WorkerRow, ConsumerRow, DeleteRow, GetRow DEF Next

-----------------------------------------------------------------------------
(* The base of the invariant holds. *)

\* The handler of p goes on to l.
Moves(p, l) ==
  /\ at' = [at EXCEPT ![p] = l] /\ at[p] # "answered"
  /\ l \in {"new", "claim", "ensure"} => at[p] \in {"new", "claim", "ensure"}
  /\ \/ id' = id
     \/ l = "answered" /\ id' = [id EXCEPT ![p] = idem]

\* A post that is answered stays so, and no post comes back to a place before
\* its job is created.
LEMMA PostMoves ==
  ASSUME Base, [Next]_vars, NEW c \in Posts
  PROVE  /\ at'[c] # "answered" => at[c] # "answered" /\ id'[c] = id[c]
         /\ Early(c)' => Early(c)
<1>0. /\ TypeOK /\ at \in [Posts -> PostPlaces] /\ id \in [Posts -> Posts]
  BY JobFacts DEF TypeOK
<1>1. ASSUME NEW p \in Posts,
             \/ Post(p) \/ Claim(p) \/ Ensure(p) \/ MarkQueued(p)
             \/ PublishRequest(p) \/ Announce(p)
      PROVE  \E l \in PostPlaces : Moves(p, l)
  <2>0. \A l \in {"claim", "ensure", "queue", "request", "announce", "answered", "failed"} :
          l \in PostPlaces
    BY DEF PostPlaces
  <2>1. CASE Post(p)
    <3>1. CASE p \in Keyed /\ idem # None
      <4>1. Moves(p, "answered")
        BY <2>1, <3>1 DEF Post, Reuse, To, Moves
      <4> QED  BY <2>0, <4>1
    <3>2. CASE p \notin Keyed
      <4>1. Moves(p, "ensure")
        BY <2>1, <3>2 DEF Post, To, Moves
      <4> QED  BY <2>0, <4>1
    <3>3. CASE p \in Keyed /\ idem = None
      <4>1. Moves(p, "claim")
        BY <2>1, <3>3 DEF Post, To, Moves
      <4> QED  BY <2>0, <4>1
    <3> QED  BY <3>1, <3>2, <3>3
  <2>2. CASE Claim(p)
    <3>1. Moves(p, "ensure")
      BY <2>2 DEF Claim, To, Moves
    <3> QED  BY <2>0, <3>1
  <2>3. CASE Ensure(p)
    <3>1. Moves(p, "queue")
      BY <2>3 DEF Ensure, To, Moves
    <3> QED  BY <2>0, <3>1
  <2>4. CASE MarkQueued(p)
    <3>1. Moves(p, "request")
      BY <2>4 DEF MarkQueued, To, Moves
    <3> QED  BY <2>0, <3>1
  <2>5. CASE PublishRequest(p)
    <3>1. Moves(p, "announce") \/ Moves(p, "failed")
      BY <2>5 DEF PublishRequest, To, Moves
    <3> QED  BY <2>0, <3>1
  <2>6. CASE Announce(p)
    <3>1. Moves(p, "answered")
      BY <2>6 DEF Announce, To, Moves
    <3> QED  BY <2>0, <3>1
  <2> QED  BY <1>1, <2>1, <2>2, <2>3, <2>4, <2>5, <2>6
<1>2. CASE \E p \in Posts :
             \/ Post(p) \/ Claim(p) \/ Ensure(p) \/ MarkQueued(p)
             \/ PublishRequest(p) \/ Announce(p)
  <2>1. PICK p \in Posts, l \in PostPlaces : Moves(p, l)
    BY <1>1, <1>2
  <2>2. at'[c] = IF p = c THEN l ELSE at[c]
    BY <1>0, <2>1 DEF Moves
  <2>3. id'[c] = id[c] \/ (p = c /\ l = "answered")
    BY <1>0, <2>1 DEF Moves
  <2> QED  BY <2>1, <2>2, <2>3 DEF Early, Moves
<1>3. CASE UNCHANGED <<at, id>>
  BY <1>3 DEF Early
<1>4. CASE Restart
  <2>1. at'[c] = (IF at[c] \in {"new", "answered"} THEN at[c] ELSE "failed") /\ id' = id
    BY <1>4 DEF Restart
  <2> QED  BY <2>1 DEF Early
<1>5. ASSUME NEW p \in Posts, WorkerEvent(p) \/ Redeliver(p) \/ Consume(p) \/ AutoCommit(p) \/ Rewind(p)
      PROVE  UNCHANGED <<at, id>>
  BY <1>5 DEF WorkerEvent, Redeliver, Consume, AutoCommit, Rewind, client
<1>6. ASSUME NEW d \in Deletes, CancelGet(d) \/ CancelUpdate(d) \/ CancelPublish(d)
      PROVE  UNCHANGED <<at, id>>
  BY <1>6 DEF CancelGet, CancelUpdate, CancelPublish, client
<1>7. ASSUME NEW g \in Gets, GetJob(g) \/ ReadAll(g) \/ Recreate(g) \/ ApplyNext(g)
      PROVE  UNCHANGED <<at, id>>
  BY <1>7 DEF GetJob, ReadAll, Recreate, ApplyNext, client
<1>8. UNCHANGED vars => UNCHANGED <<at, id>>
  BY DEF vars, client
<1> QED  BY <1>2, <1>3, <1>4, <1>5, <1>6, <1>7, <1>8 DEF Next

\* Nothing is published for a job that is not created.
LEMMA EarlyLogs ==
  ASSUME Base, [Next]_vars, NEW c \in Posts, Early(c)'
  PROVE  events'[c] = <<>> /\ requests'[c] = 0
<1>0. /\ TypeOK /\ Posting /\ Deleting /\ Early(c)
      /\ events[c] = <<>> /\ requests[c] = 0 /\ ~Known(c) /\ id[c] = c
  BY JobFacts, PostMoves DEF Posting, Early
<1>1. events'[c] = <<>>
  <2>1. CASE UNCHANGED events
    BY <1>0, <2>1
  <2>2. CASE \E p \in Posts, e \in Events : Comes(p, e) /\ ~Early(p)
    BY <1>0, <2>2 DEF Comes, TypeOK
  <2>3. CASE \E d \in Deletes, e \in Events : Comes(delete[d].id, e) /\ CancelPublish(d)
    <3>1. PICK d \in Deletes, e \in Events : Comes(delete[d].id, e) /\ CancelPublish(d)
      BY <2>3
    <3>2. delete[d].id \in Posts /\ Known(delete[d].id)
      BY <1>0, <3>1 DEF CancelPublish, Deleting
    <3> QED  BY <1>0, <3>1, <3>2 DEF Comes, TypeOK
  <2>4. \A p \in Posts : Announce(p) => ~Early(p)
    BY DEF Announce, Early
  <2> QED  BY <2>1, <2>2, <2>3, <2>4, EventsCome
<1>2. requests'[c] = 0
  <2>1. CASE UNCHANGED requests
    BY <1>0, <2>1
  <2>2. CASE \E p \in Posts : PublishRequest(p)
    <3>1. PICK p \in Posts : PublishRequest(p)
      BY <2>2
    <3>2. p # c /\ id[p] = p
      BY <1>0, <3>1 DEF PublishRequest, Early, Posting
    <3>3. requests' = requests \/ requests' = [requests EXCEPT ![id[p]] = @ + 1]
      BY <3>1 DEF PublishRequest
    <3> QED  BY <1>0, <3>2, <3>3 DEF TypeOK
  <2>3. ASSUME NEW p \in Posts,
               \/ Post(p) \/ Claim(p) \/ Ensure(p) \/ MarkQueued(p) \/ Announce(p)
               \/ WorkerEvent(p) \/ Redeliver(p) \/ Consume(p) \/ AutoCommit(p) \/ Rewind(p)
        PROVE  UNCHANGED requests
    BY <2>3
    DEF Post, Claim, Ensure, MarkQueued, Announce, WorkerEvent, Redeliver, Consume, AutoCommit,
        Rewind, kafka
  <2>4. ASSUME NEW d \in Deletes, CancelGet(d) \/ CancelUpdate(d) \/ CancelPublish(d)
        PROVE  UNCHANGED requests
    BY <2>4 DEF CancelGet, CancelUpdate, CancelPublish, kafka
  <2>5. ASSUME NEW g \in Gets, GetJob(g) \/ ReadAll(g) \/ Recreate(g) \/ ApplyNext(g)
        PROVE  UNCHANGED requests
    BY <2>5 DEF GetJob, ReadAll, Recreate, ApplyNext, kafka
  <2>6. Restart \/ UNCHANGED vars => UNCHANGED requests
    BY DEF Restart, vars, kafka
  <2> QED  BY <2>1, <2>2, <2>3, <2>4, <2>5, <2>6 DEF Next
<1> QED  BY <1>1, <1>2

LEMMA PostingStep ==
  ASSUME Base, [Next]_vars
  PROVE  Posting'
<1> SUFFICES ASSUME NEW c \in Posts
             PROVE  /\ at'[c] # "answered" => id'[c] = c
                    /\ Early(c)' => ~Known(c)' /\ requests'[c] = 0 /\ events'[c] = <<>>
  BY DEF Posting
<1>1. at'[c] # "answered" => id'[c] = c
  BY JobFacts, PostMoves DEF Posting
<1>2. ASSUME Early(c)'
      PROVE  ~Known(c)'
  <2>1. ~Known(c)
    BY <1>2, JobFacts, PostMoves DEF Posting
  <2>2. Known(c)' => Row(c)
    BY JobRow
  <2> QED  BY <1>2, <2>1, <2>2 DEF Row, Appears
<1> QED  BY <1>1, <1>2, EarlyLogs

LEMMA DeletingStep ==
  ASSUME Base, [Next]_vars
  PROVE  Deleting'
<1>0. TypeOK /\ Deleting
  BY DEF Base
<1> SUFFICES ASSUME NEW d \in Deletes, delete'[d].at \in {"update", "publish"}
             PROVE  delete'[d].id \in Posts /\ Known(delete[d].id)'
  BY DEF Deleting
<1>k. \A p \in Posts : Known(p) /\ ~Restart => Known(p)'
  BY KnownGrows
<1>1. CASE Restart
  <2>1. delete'[d].at \in {"idle", "done"}
    <3>1. delete'[d] = IF delete[d].at = "idle" THEN delete[d] ELSE DeleteAt("done")
      BY <1>1 DEF Restart
    <3> QED  BY <3>1 DEF DeleteAt
  <2> QED  BY <2>1
<1>2. CASE delete'[d] = delete[d] /\ ~Restart
  <2>1. delete[d].id \in Posts /\ Known(delete[d].id)
    BY <1>0, <1>2 DEF Deleting
  <2> QED  BY <1>2, <1>k, <2>1
<1>3. ASSUME NEW x \in Deletes, CancelGet(x) \/ CancelUpdate(x) \/ CancelPublish(x),
             delete'[d] # delete[d], ~Restart
      PROVE  delete'[d].id \in Posts /\ Known(delete[d].id)'
  <2>0. delete \in [Deletes -> DeleteRecords]
    BY <1>0, DeleteFacts
  <2>1. CASE CancelGet(x)
    <3>1. PICK c \in Answered :
            delete' = [delete EXCEPT ![x] =
              IF store[c].status \in {"queued", "running"}
              THEN [at |-> "update", id |-> c, seq |-> store[c].seq + 1]
              ELSE DeleteAt("done")]
      BY <2>1 DEF CancelGet
    <3>2. x = d
      BY <1>3, <2>0, <3>1
    <3>3. c \in Posts
      BY <1>0 DEF Answered, TypeOK
    <3>4. CASE store[c].status \in {"queued", "running"}
      <4>1. delete'[d].id = c
        BY <2>0, <3>1, <3>2, <3>4
      <4>2. Known(c)
        BY <3>4 DEF Known
      <4> QED  BY <1>3, <1>k, <3>3, <4>1, <4>2
    <3>5. CASE store[c].status \notin {"queued", "running"}
      <4>1. delete'[d] = DeleteAt("done")
        BY <2>0, <3>1, <3>2, <3>5
      <4> QED  BY <4>1 DEF DeleteAt
    <3> QED  BY <3>4, <3>5
  <2>2. CASE CancelUpdate(x)
    <3>1. x = d
      BY <1>3, <2>0, <2>2 DEF CancelUpdate
    <3>2. delete'[d] = [delete[d] EXCEPT !.at = "publish"] /\ delete[d].at = "update"
      BY <2>0, <2>2, <3>1 DEF CancelUpdate
    <3>3. delete'[d].id = delete[d].id
      BY <2>0, <3>2 DEF DeleteRecords
    <3>4. delete[d].id \in Posts /\ Known(delete[d].id)
      BY <1>0, <3>2 DEF Deleting
    <3> QED  BY <1>3, <1>k, <3>3, <3>4
  <2>3. CASE CancelPublish(x)
    <3>1. delete'[d] = DeleteAt("done")
      BY <1>3, <2>0, <2>3 DEF CancelPublish
    <3> QED  BY <3>1 DEF DeleteAt
  <2> QED  BY <1>3, <2>1, <2>2, <2>3
<1>4. CASE UNCHANGED delete /\ ~Restart
  BY <1>2, <1>4
<1>5. ASSUME NEW p \in Posts,
             \/ Post(p) \/ Claim(p) \/ Ensure(p) \/ MarkQueued(p)
             \/ PublishRequest(p) \/ Announce(p) \/ WorkerEvent(p) \/ Redeliver(p)
             \/ Consume(p) \/ AutoCommit(p) \/ Rewind(p)
      PROVE  UNCHANGED delete
  BY <1>5
  DEF Post, Claim, Ensure, MarkQueued, PublishRequest, Announce, WorkerEvent, Redeliver,
      Consume, AutoCommit, Rewind
<1>6. ASSUME NEW g \in Gets, GetJob(g) \/ ReadAll(g) \/ Recreate(g) \/ ApplyNext(g)
      PROVE  UNCHANGED delete
  BY <1>6 DEF GetJob, ReadAll, Recreate, ApplyNext
<1>7. UNCHANGED vars => UNCHANGED delete
  BY DEF vars
<1> QED  BY <1>1, <1>2, <1>3, <1>4, <1>5, <1>6, <1>7 DEF Next

\* What holds of a GET, for a value r of its handler and the logs.
Stands(r, logs) ==
  /\ r.at \in {"read", "ensure", "apply"} => r.id \in Posts
  /\ r.at \in {"ensure", "apply"} => 1 <= r.len /\ r.len <= Len(logs[r.id])
  /\ r.at = "apply" => 1 <= r.next /\ r.next <= r.len

LEMMA StandsOn ==
  ASSUME Base, [Next]_vars, Typed', NEW r \in GetRecords, Stands(r, events)
  PROVE  Stands(r, events')
<1>1. r.len \in Nat
  BY DEF GetRecords
<1>2. ASSUME r.at \in {"ensure", "apply"}
      PROVE  r.len <= Len(events'[r.id])
  <2>1. r.id \in Posts /\ r.len <= Len(events[r.id])
    BY <1>2 DEF Stands
  <2>2. Len(events'[r.id]) >= Len(events[r.id])
    BY <2>1, LogsGrow
  <2>3. Len(events[r.id]) \in Nat /\ Len(events'[r.id]) \in Nat
    BY <2>1, JobFacts DEF Typed, TypeOK
  <2> QED  BY <1>1, <2>1, <2>2, <2>3
<1> QED  BY <1>2 DEF Stands

LEMMA GettingStep ==
  ASSUME Base, [Next]_vars, Typed'
  PROVE  Getting'
<1>0. TypeOK /\ Getting
  BY DEF Base
<1> SUFFICES ASSUME NEW g \in Gets
             PROVE  Stands(get'[g], events')
  BY DEF Getting, Stands
<1>g. /\ get \in [Gets -> GetRecords] /\ get[g] \in GetRecords
      /\ get[g].len \in Nat /\ get[g].next \in Nat
  BY <1>0, GetFacts
<1>s. get'[g] \in GetRecords
  BY DEF Typed, TypeOK, GetRecords
<1>n. Stands(get[g], events)
  BY <1>0 DEF Getting, Stands
<1>1. CASE get'[g] = get[g]
  BY <1>1, <1>g, <1>n, StandsOn
<1>2. CASE get'[g].at \in {"idle", "done"}
  BY <1>2 DEF Stands
<1>3. ASSUME NEW h \in Gets, GetJob(h) \/ ReadAll(h) \/ Recreate(h) \/ ApplyNext(h),
             get'[g] # get[g], get'[g].at # "done"
      PROVE  Stands(get'[g], events)
  <2>1. CASE GetJob(h)
    <3>1. PICK c \in Answered :
            get' = [get EXCEPT ![h] = IF Known(c) THEN GetAt("done")
                                      ELSE [GetAt("read") EXCEPT !.id = c]]
      BY <2>1 DEF GetJob
    <3>2. get'[g] = [GetAt("read") EXCEPT !.id = c]
      BY <1>3, <1>g, <3>1 DEF GetAt
    <3>3. c \in Posts
      BY <1>0 DEF Answered, TypeOK
    <3>4. get'[g].id = c /\ get'[g].at = "read"
      BY <3>2 DEF GetAt
    <3> QED  BY <3>3, <3>4 DEF Stands
  <2>2. CASE ReadAll(h)
    <3>1. PICK n \in 0 .. Len(events[get[h].id]) :
            get' = [get EXCEPT ![h] = IF n = 0 THEN GetAt("done")
                                      ELSE [@ EXCEPT !.at = "ensure", !.len = n]]
      BY <2>2 DEF ReadAll
    <3>2. h = g /\ get[g].at = "read"
      BY <1>3, <1>g, <2>2, <3>1 DEF ReadAll
    <3>3. n # 0 /\ get'[g] = [get[g] EXCEPT !.at = "ensure", !.len = n]
      BY <1>3, <1>g, <3>1, <3>2 DEF GetAt
    <3>4. get'[g].id = get[g].id /\ get'[g].at = "ensure" /\ get'[g].len = n
      BY <1>g, <3>3 DEF GetRecords
    <3>5. get[g].id \in Posts
      BY <1>0, <3>2 DEF Getting
    <3>6. Len(events[get[g].id]) \in Nat
      BY <3>5, JobFacts
    <3>7. 1 <= n /\ n <= Len(events[get[g].id])
      BY <3>1, <3>2, <3>3, <3>6
    <3> QED  BY <3>4, <3>5, <3>7 DEF Stands
  <2>3. CASE Recreate(h)
    <3>1. h = g /\ get[g].at = "ensure"
      BY <1>3, <1>g, <2>3 DEF Recreate
    <3>2. get'[g] = [get[g] EXCEPT !.at = "apply", !.next = 1]
      BY <1>g, <2>3, <3>1 DEF Recreate
    <3>3. get'[g].id = get[g].id /\ get'[g].at = "apply" /\ get'[g].len = get[g].len
          /\ get'[g].next = 1
      BY <1>g, <3>2 DEF GetRecords
    <3> QED  BY <1>n, <3>1, <3>3 DEF Stands
  <2>4. CASE ApplyNext(h)
    <3>1. h = g /\ get[g].at = "apply"
      BY <1>3, <1>g, <2>4 DEF ApplyNext
    <3>2. get[g].next # get[g].len /\ get'[g] = [get[g] EXCEPT !.next = get[g].next + 1]
      BY <1>3, <1>g, <2>4, <3>1 DEF ApplyNext, GetAt
    <3>3. get'[g].id = get[g].id /\ get'[g].at = "apply" /\ get'[g].len = get[g].len
          /\ get'[g].next = get[g].next + 1
      BY <1>g, <3>1, <3>2 DEF GetRecords
    <3> QED  BY <1>g, <1>n, <3>1, <3>2, <3>3 DEF Stands
  <2> QED  BY <1>3, <2>1, <2>2, <2>3, <2>4
<1>4. CASE Restart
  <2>1. get'[g] = IF get[g].at = "idle" THEN get[g] ELSE GetAt("done")
    BY <1>4 DEF Restart
  <2>2. get'[g].at \in {"idle", "done"}
    BY <2>1 DEF GetAt
  <2> QED  BY <1>2, <2>2
<1>5. ASSUME NEW p \in Posts,
             \/ Post(p) \/ Claim(p) \/ Ensure(p) \/ MarkQueued(p)
             \/ PublishRequest(p) \/ Announce(p) \/ WorkerEvent(p) \/ Redeliver(p)
             \/ Consume(p) \/ AutoCommit(p) \/ Rewind(p)
      PROVE  UNCHANGED get
  BY <1>5
  DEF Post, Claim, Ensure, MarkQueued, PublishRequest, Announce, WorkerEvent, Redeliver,
      Consume, AutoCommit, Rewind
<1>6. ASSUME NEW d \in Deletes, CancelGet(d) \/ CancelUpdate(d) \/ CancelPublish(d)
      PROVE  UNCHANGED get
  BY <1>6 DEF CancelGet, CancelUpdate, CancelPublish
<1>7. UNCHANGED vars => UNCHANGED get
  BY DEF vars
<1>8. Stands(get'[g], events) => Stands(get'[g], events')
  BY <1>s, StandsOn
<1> QED  BY <1>1, <1>2, <1>3, <1>4, <1>5, <1>6, <1>7, <1>8 DEF Next

LEMMA ReadingStep ==
  ASSUME Base, [Next]_vars, Typed'
  PROVE  Reading'
<1> SUFFICES ASSUME NEW c \in Posts
             PROVE  committed'[c] <= cursor'[c] /\ cursor'[c] <= Len(events'[c])
  BY DEF Reading
<1>0. /\ TypeOK /\ cursor[c] \in Nat /\ committed[c] \in Nat /\ Len(events[c]) \in Nat
      /\ committed[c] <= cursor[c] /\ cursor[c] <= Len(events[c])
  BY JobFacts DEF Reading
<1>t. /\ cursor \in [Posts -> Nat] /\ committed \in [Posts -> Nat]
      /\ cursor' \in [Posts -> Nat] /\ Len(events'[c]) \in Nat
  <2>1. cursor \in [Posts -> Nat] /\ committed \in [Posts -> Nat]
    BY <1>0 DEF TypeOK
  <2>2. cursor' \in [Posts -> Nat] /\ events' \in [Posts -> Seq(Events)]
    BY DEF Typed, TypeOK
  <2>3. events'[c] \in Seq(Events)
    BY <2>2
  <2> QED  BY <2>1, <2>2, <2>3
<1>g. Len(events'[c]) >= Len(events[c])
  BY LogsGrow
<1>1. CASE UNCHANGED consumer
  BY <1>0, <1>t, <1>g, <1>1 DEF consumer
<1>2. CASE Restart
  BY <1>0, <1>t, <1>g, <1>2 DEF Restart
<1>3. ASSUME NEW p \in Posts, Consume(p) \/ AutoCommit(p) \/ Rewind(p)
      PROVE  committed'[c] <= cursor'[c] /\ cursor'[c] <= Len(events'[c])
  <2>1. CASE Consume(p)
    <3>1. committed' = committed /\ cursor'[c] = IF p = c THEN cursor[c] + 1 ELSE cursor[c]
      BY <1>t, <2>1 DEF Consume
    <3>2. p = c => cursor[c] < Len(events[c])
      BY <2>1 DEF Consume
    <3> QED  BY <1>0, <1>t, <1>g, <3>1, <3>2
  <2>2. CASE AutoCommit(p)
    <3>1. cursor' = cursor /\ committed'[c] = IF p = c THEN cursor[c] ELSE committed[c]
      BY <1>t, <2>2 DEF AutoCommit
    <3> QED  BY <1>0, <1>t, <1>g, <3>1
  <2>3. CASE Rewind(p)
    <3>1. committed' = committed /\ cursor'[c] = IF p = c THEN committed[c] ELSE cursor[c]
      BY <1>t, <2>3 DEF Rewind
    <3> QED  BY <1>0, <1>t, <1>g, <3>1
  <2> QED  BY <1>3, <2>1, <2>2, <2>3
<1>4. ASSUME NEW p \in Posts,
             \/ Post(p) \/ Claim(p) \/ Ensure(p) \/ MarkQueued(p)
             \/ PublishRequest(p) \/ Announce(p) \/ WorkerEvent(p) \/ Redeliver(p)
      PROVE  UNCHANGED consumer
  BY <1>4
  DEF Post, Claim, Ensure, MarkQueued, PublishRequest, Announce, WorkerEvent, Redeliver
<1>5. ASSUME NEW d \in Deletes, CancelGet(d) \/ CancelUpdate(d) \/ CancelPublish(d)
      PROVE  UNCHANGED consumer
  BY <1>5 DEF CancelGet, CancelUpdate, CancelPublish
<1>6. ASSUME NEW g \in Gets, GetJob(g) \/ ReadAll(g) \/ Recreate(g) \/ ApplyNext(g)
      PROVE  UNCHANGED consumer
  BY <1>6 DEF GetJob, ReadAll, Recreate, ApplyNext
<1>7. UNCHANGED vars => UNCHANGED consumer
  BY DEF vars
<1> QED  BY <1>1, <1>2, <1>3, <1>4, <1>5, <1>6, <1>7 DEF Next

LEMMA BaseInit == Init => Base
<1> SUFFICES ASSUME Init PROVE Base
  OBVIOUS
<1> USE DEF Init
<1>1. TypeOK
  <2>1. at \in [Posts -> PostPlaces] /\ id \in [Posts -> Posts] /\ idem \in Posts \cup {None}
    BY DEF PostPlaces
  <2>2. requests \in [Posts -> Nat] /\ events \in [Posts -> Seq(Events)]
        /\ cursor \in [Posts -> Nat] /\ committed \in [Posts -> Nat] /\ top \in [Posts -> Nat]
    OBVIOUS
  <2>3. worker \in [Posts -> [last : Types \cup {"none"}, seq : Nat]]
    OBVIOUS
  <2>4. store \in [Posts -> [status : Statuses, seq : Nat]]
    BY DEF NoJob, Statuses
  <2>5. delete \in [Deletes -> [at : DeletePlaces, id : Posts \cup {None}, seq : Nat]]
    BY DEF DeleteAt, DeletePlaces
  <2>6. get \in [Gets -> [at : GetPlaces, id : Posts \cup {None}, len : Nat, next : Nat]]
    BY DEF GetAt, GetPlaces
  <2>7. flaws \in [Posts -> SUBSET {"gap", "overtaken", "unlogged"}]
    OBVIOUS
  <2>8. faults \in 0 .. MaxFaults
    BY JobsAssumption
  <2> QED  BY <2>1, <2>2, <2>3, <2>4, <2>5, <2>6, <2>7, <2>8 DEF TypeOK
<1>2. WorkerStands
  BY DEF WorkerStands, Lasts
<1>3. Posting
  BY DEF Posting, Known, NoJob
<1>4. Deleting
  BY DEF Deleting, DeleteAt
<1>5. Getting
  BY DEF Getting, GetAt
<1>6. Reading
  BY DEF Reading
<1> QED  BY <1>1, <1>2, <1>3, <1>4, <1>5, <1>6 DEF Base

LEMMA BaseStep ==
  ASSUME Base, [Next]_vars
  PROVE  Base'
<1>1. Typed /\ Deleting /\ Getting
  BY DEF Base, Typed
<1>2. Typed'
  BY <1>1, TypedStep
<1> QED
  BY <1>2, PostingStep, DeletingStep, GettingStep, ReadingStep DEF Base, Typed

\* Every variable of Jobs keeps its type.
THEOREM JobTypes == Spec => []TypeOK
<1>1. Init => Base
  BY BaseInit
<1>2. Base /\ [Next]_vars => Base'
  BY BaseStep
<1>3. Base => TypeOK
  BY DEF Base
<1> QED  BY <1>1, <1>2, <1>3, PTL DEF Spec

-----------------------------------------------------------------------------
(* What is due is applied. *)

\* What the rows say of the GETs: one that is still to apply the event at i is
\* so after the step, unless it has applied it just now.
LEMMA AwaitedStays ==
  ASSUME NEW c \in Posts, NEW i, GetsStay(c), Awaited(c, i)
  PROVE  Awaited(c, i)'
<1>1. PICK g \in Gets : Applying(g, c) /\ get[g].next <= i /\ i <= get[g].len
  BY DEF Awaited
<1>2. get'[g] = get[g]
  BY <1>1 DEF GetsStay
<1> QED  BY <1>1, <1>2 DEF Awaited, Applying

LEMMA AwaitedMoves ==
  ASSUME Base, NEW c \in Posts, NEW i \in Nat, NEW g \in Gets, Recovers(c, g), Awaited(c, i),
         i # get[g].next
  PROVE  Awaited(c, i)'
<1>1. PICK h \in Gets : Applying(h, c) /\ get[h].next <= i /\ i <= get[h].len
  BY DEF Awaited
<1>2. CASE h # g
  <2>1. get'[h] = get[h]
    BY <1>1, <1>2 DEF Recovers
  <2> QED  BY <1>1, <2>1 DEF Awaited, Applying
<1>3. CASE h = g
  <2>1. get[g] \in GetRecords /\ get[g].next \in Nat /\ get[g].len \in Nat
    BY JobFacts, GetFacts
  <2>2. get[g].next # get[g].len
    BY <1>1, <1>3, <2>1
  <2>3. get'[g] = [get[g] EXCEPT !.next = get[g].next + 1]
    BY <2>2 DEF Recovers
  <2>4. get'[g].at = get[g].at /\ get'[g].id = get[g].id /\ get'[g].len = get[g].len
        /\ get'[g].next = get[g].next + 1
    BY <2>1, <2>3 DEF GetRecords
  <2>5. get'[g].next <= i
    BY <1>1, <1>3, <2>1, <2>4
  <2> QED  BY <1>1, <1>3, <2>4, <2>5 DEF Awaited, Applying
<1> QED  BY <1>2, <1>3

\* What a step that applies an event does to the number.
LEMMA AppliesFacts ==
  ASSUME Base, NEW c \in Posts, NEW i \in Nat, Applies(c, i)
  PROVE  /\ store'[c].seq \in {store[c].seq, events[c][i].seq}
         /\ store'[c].seq >= store[c].seq /\ store'[c].seq >= events[c][i].seq
         /\ store'[c].status = IF SetsStatus(events[c][i]) THEN StatusOf[events[c][i].type]
                               ELSE store[c].status
         /\ top'[c] >= top[c] /\ top'[c] >= i
         /\ i <= Len(events[c]) /\ events[c][i].seq \in Nat
<1>1. store[c] \in JobRecords /\ events[c] \in Seq(Events) /\ i \in DOMAIN events[c] /\ top[c] \in Nat
      /\ DOMAIN events[c] = 1 .. Len(events[c]) /\ Len(events[c]) \in Nat
  BY JobFacts DEF Applies
<1>2. events[c][i] \in Events
  BY <1>1
<1>3. events[c][i].seq \in Nat
  BY <1>2 DEF Events
<1>4. store'[c] = Applied(store[c], events[c][i]) /\ top'[c] = IF i > top[c] THEN i ELSE top[c]
  BY DEF Applies
<1>5. /\ store'[c].seq \in {store[c].seq, events[c][i].seq}
      /\ store'[c].seq >= store[c].seq /\ store'[c].seq >= events[c][i].seq
      /\ store'[c].status = IF SetsStatus(events[c][i]) THEN StatusOf[events[c][i].type]
                            ELSE store[c].status
  BY <1>1, <1>2, <1>4, AppliedFacts
<1> QED  BY <1>1, <1>3, <1>4, <1>5

\* What is due stays due until it is applied, and what comes is due.
LEMMA DueStays ==
  ASSUME Base, Base', NEW c \in Posts, Known(c), Row(c), NEW i \in Nat, Due(c, i)
  PROVE  Due(c, i)' \/ Applies(c, i)
<1>0. cursor[c] \in Nat /\ cursor'[c] \in Nat
  BY JobFacts DEF Base, TypeOK
<1>1. CASE Rests(c)
  <2>1. i > cursor[c] => i > cursor'[c]
    BY <1>0, <1>1 DEF Rests
  <2> QED  BY <1>1, <2>1, AwaitedStays DEF Rests, Due
<1>2. CASE Marks(c)
  BY <1>2, AwaitedStays DEF Marks, LogStays, Due
<1>3. CASE Gains(c)
  BY <1>3, AwaitedStays DEF Gains, Due
<1>4. CASE Reads(c)
  <2>1. CASE i = cursor[c] + 1
    BY <1>4, <2>1 DEF Reads
  <2>2. CASE i # cursor[c] + 1
    <3>1. i > cursor[c] => i > cursor'[c]
      BY <1>0, <1>4, <2>2 DEF Reads
    <3> QED  BY <1>4, <3>1, AwaitedStays DEF Reads, Due
  <2> QED  BY <2>1, <2>2
<1>5. ASSUME NEW g \in Gets, Recovers(c, g)
      PROVE  Due(c, i)' \/ Applies(c, i)
  <2>1. CASE i = get[g].next
    BY <1>5, <2>1 DEF Recovers
  <2>2. CASE i # get[g].next
    <3>1. Awaited(c, i) => Awaited(c, i)'
      BY <1>5, <2>2, AwaitedMoves
    <3> QED  BY <1>5, <3>1 DEF Recovers, LogStays, Due
  <2> QED  BY <2>1, <2>2
<1> QED  BY <1>1, <1>2, <1>3, <1>4, <1>5 DEF Row, Appears

\* What a step does to the log: it stays, or an event comes that is due.
LEMMA LogRow ==
  ASSUME Base, Base', NEW c \in Posts, Known(c), Row(c)
  PROVE  /\ DOMAIN events[c] \subseteq DOMAIN events'[c]
         /\ \A i \in DOMAIN events[c] : events'[c][i] = events[c][i]
         /\ \A i \in DOMAIN events'[c] \ DOMAIN events[c] : Due(c, i)' /\ ~Applies(c, i)
         /\ \A i \in DOMAIN events[c] : Due(c, i) => Due(c, i)' \/ Applies(c, i)
<1>0. /\ events[c] \in Seq(Events) /\ Len(events[c]) \in Nat /\ cursor[c] \in Nat
      /\ DOMAIN events[c] = 1 .. Len(events[c]) /\ cursor[c] <= Len(events[c])
  BY JobFacts DEF Reading
<1>1. \A i \in DOMAIN events[c] : Due(c, i) => Due(c, i)' \/ Applies(c, i)
  BY <1>0, DueStays
<1>2. CASE events'[c] = events[c]
  BY <1>1, <1>2
<1>3. CASE Gains(c)
  <2>1. PICK e \in Events : events'[c] = Append(events[c], e)
    BY <1>3 DEF Gains
  <2>2. DOMAIN events'[c] = 1 .. Len(events[c]) + 1
    BY <1>0, <2>1
  <2>3. \A i \in DOMAIN events[c] : events'[c][i] = events[c][i]
    BY <1>0, <2>1
  <2>4. cursor'[c] = cursor[c]
    BY <1>3 DEF Gains
  <2>5. ASSUME NEW i \in DOMAIN events'[c] \ DOMAIN events[c]
        PROVE  Due(c, i)' /\ ~Applies(c, i)
    <3>1. i > cursor'[c]
      BY <1>0, <2>2, <2>4
    <3> QED  BY <3>1 DEF Due, Applies
  <2>6. DOMAIN events[c] \subseteq DOMAIN events'[c]
    BY <1>0, <2>2
  <2> QED  BY <1>1, <2>3, <2>5, <2>6
<1> QED
  BY <1>2, <1>3 DEF Row, Appears, Rests, Marks, Reads, Recovers, LogStays

\* What a step does to the job: it stays, or an event is applied.
LEMMA NumberRow ==
  ASSUME Base, NEW c \in Posts, Known(c), Row(c)
  PROVE  /\ FlawsGrow(c) /\ top'[c] >= top[c] /\ store'[c].seq >= store[c].seq
         /\ \/ store'[c].seq = store[c].seq
            \/ \E i \in DOMAIN events[c] : store'[c].seq = events[c][i].seq
         /\ \A i \in Nat : Applies(c, i) => store'[c].seq >= events[c][i].seq /\ top'[c] >= i
<1>0. store[c].seq \in Nat /\ top[c] \in Nat /\ cursor[c] \in Nat
  BY JobFacts
<1>1. \A i \in Nat : Applies(c, i) =>
         /\ store'[c].seq \in {store[c].seq, events[c][i].seq}
         /\ store'[c].seq >= store[c].seq /\ store'[c].seq >= events[c][i].seq
         /\ top'[c] >= top[c] /\ top'[c] >= i
         /\ i \in DOMAIN events[c]
  BY AppliesFacts DEF Applies
<1>2. FlawsGrow(c)
  BY DEF Row, Appears, Rests, Marks, Gains, Reads, Recovers, FlawsGrow
<1>3. CASE \E i \in Nat : Applies(c, i)
  BY <1>1, <1>2, <1>3
<1>4. CASE store'[c].seq = store[c].seq /\ top'[c] = top[c]
  BY <1>0, <1>1, <1>2, <1>4
<1>5. \A g \in Gets : get[g].next \in Nat
  BY JobFacts, GetFacts
<1>6. (\E i \in Nat : Applies(c, i)) \/ (store'[c].seq = store[c].seq /\ top'[c] = top[c])
  <2>1. CASE Rests(c) \/ Marks(c) \/ Gains(c)
    BY <2>1 DEF Rests, Marks, Gains
  <2>2. CASE Reads(c)
    <3>1. Applies(c, cursor[c] + 1) /\ cursor[c] + 1 \in Nat
      BY <1>0, <2>2 DEF Reads
    <3> QED  BY <3>1
  <2>3. CASE \E g \in Gets : Recovers(c, g)
    BY <1>5, <2>3 DEF Recovers
  <2> QED  BY <2>1, <2>2, <2>3 DEF Row, Appears
<1> QED  BY <1>3, <1>4, <1>6

LEMMA CoveredStep ==
  ASSUME Base, Base', Covered, [Next]_vars
  PROVE  Covered'
<1> SUFFICES ASSUME NEW c \in Posts, Known(c)', "gap" \notin flaws'[c],
                    NEW i \in DOMAIN events'[c]
             PROVE  i <= top'[c] \/ Due(c, i)'
  BY DEF Covered
<1>0. /\ Row(c) /\ top[c] \in Nat /\ top'[c] \in Nat /\ cursor[c] \in Nat /\ Len(events[c]) \in Nat
      /\ DOMAIN events[c] = 1 .. Len(events[c])
  <2>1. top'[c] \in Nat
    BY DEF Base, TypeOK
  <2> QED  BY <2>1, JobRow, JobFacts
<1>1. CASE ~Known(c)
  <2>1. events'[c] = events[c] /\ cursor'[c] = cursor[c] /\ \A j \in 1 .. cursor[c] : Awaited(c, j)'
    BY <1>0, <1>1 DEF Row, Appears, LogStays
  <2> QED  BY <1>0, <2>1 DEF Due
<1>2. CASE Known(c)
  <2>1. "gap" \notin flaws[c] /\ top'[c] >= top[c]
    BY <1>0, <1>2, NumberRow DEF FlawsGrow
  <2>2. CASE i \notin DOMAIN events[c]
    BY <1>0, <1>2, <2>2, LogRow
  <2>3. CASE i \in DOMAIN events[c]
    <3>1. i <= top[c] \/ Due(c, i)
      BY <1>2, <2>1, <2>3 DEF Covered
    <3>2. i \in Nat
      BY <1>0, <2>3
    <3>3. Due(c, i) => Due(c, i)' \/ Applies(c, i)
      BY <1>0, <1>2, <2>3, LogRow
    <3>4. Applies(c, i) => top'[c] >= i
      BY <1>0, <1>2, <3>2, NumberRow
    <3> QED  BY <1>0, <2>1, <3>1, <3>2, <3>3, <3>4
  <2> QED  BY <2>2, <2>3
<1> QED  BY <1>1, <1>2

LEMMA NumberedStep ==
  ASSUME Base, Base', Numbered, [Next]_vars
  PROVE  Numbered'
<1> SUFFICES ASSUME NEW c \in Posts, Known(c)'
             PROVE  /\ \/ store'[c].seq = 0
                       \/ \E i \in DOMAIN events'[c] : store'[c].seq = events'[c][i].seq
                    /\ "gap" \notin flaws'[c] =>
                         \A i \in DOMAIN events'[c] :
                           events'[c][i].seq <= store'[c].seq \/ Due(c, i)'
  BY DEF Numbered
<1>0. /\ Row(c) /\ cursor[c] \in Nat /\ Len(events[c]) \in Nat
      /\ DOMAIN events[c] = 1 .. Len(events[c]) /\ store[c].seq \in Nat /\ events[c] \in Seq(Events)
  BY JobRow, JobFacts
<1>t. store'[c].seq \in Nat
  <2>1. store'[c] \in JobRecords
    BY DEF Base, TypeOK, JobRecords
  <2> QED  BY <2>1 DEF JobRecords
<1>1. CASE ~Known(c)
  <2>1. /\ events'[c] = events[c] /\ cursor'[c] = cursor[c] /\ store'[c] = [status |-> "queued", seq |-> 0]
        /\ "gap" \notin flaws'[c] => \A j \in 1 .. cursor[c] : Awaited(c, j)'
    BY <1>0, <1>1 DEF Row, Appears, LogStays
  <2>2. store'[c].seq = 0
    BY <2>1
  <2>3. "gap" \notin flaws'[c] => \A i \in DOMAIN events'[c] : Due(c, i)'
    BY <1>0, <2>1 DEF Due
  <2> QED  BY <2>2, <2>3
<1>2. CASE Known(c)
  <2>1. /\ DOMAIN events[c] \subseteq DOMAIN events'[c]
        /\ \A i \in DOMAIN events[c] : events'[c][i] = events[c][i]
    BY <1>0, <1>2, LogRow
  <2>2. store'[c].seq = 0 \/ \E i \in DOMAIN events'[c] : store'[c].seq = events'[c][i].seq
    <3>1. \/ store'[c].seq = store[c].seq
          \/ \E i \in DOMAIN events[c] : store'[c].seq = events[c][i].seq
      BY <1>0, <1>2, NumberRow
    <3>2. store[c].seq = 0 \/ \E i \in DOMAIN events[c] : store[c].seq = events[c][i].seq
      BY <1>2 DEF Numbered
    <3> QED  BY <2>1, <3>1, <3>2
  <2>3. ASSUME "gap" \notin flaws'[c], NEW i \in DOMAIN events'[c]
        PROVE  events'[c][i].seq <= store'[c].seq \/ Due(c, i)'
    <3>1. "gap" \notin flaws[c] /\ store'[c].seq >= store[c].seq
      BY <1>0, <1>2, <2>3, NumberRow DEF FlawsGrow
    <3>2. CASE i \notin DOMAIN events[c]
      BY <1>0, <1>2, <3>2, LogRow
    <3>3. CASE i \in DOMAIN events[c]
      <4>1. events[c][i].seq <= store[c].seq \/ Due(c, i)
        BY <1>2, <3>1, <3>3 DEF Numbered
      <4>2. i \in Nat
        BY <1>0, <3>3
      <4>3. Due(c, i) => Due(c, i)' \/ Applies(c, i)
        BY <1>0, <1>2, <3>3, LogRow
      <4>4. Applies(c, i) => store'[c].seq >= events[c][i].seq
        BY <1>0, <1>2, <4>2, NumberRow
      <4>5. events[c][i].seq \in Nat
        <5>1. events[c][i] \in Events
          BY <1>0, <3>3
        <5> QED  BY <5>1 DEF Events
      <4>6. events'[c][i] = events[c][i]
        BY <2>1, <3>3
      <4> QED  BY <1>0, <1>t, <3>1, <4>1, <4>3, <4>4, <4>5, <4>6
    <3> QED  BY <3>2, <3>3
  <2> QED  BY <2>2, <2>3
<1> QED  BY <1>1, <1>2

-----------------------------------------------------------------------------
(* The status. *)

LEMMA LatestIsOne ==
  ASSUME Base, NEW c \in Posts, NEW i \in Nat, NEW j \in Nat, Latest(c, i), Latest(c, j)
  PROVE  i = j
BY DEF Latest

\* The last event that sets a status stays the last, or a new one takes its
\* place and is due.
LEMMA LatestRow ==
  ASSUME Base, Base', NEW c \in Posts, Row(c)
  PROVE  \/ /\ events'[c] = events[c]
         \/ /\ Known(c)
            /\ \E i \in Nat : Latest(c, i)' /\ Due(c, i)'
         \/ /\ Known(c) /\ CancelsStay(c) /\ store'[c] = store[c]
            /\ Silent(c) => Silent(c)'
            /\ \A i \in Nat : Latest(c, i) => Latest(c, i)' /\ events'[c][i] = events[c][i]
<1>0. /\ events[c] \in Seq(Events) /\ Len(events[c]) \in Nat /\ cursor[c] \in Nat
      /\ DOMAIN events[c] = 1 .. Len(events[c]) /\ cursor[c] <= Len(events[c])
  BY JobFacts DEF Reading
<1>1. CASE Known(c) /\ Gains(c)
  <2>1. PICK e \in Events : events'[c] = Append(events[c], e) /\ (CancelsStay(c) \/ SetsStatus(e))
    BY <1>1 DEF Gains
  <2>n. PICK n \in Nat : n = Len(events[c]) + 1
    BY <1>0
  <2>2. /\ DOMAIN events'[c] = 1 .. n /\ events'[c][n] = e
        /\ \A i \in DOMAIN events[c] : events'[c][i] = events[c][i]
    BY <1>0, <2>1, <2>n
  <2>3. CASE SetsStatus(e)
    <3>1. Latest(c, n)'
      BY <1>0, <2>n, <2>2, <2>3 DEF Latest
    <3>2. Due(c, n)'
      BY <1>0, <1>1, <2>n DEF Gains, Due
    <3> QED  BY <1>1, <2>2, <3>1, <3>2
  <2>4. CASE ~SetsStatus(e)
    <3>1. CancelsStay(c) /\ store'[c] = store[c]
      BY <1>1, <2>1, <2>4 DEF Gains
    <3>2. Silent(c) => Silent(c)'
      BY <1>0, <2>n, <2>2, <2>4 DEF Silent
    <3>3. ASSUME NEW i \in Nat, Latest(c, i)
          PROVE  Latest(c, i)' /\ events'[c][i] = events[c][i]
      BY <1>0, <2>n, <2>2, <2>4, <3>3 DEF Latest
    <3> QED  BY <1>1, <3>1, <3>2, <3>3
  <2> QED  BY <2>3, <2>4
<1>2. CASE ~(Known(c) /\ Gains(c))
  BY <1>2 DEF Row, Appears, Rests, Marks, Reads, Recovers, LogStays
<1> QED  BY <1>1, <1>2

LEMMA EndedStep ==
  ASSUME Base, Base', Ended, [Next]_vars
  PROVE  Ended'
<1> SUFFICES ASSUME NEW c \in Posts
             PROVE  Silent(c)' \/ \E i \in Nat : Latest(c, i)'
  BY DEF Ended
<1>0. Silent(c) \/ \E i \in Nat : Latest(c, i)
  BY DEF Ended
<1>1. CASE events'[c] = events[c]
  BY <1>0, <1>1 DEF Silent, Latest
<1>2. CASE events'[c] # events[c]
  <2>1. PICK e \in Events : events'[c] = Append(events[c], e)
    <3>1. TypeOK /\ Deleting /\ events \in [Posts -> Seq(Events)]
      BY DEF Base, TypeOK
    <3>2. \A d \in Deletes : CancelPublish(d) => delete[d].id \in Posts
      BY <3>1 DEF CancelPublish, Deleting
    <3>3. PICK p \in Posts, e \in Events : Comes(p, e)
      BY <1>2, <3>2, EventsCome
    <3>4. p = c
      BY <1>2, <3>1, <3>3 DEF Comes
    <3> QED  BY <3>1, <3>3, <3>4 DEF Comes
  <2>2. events[c] \in Seq(Events) /\ Len(events[c]) \in Nat /\ DOMAIN events[c] = 1 .. Len(events[c])
    BY JobFacts
  <2>n. PICK n \in Nat : n = Len(events[c]) + 1
    BY <2>2
  <2>3. /\ DOMAIN events'[c] = 1 .. n /\ events'[c][n] = e
        /\ \A i \in DOMAIN events[c] : events'[c][i] = events[c][i]
    BY <2>1, <2>2, <2>n
  <2>4. CASE SetsStatus(e)
    <3>1. Latest(c, n)'
      BY <2>2, <2>n, <2>3, <2>4 DEF Latest
    <3> QED  BY <3>1
  <2>5. CASE ~SetsStatus(e)
    <3>1. Silent(c) => Silent(c)'
      BY <2>2, <2>n, <2>3, <2>5 DEF Silent
    <3>2. ASSUME NEW i \in Nat, Latest(c, i)
          PROVE  Latest(c, i)'
      BY <2>2, <2>n, <2>3, <2>5, <3>2 DEF Latest
    <3> QED  BY <1>0, <3>1, <3>2
  <2> QED  BY <2>4, <2>5
<1> QED  BY <1>1, <1>2

\* A GET that is behind stays behind until it has said so.
LEMMA BehindStays ==
  ASSUME Base, Base', NEW c \in Posts, Known(c), Row(c), Behind(c)
  PROVE  Behind(c)' \/ flaws'[c] # {}
<1>0. top'[c] >= top[c] /\ top[c] \in Nat /\ top'[c] \in Nat
  <2>1. top'[c] \in Nat
    BY DEF Base, TypeOK
  <2> QED  BY <2>1, NumberRow, JobFacts
<1>1. PICK g \in Gets : Applying(g, c) /\ get[g].len < top[c]
  BY DEF Behind
<1>g. get[g] \in GetRecords /\ get[g].len \in Nat /\ get[g].next \in Nat
  BY JobFacts, GetFacts
<1>2. CASE get'[g] = get[g]
  BY <1>0, <1>1, <1>2, <1>g DEF Behind, Applying
<1>3. CASE Recovers(c, g)
  <2>1. CASE get[g].next = get[g].len
    BY <1>1, <1>3, <1>g, <2>1 DEF Recovers
  <2>2. CASE get[g].next # get[g].len
    <3>1. get'[g] = [get[g] EXCEPT !.next = get[g].next + 1]
      BY <1>3, <2>2 DEF Recovers
    <3>2. get'[g].at = get[g].at /\ get'[g].id = get[g].id /\ get'[g].len = get[g].len
      BY <1>g, <3>1 DEF GetRecords
    <3>3. Applying(g, c)' /\ get'[g].len < top'[c]
      BY <1>0, <1>1, <1>g, <3>2 DEF Applying
    <3> QED  BY <3>3 DEF Behind
  <2> QED  BY <2>1, <2>2
<1>4. \A h \in Gets : Recovers(c, h) /\ h # g => get'[g] = get[g]
  BY <1>1 DEF Recovers
<1>5. GetsStay(c) => get'[g] = get[g]
  BY <1>1 DEF GetsStay
<1> QED
  BY <1>2, <1>3, <1>4, <1>5 DEF Row, Appears, Rests, Marks, Gains, Reads

LEMMA CancellingStays ==
  ASSUME NEW c \in Posts, CancelsStay(c), Cancelling(c)
  PROVE  Cancelling(c)'
BY DEF CancelsStay, Cancelling

\* The event that gives the status stays due, or its status is set.
LEMMA PendingStays ==
  ASSUME Base, Base', NEW c \in Posts, Known(c), Row(c), NEW i \in Nat,
         Latest(c, i), Due(c, i), Latest(c, i)', events'[c][i] = events[c][i]
  PROVE  Pending(c)' \/ Agrees(c)'
<1>1. Due(c, i)' \/ Applies(c, i)
  BY DueStays
<1>2. CASE Due(c, i)'
  BY <1>2 DEF Pending
<1>3. CASE Applies(c, i)
  <2>1. store'[c].status = StatusOf[events[c][i].type]
    BY <1>3, AppliesFacts DEF Latest
  <2> QED  BY <2>1 DEF Agrees
<1> QED  BY <1>1, <1>2, <1>3

\* A job that agrees with its log goes on to agree with it, or the event that
\* gives the status is still to be applied, or the GET that disturbed it is
\* behind.
LEMMA AgreesMoves ==
  ASSUME Base, Base', NEW c \in Posts, Known(c), Row(c), events'[c] = events[c],
         Covered, flaws[c] = {}, flaws'[c] = {}, Agrees(c)
  PROVE  Agrees(c)' \/ Pending(c)' \/ Behind(c)' \/ Cancelling(c)'
<1>0. /\ cursor[c] \in Nat /\ top[c] \in Nat /\ Len(events[c]) \in Nat
      /\ DOMAIN events[c] = 1 .. Len(events[c]) /\ events[c] \in Seq(Events)
  BY JobFacts
<1>1. CASE store'[c].status = store[c].status
  BY <1>1 DEF Agrees, Silent, Latest
<1>2. ASSUME NEW k \in Nat, Applies(c, k), store'[c].status # store[c].status,
             ~Agrees(c)'
      PROVE  \E i \in Nat : Latest(c, i) /\ Latest(c, i)' /\ k < i
  <2>1. SetsStatus(events[c][k]) /\ store'[c].status = StatusOf[events[c][k].type]
        /\ k \in DOMAIN events[c]
    BY <1>2, AppliesFacts DEF Applies
  <2>2. PICK i \in Nat : Latest(c, i)
    BY <2>1 DEF Agrees, Silent
  <2>3. Latest(c, i)'
    BY <2>2 DEF Latest
  <2>4. k <= i
    BY <2>1, <2>2 DEF Latest
  <2>5. k # i
    BY <1>2, <2>1, <2>3 DEF Agrees
  <2> QED  BY <2>2, <2>3, <2>4, <2>5
<1>3. CASE Reads(c)
  <2>1. cursor[c] + 1 \in Nat /\ Applies(c, cursor[c] + 1) /\ cursor'[c] = cursor[c] + 1
    BY <1>0, <1>3 DEF Reads
  <2>2. CASE store'[c].status # store[c].status /\ ~Agrees(c)'
    <3>1. PICK i \in Nat : Latest(c, i)' /\ cursor[c] + 1 < i
      BY <1>2, <2>1, <2>2
    <3>2. Due(c, i)'
      BY <2>1, <3>1 DEF Due
    <3> QED  BY <3>1, <3>2 DEF Pending
  <2> QED  BY <1>1, <2>2
<1>4. ASSUME NEW g \in Gets, Recovers(c, g), store'[c].status # store[c].status, ~Agrees(c)'
      PROVE  Pending(c)' \/ Behind(c)'
  <2>g. get[g] \in GetRecords /\ get[g].next \in Nat /\ get[g].len \in Nat
    BY JobFacts, GetFacts
  <2>1. Applies(c, get[g].next) /\ Applying(g, c)
    BY <1>4 DEF Recovers
  <2>2. PICK i \in Nat : Latest(c, i) /\ Latest(c, i)' /\ get[g].next < i
    BY <1>2, <1>4, <2>1, <2>g
  <2>3. i <= top[c] \/ Due(c, i)
    BY <2>2 DEF Covered, Latest
  <2>4. CASE Due(c, i)
    BY <1>4, <2>2, <2>4, PendingStays
  <2>5. CASE i <= get[g].len
    <3>1. get'[g] = [get[g] EXCEPT !.next = get[g].next + 1]
      BY <1>4, <2>2, <2>5, <2>g DEF Recovers
    <3>2. get'[g].at = get[g].at /\ get'[g].id = get[g].id /\ get'[g].len = get[g].len
          /\ get'[g].next = get[g].next + 1
      BY <2>g, <3>1 DEF GetRecords
    <3>3. Applying(g, c)' /\ get'[g].next <= i /\ i <= get'[g].len
      BY <2>1, <2>2, <2>5, <2>g, <3>2 DEF Applying
    <3>4. Due(c, i)'
      BY <3>3 DEF Due, Awaited
    <3> QED  BY <2>2, <3>4 DEF Pending
  <2>6. CASE i > get[g].len /\ i <= top[c]
    <3>1. Behind(c)
      BY <1>0, <2>1, <2>6, <2>g DEF Behind
    <3> QED  BY <3>1, BehindStays
  <2> QED  BY <2>3, <2>4, <2>5, <2>6, <2>g
<1>5. CASE Marks(c)
  BY <1>5 DEF Marks
<1>6. Rests(c) \/ Gains(c) => store'[c].status = store[c].status
  BY DEF Rests, Gains
<1> QED  BY <1>1, <1>3, <1>4, <1>5, <1>6 DEF Row, Appears

LEMMA DecidedStep ==
  ASSUME Base, Base', Ended, Covered, Decided, [Next]_vars
  PROVE  Decided'
<1> SUFFICES ASSUME NEW c \in Posts, Known(c)', flaws'[c] = {}
             PROVE  Agrees(c)' \/ Pending(c)' \/ Behind(c)' \/ Cancelling(c)'
  BY DEF Decided
<1>0. /\ Row(c) /\ cursor[c] \in Nat /\ Len(events[c]) \in Nat
      /\ DOMAIN events[c] = 1 .. Len(events[c])
  BY JobRow, JobFacts
<1>1. CASE ~Known(c)
  <2>1. /\ store'[c] = [status |-> "queued", seq |-> 0] /\ events'[c] = events[c]
        /\ cursor'[c] = cursor[c] /\ \A j \in 1 .. cursor[c] : Awaited(c, j)'
    BY <1>0, <1>1 DEF Row, Appears, LogStays
  <2>2. CASE Silent(c)
    BY <2>1, <2>2 DEF Agrees, Silent
  <2>3. CASE \E i \in Nat : Latest(c, i)
    <3>1. PICK i \in Nat : Latest(c, i)
      BY <2>3
    <3>2. Latest(c, i)' /\ i >= 1
      BY <1>0, <2>1, <3>1 DEF Latest
    <3>3. Due(c, i)'
      BY <1>0, <2>1, <3>2 DEF Due
    <3> QED  BY <3>2, <3>3 DEF Pending
  <2> QED  BY <2>2, <2>3 DEF Ended
<1>2. CASE Known(c)
  <2>0. flaws[c] = {}
    BY <1>0, <1>2, NumberRow DEF FlawsGrow
  <2>1. \/ events'[c] = events[c]
        \/ Pending(c)'
        \/ /\ CancelsStay(c) /\ store'[c] = store[c]
           /\ Silent(c) => Silent(c)'
           /\ \A i \in Nat : Latest(c, i) => Latest(c, i)' /\ events'[c][i] = events[c][i]
    BY <1>0, LatestRow DEF Pending
  <2>2. CASE Behind(c)
    BY <1>0, <1>2, <2>2, BehindStays
  <2>3. CASE Cancelling(c)
    <3>1. CASE CancelsStay(c)
      BY <2>3, <3>1, CancellingStays
    <3>2. CASE ~CancelsStay(c) /\ events'[c] = events[c]
      <4>1. Marks(c) \/ Gains(c)
        BY <1>0, <1>2, <3>2 DEF Row, Appears, Rests, Reads, Recovers
      <4>2. ~Gains(c)
        <5>1. events[c] \in Seq(Events)
          BY JobFacts
        <5>2. \A e \in Events : Append(events[c], e) # events[c]
          BY <1>0, <5>1
        <5> QED  BY <3>2, <5>2 DEF Gains
      <4> QED  BY <4>1, <4>2 DEF Marks
    <3> QED  BY <2>1, <3>1, <3>2
  <2>4. CASE Pending(c)
    <3>1. PICK i \in Nat : Latest(c, i) /\ Due(c, i)
      BY <2>4 DEF Pending
    <3>2. CASE Latest(c, i)' /\ events'[c][i] = events[c][i]
      BY <1>0, <1>2, <3>1, <3>2, PendingStays
    <3>3. events'[c] = events[c] => Latest(c, i)' /\ events'[c][i] = events[c][i]
      BY <3>1 DEF Latest
    <3> QED  BY <2>1, <3>1, <3>2, <3>3
  <2>5. CASE Agrees(c)
    <3>1. CASE events'[c] = events[c]
      BY <1>0, <1>2, <2>0, <2>5, <3>1, AgreesMoves
    <3>2. CASE /\ CancelsStay(c) /\ store'[c] = store[c]
               /\ Silent(c) => Silent(c)'
               /\ \A i \in Nat : Latest(c, i) => Latest(c, i)' /\ events'[c][i] = events[c][i]
      BY <2>5, <3>2 DEF Agrees
    <3> QED  BY <2>1, <3>1, <3>2
  <2> QED  BY <1>2, <2>0, <2>2, <2>3, <2>4, <2>5 DEF Decided
<1> QED  BY <1>1, <1>2

-----------------------------------------------------------------------------
(* The theorems. *)

Settling == Base /\ Ended /\ Covered /\ Numbered /\ Decided

LEMMA SettlingInit == Init => Settling
<1> SUFFICES ASSUME Init PROVE Settling
  OBVIOUS
<1>1. Base
  BY BaseInit
<1>2. \A c \in Posts : ~Known(c) /\ events[c] = <<>>
  BY DEF Init, Known, NoJob
<1>3. Ended
  BY <1>2 DEF Ended, Silent
<1>4. Covered /\ Numbered /\ Decided
  BY <1>2 DEF Covered, Numbered, Decided
<1> QED  BY <1>1, <1>3, <1>4 DEF Settling

LEMMA SettlingStep ==
  ASSUME Settling, [Next]_vars
  PROVE  Settling'
<1> USE DEF Settling
<1>1. Base'
  BY BaseStep
<1> QED  BY <1>1, EndedStep, CoveredStep, NumberedStep, DecidedStep

\* Of a settled job nothing is due, no GET is behind and no DELETE is under way.
LEMMA SettledIsDone ==
  ASSUME Base, NEW c \in Posts, Settled(c)
  PROVE  /\ Known(c)
         /\ \A i \in DOMAIN events[c] : ~Due(c, i)
         /\ ~Behind(c) /\ ~Cancelling(c)
<1>1. Known(c) /\ cursor[c] = Len(events[c]) /\ cursor[c] \in Nat
      /\ DOMAIN events[c] = 1 .. Len(events[c])
  BY JobFacts DEF Settled
<1>2. \A g \in Gets : ~Applying(g, c)
  BY DEF Settled, Applying
<1>3. \A i : ~Awaited(c, i)
  BY <1>2 DEF Awaited
<1>4. ~Behind(c)
  BY <1>2 DEF Behind
<1>5. ~Cancelling(c)
  BY DEF Settled, Cancelling
<1>6. \A i \in DOMAIN events[c] : ~Due(c, i)
  BY <1>1, <1>3 DEF Due
<1> QED  BY <1>1, <1>4, <1>5, <1>6

\* The greatest of a set of numbers is the one that is not below another.
LEMMA GreatestIsMax ==
  ASSUME NEW S \in SUBSET Nat, NEW m \in S, \A x \in S : x <= m
  PROVE  Max(S) = m
<1> DEFINE P(x) == \A y \in S : x >= y
<1>1. P(m)
  OBVIOUS
<1>2. \A x \in S : P(x) => x = m
  OBVIOUS
<1>3. (CHOOSE x \in S : P(x)) = m
  <2> HIDE DEF P
  <2> QED  BY <1>1, <1>2
<1> QED  BY <1>3 DEF Max

LEMMA SettlingSequence ==
  ASSUME Settling
  PROVE  SettledSequenceIsLogged
<1> SUFFICES ASSUME NEW c \in Posts, Settled(c), "gap" \notin flaws[c]
             PROVE  store[c].seq = LoggedSequence(events[c])
  BY DEF SettledSequenceIsLogged
<1> DEFINE log == events[c]
           S == {log[i].seq : i \in DOMAIN log} \cup {0}
           m == store[c].seq
<1>0. Base /\ Numbered
  BY DEF Settling
<1>1. Known(c) /\ \A i \in DOMAIN log : ~Due(c, i)
  BY <1>0, SettledIsDone
<1>2. log \in Seq(Events) /\ m \in Nat
  BY <1>0, JobFacts
<1>3. \A i \in DOMAIN log : log[i].seq \in Nat
  <2>1. \A i \in DOMAIN log : log[i] \in Events
    BY <1>2
  <2> QED  BY <2>1 DEF Events
<1>4. S \in SUBSET Nat
  BY <1>3
<1>5. m \in S
  BY <1>0, <1>1 DEF Numbered
<1>6. \A i \in DOMAIN log : log[i].seq <= m
  BY <1>0, <1>1 DEF Numbered
<1>7. \A x \in S : x <= m
  BY <1>2, <1>6
<1>8. Max(S) = m
  <2> HIDE DEF S, m
  <2> QED  BY <1>4, <1>5, <1>7, GreatestIsMax
<1> QED  BY <1>8 DEF LoggedSequence

LEMMA SettlingStatus ==
  ASSUME Settling
  PROVE  SettledStatusIsLogged
<1> SUFFICES ASSUME NEW c \in Posts, Settled(c), flaws[c] = {}
             PROVE  store[c].status = LoggedStatus(events[c])
  BY DEF SettledStatusIsLogged
<1> DEFINE log == events[c]
           S == {i \in DOMAIN log : SetsStatus(log[i])}
<1>0. Base /\ Decided
  BY DEF Settling
<1>1. Known(c) /\ ~Behind(c) /\ ~Cancelling(c) /\ \A i \in DOMAIN log : ~Due(c, i)
  BY <1>0, SettledIsDone
<1>2. ~Pending(c)
  BY <1>1 DEF Pending, Latest
<1>3. Agrees(c)
  BY <1>0, <1>1, <1>2 DEF Decided
<1>4. CASE Silent(c) /\ store[c].status = "queued"
  <2>1. S = {}
    BY <1>4 DEF Silent
  <2> QED  BY <1>4, <2>1 DEF LoggedStatus
<1>5. CASE \E i \in Nat : Latest(c, i) /\ store[c].status = StatusOf[log[i].type]
  <2>1. PICK i \in Nat : Latest(c, i) /\ store[c].status = StatusOf[log[i].type]
    BY <1>5
  <2>2. DOMAIN log \in SUBSET Nat
    BY <1>0, JobFacts
  <2>3. i \in S /\ \A j \in S : j <= i
    BY <2>1 DEF Latest
  <2>4. S \in SUBSET Nat
    BY <2>2
  <2>5. Max(S) = i /\ S # {}
    <3> HIDE DEF S
    <3> QED  BY <2>3, <2>4, GreatestIsMax
  <2> QED  BY <2>1, <2>5 DEF LoggedStatus
<1> QED  BY <1>3, <1>4, <1>5 DEF Agrees

\* A settled job has the sequence of its log, whatever was redelivered, rewound,
\* restarted, cancelled or recovered, unless a recovery left a gap.
THEOREM SequencesAreLogged == Spec => []SettledSequenceIsLogged
<1>1. Settling /\ [Next]_vars => Settling'
  BY SettlingStep
<1>2. Settling => SettledSequenceIsLogged
  BY SettlingSequence
<1> QED  BY <1>1, <1>2, SettlingInit, PTL DEF Spec

\* A settled job has the status its log ends with, but for a recovery that left
\* a gap or was overtaken, and a cancelled event that was not stored.
THEOREM StatusesAreLogged == Spec => []SettledStatusIsLogged
<1>1. Settling /\ [Next]_vars => Settling'
  BY SettlingStep
<1>2. Settling => SettledStatusIsLogged
  BY SettlingStatus
<1> QED  BY <1>1, <1>2, SettlingInit, PTL DEF Spec

=============================================================================
