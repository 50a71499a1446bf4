------------------------------ MODULE Producer ------------------------------
(***************************************************************************)
(* kafka.Producer: any number of goroutines call Publish on one Sarama     *)
(* AsyncProducer.  A call puts its record into Input and then takes        *)
(* whatever comes first from Successes or Errors, which carry the          *)
(* acknowledgements of all calls.  A call whose context ends returns       *)
(* without taking one, and its acknowledgement stays for somebody else.    *)
(* A call has one record of its own, so the call also names the record.    *)
(***************************************************************************)
EXTENDS Integers, FiniteSets

CONSTANTS
  Calls,      \* calls of Publish
  Capacity    \* records Sarama holds whose acknowledgements nobody has taken

ASSUME ProducerAssumption == IsFiniteSet(Calls) /\ Capacity \in Nat \ {0}

VARIABLES
  call,       \* call -> where it stands, or what it has returned
  ack,        \* call -> the acknowledgement of its record
  stored,     \* records the broker has
  producer,   \* open, closing or closed
  shared      \* history: a record was sent while another one's acknowledgement was due

vars == <<call, ack, stored, producer, shared>>

InPipeline == {c \in Calls : ack[c] \in {"flight", "success", "error"}}
Waiting == {c \in Calls : call[c] = "waiting"}
Abandoned == {c \in Calls : call[c] = "abandoned"}

Init ==
  /\ call = [c \in Calls |-> "input"]
  /\ ack = [c \in Calls |-> "none"]
  /\ stored = {}
  /\ producer = "open"
  /\ shared = FALSE

-----------------------------------------------------------------------------
(* A call of Publish. *)

\* The first select.  A producer that is closing takes a record only to answer
\* it with an error; one that is closed has closed Input, and the send panics.
Send(c) ==
  /\ call[c] = "input"
  /\ IF producer = "closed"
     THEN call' = [call EXCEPT ![c] = "panicked"] /\ UNCHANGED <<ack, shared>>
     ELSE /\ Cardinality(InPipeline) < Capacity
          /\ call' = [call EXCEPT ![c] = "waiting"]
          /\ ack' = [ack EXCEPT ![c] = IF producer = "open" THEN "flight" ELSE "error"]
          /\ shared' = (shared \/ InPipeline # {})
  /\ UNCHANGED <<stored, producer>>

\* Mutant of Take: an error counts as an acknowledgement.
TakeAny(c, d) ==
  /\ call[c] = "waiting" /\ ack[d] \in {"success", "error"}
  /\ call' = [call EXCEPT ![c] = "nil"]
  /\ ack' = [ack EXCEPT ![d] = "taken"]
  /\ UNCHANGED <<stored, producer, shared>>

\* Mutant of Take: the call returns what it took as it is.
TakeRaw(c, d) ==
  /\ call[c] = "waiting" /\ ack[d] \in {"success", "error"}
  /\ call' = [call EXCEPT ![c] = ack[d]]
  /\ ack' = [ack EXCEPT ![d] = "taken"]
  /\ UNCHANGED <<stored, producer, shared>>

\* Mutant of Take: the acknowledgement stays on its channel.
TakeAgain(c, d) ==
  /\ call[c] = "waiting" /\ ack[d] \in {"success", "error"}
  /\ call' = [call EXCEPT ![c] = IF ack[d] = "success" THEN "nil" ELSE "error"]
  /\ UNCHANGED <<ack, stored, producer, shared>>

\* The second select: c takes the acknowledgement of d, whoever d is.
Take(c, d) ==
  /\ call[c] = "waiting" /\ ack[d] \in {"success", "error"}
  /\ call' = [call EXCEPT ![c] = IF ack[d] = "success" THEN "nil" ELSE "error"]
  /\ ack' = [ack EXCEPT ![d] = "taken"]
  /\ UNCHANGED <<stored, producer, shared>>

\* The channels are closed: a receive from Successes yields nothing and the call
\* returns nil all the same (here "empty", to tell it from a nil that took an
\* acknowledgement), one from Errors yields no error to wrap and the call panics.
TakeNothing(c) ==
  /\ call[c] = "waiting" /\ producer = "closed"
  /\ \E result \in {"empty", "panicked"} : call' = [call EXCEPT ![c] = result]
  /\ UNCHANGED <<ack, stored, producer, shared>>

\* ctx.Done in either select.
Cancel(c) ==
  /\ call[c] \in {"input", "waiting"}
  /\ call' = [call EXCEPT ![c] = IF @ = "input" THEN "cancelled" ELSE "abandoned"]
  /\ UNCHANGED <<ack, stored, producer, shared>>

-----------------------------------------------------------------------------
(* Sarama and the broker. *)

Store(c) ==
  /\ ack[c] = "flight" /\ c \notin stored
  /\ stored' = stored \cup {c}
  /\ UNCHANGED <<call, ack, producer, shared>>

\* Mutant of Answer: the leader acknowledges a record before it has stored it
\* (RequiredAcks is not WaitForAll).
AnswerUnstored(c) ==
  /\ ack[c] = "flight"
  /\ \E answer \in {"success", "error"} : ack' = [ack EXCEPT ![c] = answer]
  /\ UNCHANGED <<call, stored, producer, shared>>

\* Mutant of Answer: errors are not returned (Return.Errors is false).
AnswerQuietly(c) ==
  /\ ack[c] = "flight"
  /\ \/ c \in stored /\ ack' = [ack EXCEPT ![c] = "success"]
     \/ ack' = [ack EXCEPT ![c] = "taken"]
  /\ UNCHANGED <<call, stored, producer, shared>>

\* Success means that every in-sync replica has the record.  Sarama gives up
\* after its retries, on a record that may be stored all the same.
Answer(c) ==
  /\ ack[c] = "flight"
  /\ \E answer \in {"success", "error"} :
       /\ answer = "success" => c \in stored
       /\ ack' = [ack EXCEPT ![c] = answer]
  /\ UNCHANGED <<call, stored, producer, shared>>

\* Close takes the acknowledgements that are left, beside the calls that wait
\* for one, and closes the channels when none is left.
Close ==
  /\ producer = "open"
  /\ producer' = "closing"
  /\ UNCHANGED <<call, ack, stored, shared>>

Drain(d) ==
  /\ producer = "closing" /\ ack[d] \in {"success", "error"}
  /\ ack' = [ack EXCEPT ![d] = "taken"]
  /\ UNCHANGED <<call, stored, producer, shared>>

Closed ==
  /\ producer = "closing" /\ InPipeline = {}
  /\ producer' = "closed"
  /\ UNCHANGED <<call, ack, stored, shared>>

-----------------------------------------------------------------------------

CallStep(c) ==
  Send(c) \/ Cancel(c) \/ TakeNothing(c) \/ \E d \in Calls : Take(c, d)

Next ==
  \/ \E c \in Calls : CallStep(c) \/ Store(c) \/ Answer(c) \/ Drain(c)
  \/ Close \/ Closed

\* Sarama answers every record, within its retries, and a call takes what there
\* is to take; a context need not end, and nobody need call Close.
Fairness ==
  /\ \A c \in Calls :
       /\ WF_vars(Send(c)) /\ WF_vars(Answer(c)) /\ WF_vars(Drain(c))
       /\ WF_vars(TakeNothing(c) \/ \E d \in Calls : Take(c, d))
  /\ WF_vars(Closed)

Spec == Init /\ [][Next]_vars
FairSpec == Spec /\ Fairness

-----------------------------------------------------------------------------
(* Properties. *)

\* Every variable keeps its type.
TypeOK ==
  /\ call \in [Calls -> {"input", "waiting", "nil", "empty", "error", "cancelled",
                         "abandoned", "panicked"}]
  /\ ack \in [Calls -> {"none", "flight", "success", "error", "taken"}]
  /\ stored \subseteq Calls
  /\ producer \in {"open", "closing", "closed"}
  /\ shared \in BOOLEAN

\* Publish returned nil, with an acknowledgement or from a closed channel.
ReturnedNil(c) == call[c] \in {"nil", "empty"}

\* What the comment of Publish promises: nil means that Kafka has acknowledged
\* the record of this call.
PublishContract == \A c \in Calls : ReturnedNil(c) => c \in stored

\* The promise is kept but for two kinds of call: those of a producer that was
\* shared, where a record was sent while the acknowledgement of another one was
\* due, of a call in progress or of one that was abandoned; and those that read
\* a channel the producer had closed under them.
HonestUnlessShared ==
  \A c \in Calls : ReturnedNil(c) => c \in stored \/ shared \/ call[c] = "empty"

\* However the calls share the channels, and also when the producer is closed
\* under them: no more calls took a success than records are stored.
NilsAreBacked == Cardinality({c \in Calls : call[c] = "nil"}) <= Cardinality(stored)

\* Every acknowledgement that is due has a call waiting for it, or had one that
\* went away; so a call that waits has one to wait for.
OutstandingIsAccounted ==
  producer = "open" => Cardinality(InPipeline) = Cardinality(Waiting \cup Abandoned)

\* A call whose context does not end returns, unless the calls that gave up have
\* filled the pipeline with acknowledgements nobody is there to take.
PublishEnds ==
  \A c \in Calls :
    call[c] \in {"input", "waiting"} ~>
      \/ call[c] \notin {"input", "waiting"}
      \/ call[c] = "input" /\ Cardinality(Abandoned) >= Capacity
=============================================================================
