------------------------------ MODULE EventLog ------------------------------
(***************************************************************************)
(* llm.events between the processes that publish to it and the gateway     *)
(* that reads a job's events back: Producer writes the log Replay reads.   *)
(***************************************************************************)
EXTENDS Integers, Sequences, FiniteSets, Functions

CONSTANTS
  Calls,        \* calls of Publish, each with a record of its own
  Capacity,     \* records Sarama holds whose acknowledgements nobody has taken
  Partitions,   \* partitions of llm.events
  Earlier,      \* partition -> what other processes have published to it
  PartitionOf,  \* record -> the partition its key is hashed to
  Wanted        \* records of the job that is read back

Records == Calls \cup UNION {Range(Earlier[p]) : p \in Partitions}

\* The hash of the key puts all records of a job into one partition.
ASSUME EventLogAssumption ==
  /\ Earlier \in [Partitions -> Seq(Records)]
  /\ PartitionOf \in [Calls -> Partitions]
  /\ \E home \in Partitions :
       /\ \A c \in Wanted \cap Calls : PartitionOf[c] = home
       /\ \A p \in Partitions \ {home} : Range(Earlier[p]) \cap Wanted = {}

VARIABLES
  call, ack, producer, shared,    \* the producer
  log,                            \* partition -> its records
  reader, part, out, short,       \* the reader
  promised                        \* history: records of the job whose Publish had taken
                                  \* a success, and so returned nil, when ReadAll was called

stored == Calls \cap UNION {Range(log[p]) : p \in Partitions}

P == INSTANCE Producer
R == INSTANCE Replay

reading == <<reader, part, out, short>>
vars == <<call, ack, producer, shared, log, reading, promised>>

Init ==
  /\ log = Earlier
  /\ P!Init /\ R!InitRead
  /\ promised = {}

Store(c) ==
  /\ c \notin stored
  /\ log' = [log EXCEPT ![PartitionOf[c]] = Append(@, c)]
  /\ P!Store(c)
  /\ UNCHANGED <<reading, promised>>

\* Any other step of the producer leaves the log alone.
Beside(A) == UNCHANGED <<log, reading, promised>> /\ A

ProducerStep ==
  \/ \E c \in Calls : Beside(P!CallStep(c) \/ P!Answer(c) \/ P!Drain(c))
  \/ Beside(P!Close \/ P!Closed)

ReaderStep ==
  /\ R!ReadStep
  /\ promised' = IF reader = "idle" THEN {c \in Wanted \cap Calls : call[c] = "nil"}
                 ELSE promised
  /\ UNCHANGED <<call, ack, producer, shared, log>>

Next == (\E c \in Calls : Store(c)) \/ ProducerStep \/ ReaderStep

\* A goroutine reads what there is, and its timer ends it when nothing comes.
Fairness == WF_vars(ReaderStep /\ reader # "idle")

Spec == Init /\ [][Next]_vars
FairSpec == Spec /\ Fairness

-----------------------------------------------------------------------------
(* Properties. *)

\* Every variable keeps its type.
TypeOK == P!TypeOK /\ R!ReadTypeOK /\ promised \subseteq Wanted

\* What ReadAll returns is the beginning of the job's records in its partition,
\* also when producers add to the log in the meantime.
ResultIsAPrefix == R!ResultIsAPrefix

\* What Publish had acknowledged when ReadAll was called is in its result, when
\* no partition was cut short and the producer was not shared (no record was sent
\* while the acknowledgement of another one was due).  A nil that a call read
\* from a closed channel is no acknowledgement.
ReadsWhatWasPublished ==
  reader = "returned" /\ ~short /\ ~shared => promised \subseteq Range(out)

\* ReadAll returns, also from a topic that is silent.
ReadEnds == reader = "reading" ~> reader = "returned"
=============================================================================
