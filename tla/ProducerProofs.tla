--------------------------- MODULE ProducerProofs ---------------------------
(***************************************************************************)
(* What a call of Publish can rely on, for any number of calls and any     *)
(* capacity of the pipeline.                                               *)
(***************************************************************************)
EXTENDS Producer, FiniteSetTheorems, TLAPS

-----------------------------------------------------------------------------
(* Type correctness. *)

LEMMA TypeInit == Init => TypeOK
BY DEF Init, TypeOK

LEMMA TypeNext == TypeOK /\ [Next]_vars => TypeOK'
<1> SUFFICES ASSUME TypeOK, [Next]_vars PROVE TypeOK'
  OBVIOUS
<1> USE DEF TypeOK
<1>1. CASE UNCHANGED vars
  BY <1>1 DEF vars
<1>2. ASSUME NEW c \in Calls, Send(c) PROVE TypeOK'
  BY <1>2 DEF Send
<1>3. ASSUME NEW c \in Calls, NEW d \in Calls, Take(c, d) PROVE TypeOK'
  BY <1>3 DEF Take
<1>4. ASSUME NEW c \in Calls, TakeNothing(c) PROVE TypeOK'
  BY <1>4 DEF TakeNothing
<1>5. ASSUME NEW c \in Calls, Cancel(c) PROVE TypeOK'
  BY <1>5 DEF Cancel
<1>6. ASSUME NEW c \in Calls, Store(c) PROVE TypeOK'
  BY <1>6 DEF Store
<1>7. ASSUME NEW c \in Calls, Answer(c) PROVE TypeOK'
  BY <1>7 DEF Answer
<1>8. ASSUME NEW c \in Calls, Drain(c) PROVE TypeOK'
  BY <1>8 DEF Drain
<1>9. CASE Close \/ Closed
  BY <1>9 DEF Close, Closed
<1> QED
  BY <1>1, <1>2, <1>3, <1>4, <1>5, <1>6, <1>7, <1>8, <1>9 DEF Next, CallStep

\* Every variable of the producer keeps its type.
THEOREM ProducerTypeCorrect == Spec => []TypeOK
BY TypeInit, TypeNext, PTL DEF Spec

-----------------------------------------------------------------------------
(* The promise of Publish to calls that do not overlap. *)

\* A success is only said of a stored record.
SuccessIsStored == \A d \in Calls : ack[d] = "success" => d \in stored

\* As long as nothing is shared there is at most one acknowledgement under way.
\* A call that waits on an open producer waits for it; on a closing one it may
\* have lost its own to Close, but what another call waits for is then an error.
Alone ==
  ~shared =>
    /\ \A c, d \in InPipeline : c = d
    /\ producer = "open" => Waiting \subseteq InPipeline
    /\ \A c \in Waiting, d \in InPipeline : ack[d] = "error" \/ c = d

HonestInv == TypeOK /\ SuccessIsStored /\ Alone /\ HonestUnlessShared

LEMMA HonestInit == Init => HonestInv
<1> SUFFICES ASSUME Init PROVE HonestInv
  OBVIOUS
<1>1. Waiting = {} /\ InPipeline = {}
  BY DEF Init, Waiting, InPipeline
<1> QED
  BY <1>1, TypeInit DEF Init, HonestInv, SuccessIsStored, Alone, HonestUnlessShared,
     ReturnedNil

LEMMA HonestNext == HonestInv /\ [Next]_vars => HonestInv'
<1> SUFFICES ASSUME HonestInv, [Next]_vars PROVE HonestInv'
  OBVIOUS
<1>0. TypeOK'
  BY TypeNext DEF HonestInv
<1> USE DEF HonestInv, SuccessIsStored, Alone, HonestUnlessShared, ReturnedNil
<1>1. CASE UNCHANGED vars
  BY <1>0, <1>1 DEF vars, Waiting, InPipeline
<1>2. ASSUME NEW c \in Calls, Send(c) PROVE HonestInv'
  BY <1>0, <1>2 DEF Send, TypeOK, Waiting, InPipeline
<1>3. ASSUME NEW c \in Calls, NEW d \in Calls, Take(c, d) PROVE HonestInv'
  BY <1>0, <1>3 DEF Take, TypeOK, Waiting, InPipeline
<1>4. ASSUME NEW c \in Calls, TakeNothing(c) PROVE HonestInv'
  BY <1>0, <1>4 DEF TakeNothing, TypeOK, Waiting, InPipeline
<1>5. ASSUME NEW c \in Calls, Cancel(c) PROVE HonestInv'
  BY <1>0, <1>5 DEF Cancel, TypeOK, Waiting, InPipeline
<1>6. ASSUME NEW c \in Calls, Store(c) PROVE HonestInv'
  BY <1>0, <1>6 DEF Store, TypeOK, Waiting, InPipeline
<1>7. ASSUME NEW c \in Calls, Answer(c) PROVE HonestInv'
  BY <1>0, <1>7 DEF Answer, TypeOK, Waiting, InPipeline
<1>8. ASSUME NEW c \in Calls, Drain(c) PROVE HonestInv'
  BY <1>0, <1>8 DEF Drain, TypeOK, Waiting, InPipeline
<1>9. CASE Close
  BY <1>0, <1>9 DEF Close, TypeOK, Waiting, InPipeline
<1>10. CASE Closed
  BY <1>0, <1>10 DEF Closed, TypeOK, Waiting, InPipeline
<1> QED
  BY <1>1, <1>2, <1>3, <1>4, <1>5, <1>6, <1>7, <1>8, <1>9, <1>10 DEF Next, CallStep

\* A call of Publish that returned nil for a record that is not stored read a
\* channel closed by Close, or its producer was shared: a record was sent while
\* the acknowledgement of another one was due.  Nothing else makes nil lie, for
\* any number of calls, on an open, a closing and a closed producer.
THEOREM PublishIsHonest == Spec => []HonestUnlessShared
<1>1. HonestInv => HonestUnlessShared
  BY DEF HonestInv
<1> QED
  BY <1>1, HonestInit, HonestNext, PTL DEF Spec

-----------------------------------------------------------------------------
(* Counting acknowledgements. *)

\* The calls an acknowledgement is due to, or was when they went away.
Due == {c \in Calls : call[c] \in {"waiting", "abandoned"}}

\* A call that has not sent its record has no acknowledgement.
Fresh == \A c \in Calls : call[c] = "input" => ack[c] = "none"

Balance == producer = "open" => Cardinality(InPipeline) = Cardinality(Due)

CountInv == TypeOK /\ Fresh /\ Balance

LEMMA FiniteSets ==
  /\ IsFiniteSet(InPipeline) /\ Cardinality(InPipeline) \in Nat
  /\ IsFiniteSet(Due) /\ Cardinality(Due) \in Nat
<1>1. InPipeline \in SUBSET Calls /\ Due \in SUBSET Calls
  BY DEF InPipeline, Due
<1>2. IsFiniteSet(InPipeline) /\ IsFiniteSet(Due)
  BY <1>1, FS_Subset, ProducerAssumption
<1> QED
  BY <1>2, FS_CardinalityType

LEMMA CountInit == Init => CountInv
<1> SUFFICES ASSUME Init PROVE CountInv
  OBVIOUS
<1>1. InPipeline = {} /\ Due = {}
  BY DEF Init, InPipeline, Due
<1> QED
  BY <1>1, TypeInit DEF Init, CountInv, Fresh, Balance

LEMMA CountNext == CountInv /\ [Next]_vars => CountInv'
<1> SUFFICES ASSUME CountInv, [Next]_vars PROVE CountInv'
  OBVIOUS
<1>0. TypeOK' /\ TypeOK /\ Fresh /\ Balance
  BY TypeNext DEF CountInv
<1>a. ASSUME Fresh', Balance' PROVE CountInv'
  BY <1>0, <1>a DEF CountInv
<1>b. ASSUME InPipeline' = InPipeline, Due' = Due, producer' = producer PROVE Balance'
  BY <1>0, <1>b DEF Balance
<1>1. CASE UNCHANGED vars
  <2>1. InPipeline' = InPipeline /\ Due' = Due /\ producer' = producer /\ Fresh'
    BY <1>0, <1>1 DEF vars, InPipeline, Due, Fresh
  <2> QED
    BY <1>a, <1>b, <2>1
<1>2. ASSUME NEW c \in Calls, Send(c) PROVE CountInv'
  <2>1. Fresh'
    BY <1>0, <1>2 DEF Send, Fresh, TypeOK
  <2>2. CASE producer = "open"
    <3>1. c \notin InPipeline /\ c \notin Due
      BY <1>0, <1>2 DEF Send, Fresh, InPipeline, Due
    <3>2. InPipeline' = InPipeline \cup {c} /\ Due' = Due \cup {c}
      BY <1>0, <1>2, <2>2 DEF Send, InPipeline, Due, TypeOK
    <3>3. Cardinality(InPipeline \cup {c}) = Cardinality(InPipeline) + 1
      BY <3>1, FiniteSets, FS_AddElement
    <3>4. Cardinality(Due \cup {c}) = Cardinality(Due) + 1
      BY <3>1, FiniteSets, FS_AddElement
    <3> QED
      BY <1>0, <1>a, <2>1, <2>2, <3>2, <3>3, <3>4 DEF Balance
  <2>3. CASE producer # "open"
    BY <1>2, <1>a, <2>1, <2>3 DEF Send, Balance
  <2> QED
    BY <2>2, <2>3
<1>3. ASSUME NEW c \in Calls, NEW d \in Calls, Take(c, d) PROVE CountInv'
  <2>1. Fresh'
    BY <1>0, <1>3 DEF Take, Fresh, TypeOK
  <2>2. d \in InPipeline /\ c \in Due
    BY <1>3 DEF Take, InPipeline, Due
  <2>3. InPipeline' = InPipeline \ {d}
    BY <1>0, <1>3 DEF Take, InPipeline, TypeOK
  <2>4. Due' = Due \ {c}
    BY <1>0, <1>3 DEF Take, Due, TypeOK
  <2>5. Cardinality(InPipeline \ {d}) = Cardinality(InPipeline) - 1
    BY <2>2, FiniteSets, FS_RemoveElement
  <2>6. Cardinality(Due \ {c}) = Cardinality(Due) - 1
    BY <2>2, FiniteSets, FS_RemoveElement
  <2>7. producer' = producer
    BY <1>3 DEF Take
  <2>8. Balance'
    BY <1>0, <2>3, <2>4, <2>5, <2>6, <2>7 DEF Balance
  <2> QED
    BY <1>a, <2>1, <2>8
<1>4. ASSUME NEW c \in Calls, TakeNothing(c) PROVE CountInv'
  <2>1. Fresh' /\ producer' # "open"
    BY <1>0, <1>4 DEF TakeNothing, Fresh, TypeOK
  <2> QED
    BY <1>a, <2>1 DEF Balance
<1>5. ASSUME NEW c \in Calls, Cancel(c) PROVE CountInv'
  <2>1. Fresh' /\ InPipeline' = InPipeline /\ producer' = producer
    BY <1>0, <1>5 DEF Cancel, Fresh, InPipeline, TypeOK
  <2>2. Due' = Due
    BY <1>0, <1>5 DEF Cancel, Due, TypeOK
  <2> QED
    BY <1>a, <1>b, <2>1, <2>2
<1>6. ASSUME NEW c \in Calls, Store(c) PROVE CountInv'
  <2>1. InPipeline' = InPipeline /\ Due' = Due /\ producer' = producer /\ Fresh'
    BY <1>0, <1>6 DEF Store, InPipeline, Due, Fresh
  <2> QED
    BY <1>a, <1>b, <2>1
<1>7. ASSUME NEW c \in Calls, Answer(c) PROVE CountInv'
  <2>1. Fresh' /\ Due' = Due /\ producer' = producer
    BY <1>0, <1>7 DEF Answer, Due, Fresh, TypeOK
  <2>2. InPipeline' = InPipeline
    BY <1>0, <1>7 DEF Answer, InPipeline, TypeOK
  <2> QED
    BY <1>a, <1>b, <2>1, <2>2
<1>8. ASSUME NEW c \in Calls, Drain(c) PROVE CountInv'
  <2>1. Fresh' /\ producer' # "open"
    BY <1>0, <1>8 DEF Drain, Fresh, TypeOK
  <2> QED
    BY <1>a, <2>1 DEF Balance
<1>9. CASE Close \/ Closed
  <2>1. Fresh' /\ producer' # "open"
    BY <1>0, <1>9 DEF Close, Closed, Fresh
  <2> QED
    BY <1>a, <2>1 DEF Balance
<1> QED
  BY <1>1, <1>2, <1>3, <1>4, <1>5, <1>6, <1>7, <1>8, <1>9 DEF Next, CallStep

\* Every acknowledgement that is due has a call waiting for it, or had one that
\* gave up: acknowledgements are neither lost nor taken twice (Producer.Publish).
THEOREM AcknowledgementsAreAccounted == Spec => []OutstandingIsAccounted
<1>1. CountInv => OutstandingIsAccounted
  <2>1. Due = Waiting \cup Abandoned
    BY DEF Due, Waiting, Abandoned
  <2> QED
    BY <2>1 DEF CountInv, Balance, OutstandingIsAccounted
<1> QED
  BY <1>1, CountInit, CountNext, PTL DEF Spec

-----------------------------------------------------------------------------
(* Counting nil results. *)

\* The calls that took a success.
Nils == {c \in Calls : call[c] = "nil"}

\* Stored records whose acknowledgement nobody can turn into a nil any more.
Spent == {d \in stored : ack[d] \in {"error", "taken"}}

NilInv ==
  /\ CountInv /\ SuccessIsStored
  /\ Cardinality(Nils) <= Cardinality(Spent)

LEMMA NilSets ==
  ASSUME TypeOK
  PROVE  /\ IsFiniteSet(Nils) /\ Cardinality(Nils) \in Nat
         /\ IsFiniteSet(Spent) /\ Cardinality(Spent) \in Nat
         /\ IsFiniteSet(stored) /\ Cardinality(stored) \in Nat
<1>1. Nils \in SUBSET Calls /\ Spent \in SUBSET Calls /\ stored \in SUBSET Calls
  BY DEF Nils, Spent, TypeOK
<1>2. IsFiniteSet(Nils) /\ IsFiniteSet(Spent) /\ IsFiniteSet(stored)
  BY <1>1, FS_Subset, ProducerAssumption
<1> QED
  BY <1>2, FS_CardinalityType

LEMMA NilInit == Init => NilInv
<1> SUFFICES ASSUME Init PROVE NilInv
  OBVIOUS
<1>1. Nils = {} /\ Spent = {}
  BY DEF Init, Nils, Spent
<1>2. Cardinality({}) = 0
  BY FS_EmptySet
<1> QED
  BY <1>1, <1>2, CountInit DEF Init, NilInv, SuccessIsStored

LEMMA NilNext == NilInv /\ [Next]_vars => NilInv'
<1> SUFFICES ASSUME NilInv, [Next]_vars PROVE NilInv'
  OBVIOUS
<1>0. TypeOK /\ TypeOK' /\ SuccessIsStored /\ Fresh /\ CountInv'
  BY CountNext DEF NilInv, CountInv
<1>n. IsFiniteSet(Nils) /\ Cardinality(Nils) \in Nat /\ IsFiniteSet(Spent)
        /\ Cardinality(Spent) \in Nat
  BY <1>0, NilSets
<1>s. IsFiniteSet(Spent')
  <2>1. Spent' \in SUBSET Calls
    BY <1>0 DEF Spent, TypeOK
  <2> QED
    BY <2>1, FS_Subset, ProducerAssumption
<1>a. ASSUME SuccessIsStored', Nils' = Nils, Spent \subseteq Spent'
      PROVE  NilInv'
  <2>1. Cardinality(Spent) <= Cardinality(Spent') /\ Cardinality(Spent') \in Nat
    BY <1>a, <1>s, FS_Subset, FS_CardinalityType
  <2> QED
    BY <1>0, <1>a, <1>n, <2>1 DEF NilInv
<1>1. CASE UNCHANGED vars
  <2>1. SuccessIsStored' /\ Nils' = Nils /\ Spent' = Spent /\ producer' = producer
    BY <1>0, <1>1 DEF vars, SuccessIsStored, Nils, Spent
  <2> QED
    BY <1>a, <2>1
<1>2. ASSUME NEW c \in Calls, Send(c) PROVE NilInv'
  <2>1. SuccessIsStored'
    BY <1>0, <1>2 DEF Send, SuccessIsStored, TypeOK
  <2>2. Nils' = Nils
    BY <1>0, <1>2 DEF Send, Nils, TypeOK
  <2>3. c \notin Spent
    BY <1>0, <1>2 DEF Send, Fresh, Spent
  <2>4. Spent \subseteq Spent'
    BY <1>0, <1>2, <2>3 DEF Send, Spent, TypeOK
  <2> QED
    BY <1>a, <2>1, <2>2, <2>4
<1>3. ASSUME NEW c \in Calls, NEW d \in Calls, Take(c, d) PROVE NilInv'
  <2>1. SuccessIsStored'
    BY <1>0, <1>3 DEF Take, SuccessIsStored, TypeOK
  <2>2. CASE ack[d] = "success"
    <3>1. Nils' = Nils \cup {c} /\ c \notin Nils
      BY <1>0, <1>3, <2>2 DEF Take, Nils, TypeOK
    <3>2. Spent' = Spent \cup {d} /\ d \notin Spent
      BY <1>0, <1>3, <2>2 DEF Take, Spent, SuccessIsStored, TypeOK
    <3>3. Cardinality(Nils') = Cardinality(Nils) + 1
      BY <1>n, <3>1, FS_AddElement
    <3>4. Cardinality(Spent') = Cardinality(Spent) + 1
      BY <1>n, <3>2, FS_AddElement
    <3> QED
      BY <1>0, <1>n, <2>1, <3>3, <3>4 DEF NilInv
  <2>3. CASE ack[d] = "error"
    <3>1. Nils' = Nils /\ Spent \subseteq Spent'
      BY <1>0, <1>3, <2>3 DEF Take, Nils, Spent, TypeOK
    <3> QED
      BY <1>a, <2>1, <3>1
  <2> QED
    BY <1>3, <2>2, <2>3 DEF Take
<1>4. ASSUME NEW c \in Calls, TakeNothing(c) PROVE NilInv'
  <2>1. SuccessIsStored' /\ Spent' = Spent
    BY <1>0, <1>4 DEF TakeNothing, SuccessIsStored, Spent
  <2>2. Nils' = Nils
    BY <1>0, <1>4 DEF TakeNothing, Nils, TypeOK
  <2> QED
    BY <1>a, <2>1, <2>2
<1>5. ASSUME NEW c \in Calls, Cancel(c) PROVE NilInv'
  <2>1. SuccessIsStored' /\ Spent' = Spent
    BY <1>0, <1>5 DEF Cancel, SuccessIsStored, Spent
  <2>2. Nils' = Nils
    BY <1>0, <1>5 DEF Cancel, Nils, TypeOK
  <2> QED
    BY <1>a, <2>1, <2>2
<1>6. ASSUME NEW c \in Calls, Store(c) PROVE NilInv'
  <2>1. SuccessIsStored' /\ Nils' = Nils /\ Spent \subseteq Spent'
    BY <1>0, <1>6 DEF Store, SuccessIsStored, Nils, Spent
  <2> QED
    BY <1>a, <2>1
<1>7. ASSUME NEW c \in Calls, Answer(c) PROVE NilInv'
  <2>1. SuccessIsStored' /\ Nils' = Nils
    BY <1>0, <1>7 DEF Answer, SuccessIsStored, Nils, TypeOK
  <2>2. Spent \subseteq Spent'
    BY <1>0, <1>7 DEF Answer, Spent, TypeOK
  <2> QED
    BY <1>a, <2>1, <2>2
<1>8. ASSUME NEW c \in Calls, Drain(c) PROVE NilInv'
  <2>1. SuccessIsStored' /\ Nils' = Nils
    BY <1>0, <1>8 DEF Drain, SuccessIsStored, Nils, TypeOK
  <2>2. Spent \subseteq Spent'
    BY <1>0, <1>8 DEF Drain, Spent, TypeOK
  <2> QED
    BY <1>a, <2>1, <2>2
<1>9. CASE Close \/ Closed
  <2>1. SuccessIsStored' /\ Nils' = Nils /\ Spent' = Spent
    BY <1>0, <1>9 DEF Close, Closed, SuccessIsStored, Nils, Spent
  <2> QED
    BY <1>a, <2>1
<1> QED
  BY <1>1, <1>2, <1>3, <1>4, <1>5, <1>6, <1>7, <1>8, <1>9 DEF Next, CallStep

\* However calls take each other's acknowledgements, no more of them took a
\* success than records are stored, also when Close takes what is left of the
\* acknowledgements (Producer.Publish, Producer.Close).
THEOREM NilsNeedRecords == Spec => []NilsAreBacked
<1>1. NilInv => NilsAreBacked
  <2> SUFFICES ASSUME NilInv PROVE Cardinality(Nils) <= Cardinality(stored)
    BY DEF NilsAreBacked, Nils
  <2>1. TypeOK
    BY DEF NilInv, CountInv
  <2>2. Spent \in SUBSET stored
    BY DEF Spent
  <2>3. Cardinality(Spent) <= Cardinality(stored)
    BY <2>1, <2>2, NilSets, FS_Subset
  <2> QED
    BY <2>1, <2>3, NilSets DEF NilInv
<1> QED
  BY <1>1, NilInit, NilNext, PTL DEF Spec
=============================================================================
