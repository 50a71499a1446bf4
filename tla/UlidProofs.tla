----------------------------- MODULE UlidProofs -----------------------------
(***************************************************************************)
(* The ids of a process grow, for bytes and entropies of every size.       *)
(***************************************************************************)
EXTENDS Ulid, TLAPS

\* The state of the generator is the id it has made last, until it overflows.
InStep == ~overflowed => newest.entropy = entropy

IInv == TypeOK /\ InStep /\ newest.ms = lastMS

\* The increment stays within the bytes.
LEMMA IncrementType == \A e \in Entropy : incrementEntropy(e) \in Entropy
<1> SUFFICES ASSUME NEW e \in Entropy PROVE incrementEntropy(e) \in Entropy
  OBVIOUS
<1>1. ASSUME NEW i \in 1 .. Width PROVE incrementEntropy(e)[i] \in 0 .. MaxByte
  <2>1. e[i] \in 0 .. MaxByte
    BY DEF Entropy
  <2>2. CASE i \in Carries(e)
    BY <2>1, <2>2, UlidAssumption DEF incrementEntropy, Carries
  <2>3. CASE i \notin Carries(e)
    BY <2>1, <2>3, UlidAssumption DEF incrementEntropy
  <2> QED
    BY <2>2, <2>3
<1> QED
  BY <1>1 DEF incrementEntropy, Entropy

\* An entropy that does not overflow is before its increment: the byte that grows
\* is the first in which they differ.
LEMMA IncrementGrows ==
  \A e \in Entropy : ~Overflows(e) => Before(e, incrementEntropy(e))
<1> SUFFICES ASSUME NEW e \in Entropy, ~Overflows(e)
             PROVE  Before(e, incrementEntropy(e))
  OBVIOUS
<1>1. PICK k \in Carries(e) : TRUE
  BY DEF Overflows
<1>2. k \in 1 .. Width /\ DOMAIN e = 1 .. Width /\ e[k] \in 0 .. MaxByte
  BY DEF Carries, Entropy
<1>3. e[k] < incrementEntropy(e)[k]
  BY <1>1, <1>2, UlidAssumption DEF incrementEntropy
<1>4. ASSUME NEW i \in 1 .. k - 1 PROVE e[i] = incrementEntropy(e)[i]
  <2>1. i \in 1 .. Width /\ i < k
    BY <1>2, UlidAssumption
  <2>2. i \notin Carries(e)
    BY <1>1, <1>2, <2>1, UlidAssumption DEF Carries
  <2> QED
    BY <1>1, <2>1, <2>2 DEF incrementEntropy
<1> QED
  BY <1>2, <1>3, <1>4 DEF Before

\* Up to the byte that grows an entropy and its increment are the same; after it
\* one has the largest bytes and the other zeros.
LEMMA IncrementShape ==
  ASSUME NEW e \in Entropy, NEW k \in Carries(e)
  PROVE  /\ k \in 1 .. Width
         /\ incrementEntropy(e)[k] = e[k] + 1
         /\ \A i \in 1 .. Width : i < k => incrementEntropy(e)[i] = e[i]
         /\ \A i \in 1 .. Width : k < i => e[i] = MaxByte /\ incrementEntropy(e)[i] = 0
<1>1. k \in 1 .. Width /\ e[k] # MaxByte /\ \A i \in k + 1 .. Width : e[i] = MaxByte
  BY DEF Carries
<1>2. ASSUME NEW j \in Carries(e) PROVE j = k
  <2>1. j \in 1 .. Width /\ e[j] # MaxByte /\ \A i \in j + 1 .. Width : e[i] = MaxByte
    BY <1>2 DEF Carries
  <2>2. ~(j \in k + 1 .. Width) /\ ~(k \in j + 1 .. Width)
    BY <1>1, <2>1
  <2> QED BY <1>1, <2>1, <2>2, UlidAssumption
<1>3. ASSUME NEW i \in 1 .. Width, i < k PROVE incrementEntropy(e)[i] = e[i]
  BY <1>2, <1>3 DEF incrementEntropy
<1>4. ASSUME NEW i \in 1 .. Width, k < i
      PROVE  e[i] = MaxByte /\ incrementEntropy(e)[i] = 0
  <2>1. i \in k + 1 .. Width
    BY <1>1, <1>4, UlidAssumption
  <2>2. i \notin Carries(e) /\ ~(\E j \in Carries(e) : i < j)
    BY <1>1, <1>2, <1>4, UlidAssumption
  <2> QED BY <1>1, <2>1, <2>2 DEF incrementEntropy
<1>5. incrementEntropy(e)[k] = e[k] + 1
  BY <1>1 DEF incrementEntropy
<1> QED BY <1>1, <1>3, <1>4, <1>5

\* No entropy lies between one and its increment.
LEMMA IncrementIsNext ==
  ASSUME NEW e \in Entropy, NEW f \in Entropy, ~Overflows(e),
         Before(e, f), Before(f, incrementEntropy(e))
  PROVE  FALSE
<1> DEFINE n == incrementEntropy(e)
<1>1. PICK k \in Carries(e) : TRUE
  BY DEF Overflows
<1>2. /\ k \in 1 .. Width /\ n[k] = e[k] + 1
      /\ \A i \in 1 .. Width : i < k => n[i] = e[i]
      /\ \A i \in 1 .. Width : k < i => e[i] = MaxByte /\ n[i] = 0
  BY <1>1, IncrementShape
<1>3. /\ DOMAIN e = 1 .. Width /\ DOMAIN f = 1 .. Width
      /\ \A i \in 1 .. Width : e[i] \in 0 .. MaxByte /\ f[i] \in 0 .. MaxByte
  BY DEF Entropy
<1> HIDE DEF n
<1>4. PICK a \in 1 .. Width : e[a] < f[a] /\ \A i \in 1 .. a - 1 : e[i] = f[i]
  BY <1>3 DEF Before
<1>5. PICK b \in 1 .. Width : f[b] < n[b] /\ \A i \in 1 .. b - 1 : f[i] = n[i]
  BY <1>3 DEF Before, n
<1>6. ~(k < a)
  BY <1>2, <1>3, <1>4, UlidAssumption
<1>7. ~(k < b)
  BY <1>2, <1>3, <1>5, UlidAssumption
<1>8. CASE a < b
  <2>1. a \in 1 .. b - 1 /\ a < k
    BY <1>2, <1>7, <1>8
  <2>2. f[a] = n[a] /\ n[a] = e[a]
    BY <1>2, <1>5, <2>1
  <2> QED BY <1>3, <1>4, <2>2
<1>9. CASE b < a
  <2>1. b \in 1 .. a - 1 /\ b < k
    BY <1>2, <1>6, <1>9
  <2>2. e[b] = f[b] /\ n[b] = e[b]
    BY <1>2, <1>4, <2>1
  <2> QED BY <1>3, <1>5, <2>2
<1>10. CASE a = b
  <2>1. CASE a < k
    BY <1>2, <1>3, <1>4, <1>5, <1>10, <2>1
  <2>2. CASE a = k
    BY <1>2, <1>3, <1>4, <1>5, <1>10, <2>2
  <2> QED BY <1>2, <1>6, <2>1, <2>2
<1> QED BY <1>8, <1>9, <1>10

LEMMA OverflowIsZero ==
  ASSUME NEW e \in Entropy, Overflows(e) PROVE incrementEntropy(e) = Zeros
BY DEF Overflows, incrementEntropy, Zeros

LEMMA InitInv == Init => IInv
<1> SUFFICES ASSUME Init PROVE IInv
  OBVIOUS
<1>1. Zeros \in Entropy
  BY UlidAssumption DEF Zeros, Entropy
<1> QED
  BY <1>1 DEF Init, IInv, TypeOK, InStep

LEMMA NextInv == IInv /\ [Next]_vars => IInv'
<1> SUFFICES ASSUME IInv, [Next]_vars PROVE IInv'
  OBVIOUS
<1> USE DEF IInv, TypeOK, InStep
<1>1. CASE UNCHANGED vars
  BY <1>1 DEF vars
<1>2. ASSUME NEW ms \in Clock, Later(ms) PROVE IInv'
  <2>1. PICK e \in Entropy : entropy' = e /\ newest' = [ms |-> ms, entropy |-> e]
    BY <1>2 DEF Later, Made
  <2>2. ms \in Nat /\ lastMS' = ms /\ overflowed' = FALSE /\ made' \in BOOLEAN
    BY <1>2, UlidAssumption DEF Later, Made
  <2> QED
    BY <2>1, <2>2
<1>3. ASSUME NEW ms \in Clock, Within(ms) PROVE IInv'
  BY <1>3, IncrementType DEF Within, Made
<1>4. ASSUME NEW ms \in Clock, Overflow(ms) PROVE IInv'
  BY <1>4, IncrementType DEF Overflow
<1> QED
  BY <1>1, <1>2, <1>3, <1>4 DEF Next, NewULID

\* The step that makes an id makes a newer one.
LEMMA StepGrows ==
  IInv /\ [Next]_vars => [made' # made => Older(newest, newest') \/ Excused]_vars
<1> SUFFICES ASSUME IInv, Next, made' # made, ~Excused
             PROVE  Older(newest, newest')
  BY DEF vars
<1> USE DEF IInv, TypeOK, InStep
<1>1. ASSUME NEW ms \in Clock, Later(ms) PROVE Older(newest, newest')
  BY <1>1, UlidAssumption DEF Later, Made, Older
<1>2. ASSUME NEW ms \in Clock, Within(ms) PROVE Older(newest, newest')
  <2>1. newest' = [ms |-> lastMS, entropy |-> incrementEntropy(entropy)]
    BY <1>2 DEF Within, Made
  <2>2. ~overflowed
    BY <2>1 DEF Excused
  <2>3. Before(entropy, incrementEntropy(entropy))
    BY <1>2, IncrementGrows DEF Within
  <2> QED
    BY <2>1, <2>2, <2>3 DEF Older
<1>3. ASSUME NEW ms \in Clock, Overflow(ms) PROVE FALSE
  BY <1>3 DEF Overflow
<1> QED
  BY <1>1, <1>2, <1>3 DEF Next, NewULID

\* Every variable of the generator keeps its type.
THEOREM GeneratorTypeCorrect == Spec => []TypeOK
<1>1. IInv => TypeOK
  BY DEF IInv
<1> QED
  BY <1>1, InitInv, NextInv, PTL DEF Spec

\* Every id is newer than the one before it, whatever the clock shows, but for
\* those of a millisecond whose entropy has overflowed (NewULID).
THEOREM IdsAreNewer == Spec => IdsGrow
<1>1. Spec => []IInv
  BY InitInv, NextInv, PTL DEF Spec
<1> QED
  BY <1>1, StepGrows, PTL DEF Spec, IdsGrow

\* The carry is exact in every state, for every width of the entropy and of its
\* bytes (incrementEntropy).
THEOREM CarriesAreExact == Spec => []NextIsSuccessor
<1>1. IInv => NextIsSuccessor
  BY IncrementGrows, IncrementIsNext, OverflowIsZero DEF IInv, TypeOK, NextIsSuccessor
<1> QED
  BY <1>1, InitInv, NextInv, PTL DEF Spec
=============================================================================
