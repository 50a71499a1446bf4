-------------------------------- MODULE Ulid --------------------------------
(***************************************************************************)
(* NewULID: an id is the time in milliseconds and an entropy, which is     *)
(* drawn anew for a new millisecond and incremented within one, and is     *)
(* written in base 32.  The ids of a process are to grow, as texts, also   *)
(* when its clock is set back.  One lock is held for the whole function.   *)
(***************************************************************************)
EXTENDS Integers, Sequences, SequencesExt

CONSTANTS
  ByteBits,    \* bits of a byte: 8
  MaxByte,     \* the largest byte: 0xff
  TimeBytes,   \* bytes of the time: 6
  Width,       \* bytes of the entropy: 10
  CharBits,    \* bits of a character: 5
  Clock        \* times in milliseconds the clock may show

ASSUME UlidAssumption ==
  /\ ByteBits \in Nat \ {0} /\ CharBits \in Nat \ {0}
  /\ MaxByte \in Nat /\ MaxByte + 1 = 2 ^ ByteBits
  /\ TimeBytes \in Nat \ {0} /\ Width \in Nat \ {0}
  /\ Clock \subseteq Nat

VARIABLES
  lastMS,      \* lastULIDMS
  entropy,     \* lastULIDEntropy
  newest,      \* history: the id made last, [ms, entropy]
  made,        \* history: whether the number of ids made is odd
  overflowed   \* history: the entropy of this millisecond has overflowed

vars == <<lastMS, entropy, newest, made, overflowed>>

Entropy == [1 .. Width -> 0 .. MaxByte]
Zeros == [i \in 1 .. Width |-> 0]

Init ==
  /\ lastMS = 0
  /\ entropy = Zeros
  /\ newest = [ms |-> 0, entropy |-> Zeros]
  /\ made = FALSE
  /\ overflowed = FALSE

-----------------------------------------------------------------------------

\* The last position whose byte is below its maximum, if there is one.
Carries(e) == {k \in 1 .. Width : e[k] # MaxByte /\ \A i \in k + 1 .. Width : e[i] = MaxByte}

\* Mutant of incrementEntropy: the carry does not clear the bytes it passes.
IncrementKeeps(e) ==
  [i \in 1 .. Width |-> IF i \in Carries(e) THEN e[i] + 1 ELSE e[i]]

\* The last byte below its maximum grows by one, those after it become zero.
\* Without such a byte all become zero, and the result is false.
incrementEntropy(e) ==
  [i \in 1 .. Width |->
     IF i \in Carries(e) THEN e[i] + 1
     ELSE IF \E k \in Carries(e) : i < k THEN e[i]
     ELSE 0]

Overflows(e) == Carries(e) = {}

Made(ms, e) == newest' = [ms |-> ms, entropy |-> e] /\ made' = ~made

\* Mutant of Later: a time before the last one is used as it is.
LaterBackwards(ms) ==
  /\ ms # lastMS
  /\ \E e \in Entropy :
       /\ entropy' = e /\ Made(ms, e)
       /\ lastMS' = ms /\ overflowed' = FALSE

\* The clock has moved on: new entropy.
Later(ms) ==
  /\ ms > lastMS
  /\ \E e \in Entropy :
       /\ entropy' = e /\ Made(ms, e)
       /\ lastMS' = ms /\ overflowed' = FALSE

\* It has not, or has been set back: the next entropy of the last millisecond.
Within(ms) ==
  /\ ms <= lastMS /\ ~Overflows(entropy)
  /\ entropy' = incrementEntropy(entropy)
  /\ Made(lastMS, incrementEntropy(entropy))
  /\ UNCHANGED <<lastMS, overflowed>>

\* The function panics, after the entropy has become zero.
Overflow(ms) ==
  /\ ms <= lastMS /\ Overflows(entropy)
  /\ entropy' = incrementEntropy(entropy)
  /\ overflowed' = TRUE
  /\ UNCHANGED <<lastMS, newest, made>>

NewULID == \E ms \in Clock : Later(ms) \/ Within(ms) \/ Overflow(ms)

Next == NewULID
Spec == Init /\ [][Next]_vars

-----------------------------------------------------------------------------
(* encodeULID. *)

\* The bytes of an id: the time, big-endian, then the entropy.
Bytes(id) ==
  [i \in 1 .. TimeBytes + Width |->
     IF i <= TimeBytes
     THEN (id.ms \div 2 ^ (ByteBits * (TimeBytes - i))) % 2 ^ ByteBits
     ELSE id.entropy[i - TimeBytes]]

Bits == ByteBits * (TimeBytes + Width)
Chars == (Bits + CharBits - 1) \div CharBits

\* Mutant of Bit: the bits of a byte from the lowest.
BitFromLowest(bytes, pos) ==
  IF pos >= Bits THEN 0
  ELSE (bytes[pos \div ByteBits + 1] \div 2 ^ (pos % ByteBits)) % 2

\* The bit at a position, from the highest of the first byte; 0 past the end.
Bit(bytes, pos) ==
  IF pos >= Bits THEN 0
  ELSE (bytes[pos \div ByteBits + 1] \div 2 ^ (ByteBits - 1 - (pos % ByteBits))) % 2

\* The characters, as places in the alphabet, which is in the order of ASCII.
encodeULID(bytes) ==
  [i \in 1 .. Chars |->
     FoldLeft(LAMBDA value, j : 2 * value + Bit(bytes, CharBits * (i - 1) + j - 1), 0,
              [j \in 1 .. CharBits |-> j])]

-----------------------------------------------------------------------------
(* Properties. *)

\* Every variable keeps its type.
TypeOK ==
  /\ lastMS \in Nat
  /\ entropy \in Entropy
  /\ newest \in [ms : Nat, entropy : Entropy]
  /\ made \in BOOLEAN /\ overflowed \in BOOLEAN

\* The order of sequences of one length: by the first place where they differ.
Before(a, b) == \E k \in DOMAIN a : a[k] < b[k] /\ \A i \in 1 .. k - 1 : a[i] = b[i]

\* The order of ids: by time, then by entropy.
Older(x, y) == x.ms < y.ms \/ (x.ms = y.ms /\ Before(x.entropy, y.entropy))

\* Every id is newer than all that were made before it, whatever the clock does,
\* but for those of a millisecond whose entropy has overflowed.
Excused == overflowed /\ newest'.ms = newest.ms
IdsGrow == [][made' # made => Older(newest, newest') \/ Excused]_vars

\* The texts grow as the ids do.
TextsGrow ==
  [][made' # made =>
       Before(encodeULID(Bytes(newest)), encodeULID(Bytes(newest'))) \/ Excused]_vars

\* The carry is exact: the next entropy is the next number of its width, none lies
\* between the two, and after the last one comes zero.
NextIsSuccessor ==
  IF Overflows(entropy) THEN incrementEntropy(entropy) = Zeros
  ELSE /\ Before(entropy, incrementEntropy(entropy))
       /\ \A e \in Entropy : ~(Before(entropy, e) /\ Before(e, incrementEntropy(entropy)))
=============================================================================
