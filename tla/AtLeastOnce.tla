---------------------------- MODULE AtLeastOnce -----------------------------
(***************************************************************************)
(* What the worker group promises the producers of llm.requests, whatever  *)
(* the number of workers: a record is answered, durably and at least once, *)
(* before its partition's committed offset passes it.  A group that starts *)
(* at the end of a partition it has no offset for leaves out what is there, *)
(* and a producer that acknowledges what it has not stored misleads it.    *)
(***************************************************************************)
EXTENDS Integers, FiniteSets

CONSTANTS
  Partitions,
  Length,       \* partition -> its number of records
  FromOldest,   \* the group starts at the oldest record
  Honest        \* an acknowledged outcome is a stored one

VARIABLES
  answered,     \* partition -> offsets with a durable outcome
  misled,       \* partition -> offsets with an outcome acknowledged, not stored
  opened,       \* partition -> where the group started
  committed     \* partition -> next offset the group would read, 0 for none

vars == <<answered, misled, opened, committed>>

Init ==
  /\ answered = [p \in Partitions |-> {}]
  /\ misled = [p \in Partitions |-> {}]
  /\ opened = [p \in Partitions |-> 0]
  /\ committed = [p \in Partitions |-> 0]

\* Some worker stores an outcome of a record, for the first time or again.
Answer(p, o) ==
  /\ answered' = [answered EXCEPT ![p] = @ \cup {o}]
  /\ UNCHANGED <<misled, opened, committed>>

\* Some worker takes a record for answered that is not.
Mislead(p, o) ==
  /\ ~Honest
  /\ misled' = [misled EXCEPT ![p] = @ \cup {o}]
  /\ UNCHANGED <<answered, opened, committed>>

\* The group starts at the end of partitions it has no offset for.
SkipToEnd ==
  /\ ~FromOldest
  /\ opened' \in [Partitions -> Nat]
  /\ \A p \in Partitions :
       opened'[p] <= Length[p] /\ (opened'[p] # opened[p] => committed[p] = 0)
  /\ UNCHANGED <<answered, misled, committed>>

\* A worker commits its progress on some partitions.
Advance ==
  /\ committed' \in [Partitions -> Nat]
  /\ \A p \in Partitions :
       /\ committed[p] <= committed'[p] /\ committed'[p] <= Length[p]
       /\ opened[p] .. committed'[p] - 1 \subseteq answered[p] \cup misled[p]
  /\ UNCHANGED <<answered, misled, opened>>

Next ==
  \/ Advance \/ SkipToEnd
  \/ \E p \in Partitions : \E o \in 0 .. Length[p] - 1 : Answer(p, o) \/ Mislead(p, o)

Spec == Init /\ [][Next]_vars
=============================================================================
