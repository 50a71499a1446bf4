----------------------------- MODULE MCEventLog -----------------------------
(* Small instances of EventLog for TLC. *)
EXTENDS EventLog, TLC

CONSTANTS c1, c2, mine, other, p1, p2

\* The job that is read has an event of another process between two of other
\* jobs, and one or two more are published to its partition.
Topic == p1 :> <<other, mine>> @@ p2 :> <<other>>
OnePartition == [c \in Calls |-> p1]
=============================================================================
