------------------------------ MODULE MCWorker ------------------------------
(* Small instances of Worker for TLC. *)
EXTENDS Worker, TLC

CONSTANTS p1, p2

\* Publish with the outcomes its callers are promised: stored and acknowledged,
\* refused, or stored with the acknowledgement lost.
DocumentedOutcomes == {[stored |-> TRUE, ok |-> TRUE],
                       [stored |-> FALSE, ok |-> FALSE],
                       [stored |-> TRUE, ok |-> FALSE]}

\* Publish as it is when calls share the producer: nil also without a record.
AllOutcomes == DocumentedOutcomes \cup {[stored |-> FALSE, ok |-> TRUE]}

OneRequest == p1 :> <<"good">>
TwoRequests == p1 :> <<"good", "good">>
BothFail == p1 :> <<"poison", "undecodable">>
TwoPartitions == p1 :> <<"poison", "good">> @@ p2 :> <<"undecodable">>

WorkerSymmetry == Permutations(Workers)
=============================================================================
