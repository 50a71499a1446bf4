------------------------------- MODULE Replay -------------------------------
(***************************************************************************)
(* One call of ReplayReader.ReadAll: a goroutine per partition reads from  *)
(* the oldest record to the end that the partition had when the goroutine  *)
(* asked for it, and keeps the records of one key.  The call returns no    *)
(* error for a partition it could not read, nor for one it read in part.   *)
(***************************************************************************)
EXTENDS Integers, Sequences

CONSTANTS
  Partitions,   \* partitions of the topic
  Wanted        \* records of the key ReadAll is called with

VARIABLES
  log,       \* partition -> its records
  reader,    \* idle, reading, returned or failed
  part,      \* partition -> its goroutine: [at, begin, end, out]
  out,       \* the records collected so far
  short      \* history: a partition was not read to its end

readVars == <<reader, part, out, short>>

InitRead ==
  /\ reader = "idle"
  /\ part = [p \in Partitions |-> [at |-> "none", begin |-> 0, end |-> 0, out |-> <<>>]]
  /\ out = <<>>
  /\ short = FALSE

\* The client and the list of partitions; without them ReadAll returns an error.
ReadAll ==
  /\ reader = "idle"
  /\ \/ /\ reader' = "reading"
        /\ part' = [p \in Partitions |-> [part[p] EXCEPT !.at = "offsets"]]
     \/ reader' = "failed" /\ UNCHANGED part
  /\ UNCHANGED <<out, short>>

\* Mutant of Offsets: the newest record is left for later.
OffsetsOneLess(p) ==
  /\ part[p].at = "offsets"
  /\ part' = [part EXCEPT ![p].at = "reading",
                          ![p].end = IF log[p] = <<>> THEN 0 ELSE Len(log[p]) - 1]
  /\ UNCHANGED <<reader, out, short>>

Offsets(p) ==
  /\ part[p].at = "offsets"
  /\ part' = [part EXCEPT ![p].at = "reading", ![p].end = Len(log[p])]
  /\ UNCHANGED <<reader, out, short>>

\* Mutant of Receive: the newest record of the key comes first.
ReceiveReversed(p) ==
  /\ part[p].at = "reading" /\ part[p].begin < part[p].end
  /\ LET record == log[p][part[p].begin + 1] IN
       part' = [part EXCEPT ![p].begin = @ + 1,
                            ![p].out = IF record \in Wanted THEN <<record>> \o @ ELSE @]
  /\ UNCHANGED <<reader, out, short>>

Receive(p) ==
  /\ part[p].at = "reading" /\ part[p].begin < part[p].end
  /\ LET record == log[p][part[p].begin + 1] IN
       part' = [part EXCEPT ![p].begin = @ + 1,
                            ![p].out = IF record \in Wanted THEN Append(@, record) ELSE @]
  /\ UNCHANGED <<reader, out, short>>

\* readPartition returns its records: at the end it knows of, or earlier, when
\* no record comes for 300 ms or the stream of records ends.
Collect(p) ==
  /\ part[p].at = "reading"
  /\ part' = [part EXCEPT ![p].at = "ended"]
  /\ out' = out \o part[p].out
  /\ short' = (short \/ part[p].begin < part[p].end)
  /\ UNCHANGED reader

\* Mutant of GiveUp: the goroutine returns without wg.Done.
GiveUpHangs(p) ==
  /\ part[p].at \in {"offsets", "reading"}
  /\ part' = [part EXCEPT ![p].at = "none"]
  /\ short' = TRUE
  /\ UNCHANGED <<reader, out>>

\* It returns an error, and its records are left out: an offset or the consumer
\* could not be had, or the context ended.
GiveUp(p) ==
  /\ part[p].at \in {"offsets", "reading"}
  /\ part[p].at = "reading" => part[p].begin < part[p].end
  /\ part' = [part EXCEPT ![p].at = "ended"]
  /\ short' = TRUE
  /\ UNCHANGED <<reader, out>>

\* wg.Wait.
Return ==
  /\ reader = "reading"
  /\ \A p \in Partitions : part[p].at = "ended"
  /\ reader' = "returned"
  /\ UNCHANGED <<part, out, short>>

Goroutine(p) == Offsets(p) \/ Receive(p) \/ Collect(p) \/ GiveUp(p)

ReadStep == ReadAll \/ (\E p \in Partitions : Goroutine(p)) \/ Return

-----------------------------------------------------------------------------
(* Properties. *)

\* Every variable of the reader keeps its type.
ReadTypeOK ==
  /\ reader \in {"idle", "reading", "returned", "failed"}
  /\ \A p \in Partitions :
       /\ part[p].at \in {"none", "offsets", "reading", "ended"}
       /\ part[p].begin <= part[p].end /\ part[p].end <= Len(log[p])
       /\ part[p].out \in Seq(Wanted)
  /\ out \in Seq(Wanted)
  /\ short \in BOOLEAN

\* A sequence holds what the first n records of a partition have for the key, in
\* their order: every one of its entries has a place among them, and every record
\* of the key is at one of the places.
Selects(s, records, n) ==
  \E place \in [DOMAIN s -> 1 .. n] :
    /\ \A i, k \in DOMAIN s : i < k => place[i] < place[k]
    /\ \A i \in DOMAIN s : s[i] = records[place[i]]
    /\ \A m \in 1 .. n : records[m] \in Wanted => \E i \in DOMAIN s : place[i] = m

\* What ReadAll returns is the beginning of what the topic holds for the key:
\* no record is left out before one that is there, or comes twice or too early.
ResultIsAPrefix ==
  reader = "returned" =>
    \E p \in Partitions : \E n \in 0 .. Len(log[p]) : Selects(out, log[p], n)
=============================================================================
