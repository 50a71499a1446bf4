------------------------------ MODULE JobEvents ------------------------------
(***************************************************************************)
(* The events of one job in llm.events as the gateway knows them: their    *)
(* types, the status each one sets, and the order in which one delivery of *)
(* a request makes them (module Worker has the worker itself).             *)
(***************************************************************************)

Types == {"queued", "started", "raw_sse", "heartbeat", "completed", "failed", "cancelled"}

\* isTerminal.
TerminalType(type) == type \in {"completed", "failed", "cancelled"}

\* The events that set a status, and the status they set.
StatusOf == [queued |-> "queued", started |-> "running", completed |-> "completed",
             failed |-> "failed", cancelled |-> "cancelled"]
SetsStatus(e) == e.type \in DOMAIN StatusOf

Statuses == {"none", "queued", "running", "completed", "failed", "cancelled"}
Terminal(status) == status \in {"completed", "failed", "cancelled"}

\* What Publish may do: store and acknowledge, refuse, or lose the
\* acknowledgement of what it stored.
Outcomes == {[stored |-> TRUE, ok |-> TRUE], [stored |-> FALSE, ok |-> FALSE],
             [stored |-> TRUE, ok |-> FALSE]}

\* The events that may follow an event in one delivery, heartbeats aside: a
\* started event for each attempt, chunks, a terminal event.  A completed event
\* may be followed by a further attempt, or by failed, when llm.completed did
\* not take the aggregate.
Follows(last) ==
  CASE last = "none"      -> {"started", "failed"}
    [] last = "started"   -> {"started", "raw_sse", "completed", "failed"}
    [] last = "raw_sse"   -> {"started", "raw_sse", "completed", "failed"}
    [] last = "completed" -> {"started", "failed"}
    [] last = "failed"    -> {}
=============================================================================
