\* Two workers, evictions and rebalances: a worker that lost its partition
\* goes on while another one takes over.
SPECIFICATION Spec
CONSTANTS
  p1 = p1
  p2 = p2
  NoWorker = NoWorker
  Workers = {w1, w2}
  Partitions = {p1}
  Backlog <- BothFail
  StartOldest = TRUE
  Slots = 1
  MaxRetry = 1
  PublishOutcomes <- AllOutcomes
  MaxChunks = 1
  MaxBeats = 0
  MaxFaults = 2
SYMMETRY WorkerSymmetry
INVARIANTS
  CommittedAreAnswered
  RedeliveryNeedsAFault
PROPERTIES
  CommitNeverMovesBack
