\* Heartbeats in the numbering of one delivery's events.
SPECIFICATION Spec
CONSTANTS
  p1 = p1
  p2 = p2
  NoWorker = NoWorker
  Workers = {w1}
  Partitions = {p1}
  Backlog <- OneRequest
  StartOldest = TRUE
  Slots = 1
  MaxRetry = 2
  PublishOutcomes <- DocumentedOutcomes
  MaxChunks = 2
  MaxBeats = 1
  MaxFaults = 0
INVARIANTS
  SequenceNumbersGrow
