\* Liveness: one worker, two partitions, one generation slot.
SPECIFICATION FairSpec
CONSTANTS
  p1 = p1
  p2 = p2
  NoWorker = NoWorker
  Workers = {w1}
  Partitions = {p1, p2}
  Backlog <- TwoPartitions
  StartOldest = FALSE
  Slots = 1
  MaxRetry = 2
  PublishOutcomes <- DocumentedOutcomes
  MaxChunks = 1
  MaxBeats = 0
  MaxFaults = 1
PROPERTIES
  BacklogDrains
  ImplementsAtLeastOnce
  SessionsEnd
