\* One worker, one request: retries, lost acknowledgements, crashes, cancelled
\* sessions, with chunks and heartbeats in one stream.
SPECIFICATION Spec
CONSTANTS
  p1 = p1
  p2 = p2
  NoWorker = NoWorker
  Workers = {w1}
  Partitions = {p1}
  Backlog <- OneRequest
  StartOldest = TRUE
  Slots = 1
  MaxRetry = 2
  PublishOutcomes <- DocumentedOutcomes
  MaxChunks = 2
  MaxBeats = 1
  MaxFaults = 1
INVARIANTS
  TypeOK
  TranscriptComplete
  TerminalEventsClose
  ContentSequenceGrows
  ResultsFollowEvents
  DeadLetterIsExhausted
  EventsFollow
