\* One client that reconnects, one non-streaming request.
SPECIFICATION Spec
CONSTANTS
  Streams = {s1, s2}
  Waiters = {v1}
  None = None
  Buffer = 2
  MaxEvents = 3
  MaxFaults = 1
INVARIANTS
  TypeOK
  SeenWithoutGaps
  SeenInOrder
  WaiterWillWake
  StreamWillEnd
CHECK_DEADLOCK FALSE
