\* What nil means to a caller that shares the producer.
SPECIFICATION Spec
CONSTANTS
  Calls = {c1, c2}
  Capacity = 2
INVARIANTS
  PublishContract
CHECK_DEADLOCK FALSE
