\* Three calls of Publish on one producer, which may be closed at any time.
SPECIFICATION FairSpec
CONSTANTS
  Calls = {c1, c2, c3}
  Capacity = 2
INVARIANTS
  TypeOK
  HonestUnlessShared
  NilsAreBacked
  OutstandingIsAccounted
PROPERTIES
  PublishEnds
CHECK_DEADLOCK FALSE
