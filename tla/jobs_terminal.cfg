\* One job whose worker is faster than the queued event.
SPECIFICATION Spec
CONSTANTS
  Posts = {c1}
  Keyed = {}
  Deletes = {}
  Gets = {}
  None = None
  MaxEvents = 3
  MaxFaults = 0
PROPERTIES
  TerminalIsFinal
CHECK_DEADLOCK FALSE
