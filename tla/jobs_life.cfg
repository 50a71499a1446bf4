\* One job: a request, a DELETE and a GET that recovers the job.
SPECIFICATION Spec
CONSTANTS
  Posts = {c1}
  Keyed = {c1}
  Deletes = {d1}
  Gets = {g1}
  None = None
  MaxEvents = 3
  MaxFaults = 2
INVARIANTS
  TypeOK
  SettledStatusIsLogged
  SettledSequenceIsLogged
CHECK_DEADLOCK FALSE
