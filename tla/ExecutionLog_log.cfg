CONSTANTS
  Daemons = {daemon}
  Clis = {cli}
  Requests = {r1}
  mail = mail
  ServiceOf <- MCServiceOf
  Bodies <- MCBodies
  Filters <- MCFilters
  MaxRows = 4
  MaxTime = 1
  MaxFaults = 1
  NoHead = NoHead
  Malformed = Malformed
  Pairings = {0, 1}
SPECIFICATION Spec
CHECK_DEADLOCK FALSE
INVARIANTS NoFork RecordedHeadIsPast TamperEvident HonestLogsReconcile ForgeryReported
