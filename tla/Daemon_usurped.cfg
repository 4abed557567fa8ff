CONSTANTS
  NoKey = NoKey
  NoId = NoId
  NoDaemon = NoDaemon
  Daemons = {d1, d2}
  Inits = {i1}
  Clients = {}
  Lines <- MCLines
  Configs <- OnPath
  MaxStarts = 3
  MaxFaults = 0
  MaxCalls = 0
SPECIFICATION Spec
INVARIANT ConflictsSurface
CHECK_DEADLOCK FALSE
