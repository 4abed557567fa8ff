CONSTANTS
  NoKey = NoKey
  NoId = NoId
  NoDaemon = NoDaemon
  Daemons = {d1, d2}
  Inits = {i1}
  Clients = {}
  Lines <- MCLines
  Configs <- OnTmp
  MaxStarts = 3
  MaxFaults = 1
  MaxCalls = 0
SPECIFICATION Spec
INVARIANT LeftoverIsReclaimed
CHECK_DEADLOCK FALSE
