CONSTANTS
  NoKey = NoKey
  NoId = NoId
  NoDaemon = NoDaemon
  Daemons = {d1}
  Inits = {i1, i2}
  Clients = {}
  Lines <- MCLines
  Configs <- OnPath
  MaxStarts = 2
  MaxFaults = 0
  MaxCalls = 0
SPECIFICATION Spec
INVARIANT SaversAreConsistent
CHECK_DEADLOCK FALSE
