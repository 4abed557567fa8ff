CONSTANTS
  NoKey = NoKey
  NoId = NoId
  NoDaemon = NoDaemon
  Daemons = {d1, d2}
  Inits = {i1, i2}
  Clients = {c1}
  Lines <- MCLines
  Configs <- MCConfigs
  MaxStarts = 3
  MaxFaults = 1
  MaxCalls = 1
SPECIFICATION FairSpec
INVARIANTS ServingIsReachable RefusalIsEarned IdentityAgrees
PROPERTY EveryCallAnswered
CHECK_DEADLOCK FALSE
