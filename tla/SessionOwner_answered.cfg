CONSTANTS
  AuthRequests = {a1,m1}
  ListRequests = {}
  Malformed = {m1}
  Oversize = {a1}
  Unloggable = {}
  NoReq = NoReq
  MaxSessions = 1
  MaxRivals = 0
  RouteQueueCap = 1
  CmdCap = 1
  PumpCap = 1
  InboxCap = 1
SPECIFICATION FairSpec
PROPERTIES EveryCallerAnswered
