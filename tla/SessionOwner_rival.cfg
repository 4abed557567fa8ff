CONSTANTS
  AuthRequests = {a1}
  ListRequests = {}
  Malformed = {}
  Oversize = {}
  Unloggable = {}
  NoReq = NoReq
  MaxSessions = 1
  MaxRivals = 1
  RouteQueueCap = 1
  CmdCap = 1
  PumpCap = 0
  InboxCap = 1
SPECIFICATION Spec
INVARIANTS SweepSparesLiveCalls
