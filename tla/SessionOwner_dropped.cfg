CONSTANTS
  AuthRequests = {a1,a2}
  ListRequests = {}
  Malformed = {}
  Oversize = {}
  Unloggable = {}
  NoReq = NoReq
  MaxSessions = 1
  MaxRivals = 0
  RouteQueueCap = 1
  CmdCap = 1
  PumpCap = 0
  InboxCap = 1
SPECIFICATION Spec
INVARIANTS NoCallerDropped
