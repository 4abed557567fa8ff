CONSTANTS
  AuthRequests = {a1}
  ListRequests = {}
  Malformed = {}
  Oversize = {}
  Unloggable = {a1}
  NoReq = NoReq
  MaxSessions = 1
  MaxRivals = 0
  RouteQueueCap = 1
  CmdCap = 1
  PumpCap = 0
  InboxCap = 1
SPECIFICATION Spec
INVARIANTS NoUnloggedExecution
