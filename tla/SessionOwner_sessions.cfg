CONSTANTS
  AuthRequests = {a1}
  ListRequests = {}
  Malformed = {}
  Oversize = {}
  Unloggable = {a1}
  NoReq = NoReq
  MaxSessions = 2
  MaxRivals = 1
  RouteQueueCap = 1
  CmdCap = 1
  PumpCap = 0
  InboxCap = 1
SPECIFICATION Spec
INVARIANTS ExecuteNeedsApproval WriteAhead OutcomeMatchesRecord EndIsOnRecord OrphansAreOurs
PROPERTIES TerminalIsFinal ImplementsLifecycle
