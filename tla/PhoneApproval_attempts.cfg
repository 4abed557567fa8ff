CONSTANTS
  Requests = {r1}
  new = new
  old = old
  Destinations <- MCDestinations
  DestOf <- MCDestOf
  HighRisk = {}
  PriorGrants <- MCPriorGrants
  HistoryLimit = 1
  MaxAttempts = 2
  NoReq = NoReq
SPECIFICATION FairSpec
PROPERTIES RequestResolved
INVARIANT ApprovalIsTheUsers
