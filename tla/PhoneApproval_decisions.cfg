CONSTANTS
  Requests = {r1, r2}
  new = new
  old = old
  Destinations <- MCDestinations
  DestOf <- MCDestOf
  HighRisk = {}
  PriorGrants <- MCPriorGrants
  HistoryLimit = 1
  MaxAttempts = 1
  NoReq = NoReq
SPECIFICATION Spec
SYMMETRY Symmetric
INVARIANTS ApprovalIsTheUsers NoLateApproval SignsWhatWasShown DecisionOnRecord ShownWasSent BusyHasTask
