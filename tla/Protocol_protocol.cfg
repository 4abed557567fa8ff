SPECIFICATION Spec
CHECK_DEADLOCK FALSE
CONSTANTS
  MaxDepth = 2
  MaxBytes = 40
  DESTINATION_HISTORY_LIMIT = 1
  Wire <- MCWire
  Policies <- MCPolicies
  Histories <- MCHistories
  Decisions <- MCDecisions
  Grounds <- MCGrounds
  Ttl = 1
  MaxClock = 4
  MaxScopes = 2
INVARIANTS ExecutesOnlyWhatWasApproved WindowsMeet HeardIsSigned
