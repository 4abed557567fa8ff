CONSTANTS
  c1 = c1
  c2 = c2
  p1 = p1
  n1 = n1
  n2 = n2
  Ceremonies = {c1}
  Phones = {p1}
  PcKey = PcKey
  Nonces = {n1, n2, ZeroNonce}
  ZeroNonce = ZeroNonce
  None = None
  Skews <- MCSkews
  QrTtl = 1
  FutureSkew = 1
  ConfirmTimeout = 1
  Retention = 1
  MaxDrain = 1
  MaxTime = 2
  MaxFaults = 0
SPECIFICATION Spec
INVARIANT FailureBurns
CHECK_DEADLOCK FALSE
