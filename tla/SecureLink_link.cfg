CONSTANTS
  pcStatic = pcStatic
  phoneStatic = phoneStatic
  otherStatic = otherStatic
  Pc = Pc
  Phone = Phone
  StaticOf <- MCStaticOf
  Statics = {pcStatic, phoneStatic, otherStatic}
  MtuPayload <- MCMtuPayload
  Sizes = {0, 3, 6}
  SeqLimit = 2
  Cap = 6
  NoiseMax = 5
  PumpCap = 1
  MaxSends = 2
  MaxFaults = 1
  MaxAcks = 1
SPECIFICATION Spec
INVARIANTS NoFalseAlarm NoStandoff
PROPERTIES InOrder
CHECK_DEADLOCK FALSE
