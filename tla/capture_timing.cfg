SPECIFICATION Spec
CONSTANTS
  Second = 6
  FPSLimits = {0, 2, 4}
  HistoryDuration = 3
  ShowEvery = 2
  UIntRange = 72
  Granularity = 2
  Works = {0, 4}
  Sends = {0, 1}
  Lates = {0, 1}
  PacketSizes = {1}
  MaxClients = 1
  MaxTime = 15
INVARIANTS TypeOK UsageIsExact NothingOldKept DividesByZeroOnlyIfFast RateIsLimited
CHECK_DEADLOCK FALSE
