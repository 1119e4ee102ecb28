SPECIFICATION FairSpec
CONSTANTS
  TicksPerSecond = 4
  MIN_OFF_S = 1
  SETTLE_MS = 1000
  MaxKills = 3
PROPERTIES OffAcrossASecond NoTransient DeviceServed
