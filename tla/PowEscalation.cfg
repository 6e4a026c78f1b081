CONSTANTS
  Handlers = {h1, h2}
  Minute = 2
  Day = 3
  PerMin = 1
  ValveOn = TRUE
  PerDay = 2
  FloodFactor = 2
  EscalateBits = 1
  EscalateFor = 2
  MinBits = 1
  MaxBits = 3
  BaseBits = 2
  TargetMin = 30
  TargetMax = 90
  MinSamples = 2
  SolveTimes = {10}
  MaxSamples = 2
  MaxWindow = 3
  MaxTime = 4
SPECIFICATION QuotaSpec
CHECK_DEADLOCK FALSE
INVARIANTS
  EscalationEnds
