CONSTANTS
  Second = 2
  Token = 12
  BurstRPS = 2
  BurstCooldown = 3
  RPM = 3
  Lag = 1
  MaxTime = 12
SPECIFICATION LimitSpec
CHECK_DEADLOCK FALSE
INVARIANTS
  BurstBound
  RpmBound
  PoliteIsServed
