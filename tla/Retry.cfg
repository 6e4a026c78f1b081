CONSTANTS
  Proxies = {p1, p2, p3}
  None = none
  Endpoints = {"chat", "models", "retrieve"}
  MaxRetries = 4
SPECIFICATION Spec
CHECK_DEADLOCK FALSE
INVARIANTS
  NoLeak
  OneAtATime
  CallBound
  CrashExplained
