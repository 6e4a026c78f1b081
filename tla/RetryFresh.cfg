CONSTANTS
  Proxies = {p1, p2, p3}
  None = none
  Endpoints = {"chat", "models", "retrieve"}
  MaxRetries = 3
SPECIFICATION Spec
SYMMETRY Symmetry
CHECK_DEADLOCK FALSE
INVARIANTS
  FreshIsTried
