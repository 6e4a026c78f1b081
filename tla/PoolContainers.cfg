CONSTANTS
  Proxies = {p1, p2}
  Ext = ext1
  IPs = {i1}
  NoIP = noip
  None = none
  Requests = {}
  Creators = {c1, c2, c3}
  Health = health
  Cooldown = cooldown
  Admin = admin
  Convs = {}
  NoConv = noconv
  ConvOf <- NoConversation
  StickyOn = FALSE
  InitSize = 1
  Sizes = {1, 2}
  MaxAttempts = 1
  RotateAttempts = 2
  Faults = {"drift", "remove", "create"}
  MaxFaults = 1
  Loops = {health}
  AdminOps = {"rotate", "close", "resize"}
SPECIFICATION Spec
SYMMETRY Symmetry
CHECK_DEADLOCK FALSE
INVARIANTS
  SpawnCount
  InFlightBound
  NoOrphan
  NoGhostEntry
