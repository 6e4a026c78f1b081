CONSTANTS
  Proxies = {p1, p2, p3}
  Ext = ext1
  IPs = {}
  NoIP = noip
  None = none
  Requests = {r1}
  Creators = {c1, c2}
  Health = health
  Cooldown = cooldown
  Admin = admin
  Convs = {}
  NoConv = noconv
  ConvOf <- NoConversation
  StickyOn = FALSE
  InitSize = 1
  Sizes = {1}
  MaxAttempts = 1
  RotateAttempts = 1
  Faults = {"transport", "probe"}
  MaxFaults = 2
  Loops = {health}
  AdminOps = {}
SPECIFICATION Spec
PROPERTIES
  PruneOnlyDead
