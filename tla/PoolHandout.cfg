CONSTANTS
  Proxies = {p1, p2}
  Ext = ext1
  IPs = {}
  NoIP = noip
  None = none
  Requests = {r1, r2}
  Creators = {c1, c2}
  Health = health
  Cooldown = cooldown
  Admin = admin
  Convs = {k1}
  NoConv = noconv
  ConvOf <- OneConversation
  StickyOn = TRUE
  InitSize = 1
  Sizes = {1}
  MaxAttempts = 1
  RotateAttempts = 1
  Faults = {"transport", "ratelimit", "toolround"}
  MaxFaults = 1
  Loops = {cooldown}
  AdminOps = {"external"}
SPECIFICATION Spec
SYMMETRY Symmetry
INVARIANTS
  NoStuckActive
  NoLostWakeup
