CONSTANTS
  Proxies = {p1, p2}
  Ext = ext1
  IPs = {}
  NoIP = noip
  None = none
  Requests = {r1}
  Creators = {c1, c2}
  Health = health
  Cooldown = cooldown
  Admin = admin
  Convs = {}
  NoConv = noconv
  ConvOf <- NoConversation
  StickyOn = FALSE
  InitSize = 2
  Sizes = {2}
  MaxAttempts = 1
  RotateAttempts = 1
  Faults = {"toolround"}
  MaxFaults = 1
  Loops = {}
  AdminOps = {}
SPECIFICATION Spec
SYMMETRY Symmetry
INVARIANTS
  AllReleased
