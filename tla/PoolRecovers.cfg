CONSTANTS
  Proxies = {p1, p2}
  Ext = ext1
  IPs = {i1}
  NoIP = noip
  None = none
  Requests = {r1}
  Creators = {c1}
  Health = health
  Cooldown = cooldown
  Admin = admin
  Convs = {}
  NoConv = noconv
  ConvOf <- NoConversation
  StickyOn = FALSE
  InitSize = 1
  Sizes = {1}
  MaxAttempts = 1
  RotateAttempts = 1
  Faults = {"ratelimit", "transport", "drift", "create", "probe"}
  MaxFaults = 1
  Loops = {health, cooldown}
  AdminOps = {}
SPECIFICATION FairSpec
PROPERTIES
  Replenishes
