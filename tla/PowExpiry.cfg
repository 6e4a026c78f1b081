CONSTANTS
  Clients = {b1}
  Challenges = {c1, c2}
  Keys = {k1, k2, k3}
  None = none
  Redeemers = {r1, r2}
  Lookers = {l1}
  ChallengeTTL = 1
  KeyTTL = 2
  Grace = 1
  BonusCap = 2
  IdleWindow = 3
  MaxTime = 4
  MaxFaults = 1
SPECIFICATION Spec
INVARIANTS
  ExpiredRejected
