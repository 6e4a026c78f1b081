CONSTANTS
  Calls = {c1, c2, c3}
  i1 = i1
  i2 = i2
  a1 = a1
  a2 = a2
  Ids = {i1, i2}
  ExtId = i1
  Addrs = {a1, a2, a3}
  InitAddr <- TwoProxies
  None = none
SPECIFICATION FairSpec
INVARIANTS
  NoMapRace
  DialsItsProxy
PROPERTIES
  Memos
  CallsReturn
CHECK_DEADLOCK FALSE
