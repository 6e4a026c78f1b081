CONSTANTS
  Creators = {c1, c2}
  List <- SomeServers
  Wishes <- SomeWishes
  MaxFaults = 3
  None = none
SPECIFICATION FairSpec
INVARIANTS
  FreshMatches
  KeyMatches
  SelectsBest
PROPERTIES
  Recovers
