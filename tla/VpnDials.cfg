CONSTANTS
  Creators = {c1}
  List <- SomeServers
  Wishes <- TwoWishes
  MaxFaults = 0
  None = none
SPECIFICATION Spec
INVARIANTS
  DialsSelected
