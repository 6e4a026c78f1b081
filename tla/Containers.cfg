CONSTANTS
  Boxes = {b1, b2, b3}
  NoBox = nobox
  Creators = {c1, c2}
  MaxAccounts = 2
  MaxPort = 3
  MaxFaults = 2
SPECIFICATION Spec
SYMMETRY Symmetry
INVARIANTS
  Accounted
  Reaped
  HeldRuns
  OwnerRight
