SPECIFICATION Spec
CONSTANTS
  Proc = {p1, p2}
  Key = {k1}
  Value = {v1, v2}
  None = None
  MaxFiles = 2
  MaxTime = 1
  StaleAfter = 1
SYMMETRY Symmetry
INVARIANTS
  NothingStays
PROPERTIES
  Implements
