SPECIFICATION Spec
CONSTANTS
  r0 = r0
  b1 = b1
  b2 = b2
  o1 = o1
  o2 = o2
  Runs <- ThreeRuns
  Root = r0
  Operators <- TwoOperators
  MaxTurn = 2
  MaxBoards = 2
  MaxDeaths = 1
SYMMETRY Symmetry
INVARIANTS
  SavesAccounted
  AbandonedIsEmpty
PROPERTIES
  LineageKept
CHECK_DEADLOCK FALSE
