SPECIFICATION Spec
CONSTANTS
  o1 = o1
  o2 = o2
  l1 = l1
  l2 = l2
  Operators <- TwoOperators
  Loops <- TwoLoops
  MaxTurn = 2
  MaxFaults = 1
  FaultKinds = {"turn"}
  RecoveryAttemptLimit = 1
  StopTurn = 0
  FirstTurns = {1}
SYMMETRY Symmetry
INVARIANTS
  OneDriver
CHECK_DEADLOCK FALSE
