SPECIFICATION Spec
CONSTANTS
  o1 = o1
  o2 = o2
  l1 = l1
  l2 = l2
  Operators <- TwoOperators
  Loops <- TwoLoops
  MaxTurn = 1
  MaxFaults = 1
  FaultKinds = {"turn", "recover", "load", "unexpected", "branch", "sweep"}
  RecoveryAttemptLimit = 1
  StopTurn = 0
  FirstTurns = {1}
SYMMETRY Symmetry
PROPERTIES
  TerminalStaysTerminal
CHECK_DEADLOCK FALSE
