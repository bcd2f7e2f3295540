SPECIFICATION FairSpec
CONSTANTS
  o1 = o1
  o2 = o2
  l1 = l1
  l2 = l2
  Operators <- OneOperator
  Loops <- TwoLoops
  MaxTurn = 5
  MaxFaults = 2
  FaultKinds = {"preparation", "turn", "after_persist", "unexpected", "recover", "still_faulty", "load", "missing", "outcome"}
  RecoveryAttemptLimit = 1
  StopTurn = 3
  FirstTurns = {1, 2}
INVARIANTS
  OneDriver
  AgreeAtRest
  NoSilentStrand
  SlotFree
  HeldUntilTerminal
PROPERTIES
  RowFollowsGraph
  StopLands
  RunSettles
CHECK_DEADLOCK FALSE
