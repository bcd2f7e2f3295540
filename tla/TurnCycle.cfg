SPECIFICATION Spec
CONSTANTS
  MaxTurn = 3
  MaxFaults = 4
  FaultKinds = {"raise", "observation", "client", "load", "file", "unended", "rewind", "retry"}
  RecoveryAttemptLimit = 2
  StopTurn = 3
INVARIANTS
  RecordIsTheGame
  StatusTruthfulAtStop
  PersistNeverRefused
  AuditsAgree
PROPERTIES
  ReplayStartsWhereItBegan
CHECK_DEADLOCK FALSE
