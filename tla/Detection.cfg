SPECIFICATION Spec
CONSTANTS
    Interval = 2
    PassBound = 9
    CommandBound = 6
    HeartbeatBound = 2
    ReprobeDelay = 1
    Threshold = 2
    Budget = 12
    MaxBlock = 10
    MaxRaises = 1
INVARIANTS
  NoFalseAlarm
  FoundInTime
PROPERTIES
  FailedIsNoticed
CHECK_DEADLOCK FALSE
