SPECIFICATION Spec
CONSTANTS
    Inherited <- MCInherited
    Variable <- MCVariable
    Fields <- MCFields
    Declared <- MCGetters
    Platform <- MCPlatform
    ContextNeeded = 2
    SaveBytes = 1
    CaptureBytes = 1
    StepsPerTurn = 2
    OpenEndedTurns = 4
    Getters <- MCGetters
    Unobservable = {"resources"}
    LeaderFields = {"civilization", "leader"}
    Starts <- MCStarts
    Setups <- MCSetups
    MaxMoves = 1
    MaxFaults = 1
INVARIANTS
  VerdictIsTrue
  StandsOnCleared
  NothingLeft
CHECK_DEADLOCK FALSE
