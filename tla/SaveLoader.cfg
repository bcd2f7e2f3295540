SPECIFICATION Spec
CONSTANTS
    Tasks = {"turn", "watch"}
    StateTable <- MCStateTable
    ReconnectMax = 2
    Save = 1
    MaxCommands = 6
    MaxPlay = 2
    MaxFaults = 2
INVARIANTS
  OwnAnswers
  CommandsLand
  LoadedIsNamed
PROPERTIES
  LoadEnds
CHECK_DEADLOCK FALSE
