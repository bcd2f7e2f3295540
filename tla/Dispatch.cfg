SPECIFICATION DispatchSpec
CONSTANTS
  Roots <- SomeRoots
  Lua <- LuaFiles
  Proposals <- SomeProposals
  MaxSteps = 2
  MaxMoves = 1
INVARIANTS
  LoadedServes
  EvidenceHolds
  RecordIsShown
PROPERTIES
  CallDoesItsAction
CHECK_DEADLOCK FALSE
