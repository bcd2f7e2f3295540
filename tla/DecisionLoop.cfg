SPECIFICATION Spec
CONSTANTS
    ChainLength = 2
    MaxAttempts = 2
    Replies = {"http_error", "too_long", "decision", "no_credential"}
    Categories = {"border", "overlay", "window"}
    Universal = {"overlay", "window"}
    Techniques <- MCTechniques
    MaxCaptureAttempts = 2
    Catalog <- MCCatalog
    EndTurn = "end_turn"
    Limit = 2
    TrySet <- MCTries
    ProfileSets <- MCProfileSets
    Platforms = {"linux"}
    MaxSteps = 2
INVARIANTS
  FramesAccounted
  ShownIsProvenClean
  ActionsAccounted
  BackstopExact
  RecordTellsAttempt
  CallsAccounted
CHECK_DEADLOCK FALSE
