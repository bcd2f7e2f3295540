SPECIFICATION Spec
CONSTANTS
    ChainLength = 1
    MaxAttempts = 1
    Replies = {"decision"}
    Categories = {"border", "overlay", "window"}
    Universal = {"overlay", "window"}
    Techniques <- MCTechniques
    MaxCaptureAttempts = 1
    Catalog <- MCCatalog
    EndTurn = "end_turn"
    Limit = 2
    TrySet <- CleanTries
    ProfileSets <- MCProfileSets
    Platforms = {"linux"}
    MaxSteps = 2
CHECK_DEADLOCK FALSE
INVARIANT
    LoopAuditPasses
