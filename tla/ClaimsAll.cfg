SPECIFICATION Spec
CONSTANTS
  h1 = h1
  h2 = h2
  c1 = c1
  c2 = c2
  r1 = r1
  r2 = r2
  r3 = r3
  Harnesses <- TwoHarnesses
  Clients <- TwoClients
  Runs <- ThreeRuns
  Troubles = {"mismatch", "raise", "disconnect", "exit", "crash"}
SYMMETRY Symmetry
INVARIANTS
  OneRunPerClient
  ClaimHeld
  NoOrphanClaim
CHECK_DEADLOCK FALSE
