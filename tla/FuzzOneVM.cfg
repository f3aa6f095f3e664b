SPECIFICATION Spec
CONSTANTS
  NumVMs = 1
  AllClients = FALSE
  NumThreads = 1
  CleanupFiles = TRUE
  TestChCap = 1
  ConsensusCap = 4
  NumTests = 1
  Hashes <- TwoHashes
  SlowRuns <- NormalSpeed
  VMErrors = FALSE
INVARIANTS NeverWaitsForNobody
