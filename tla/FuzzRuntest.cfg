SPECIFICATION FairSpec
CONSTANTS
  NumVMs = 3
  AllClients = TRUE
  NumThreads = 2
  CleanupFiles = FALSE
  TestChCap = 1
  ConsensusCap = 4
  NumTests = 2
  Hashes <- TwoHashes
  SlowRuns <- BothSpeeds
  VMErrors = TRUE
INVARIANTS AllAccounted NeverWaitsForNobody
PROPERTIES PromiseKept AbortEnds Terminates
