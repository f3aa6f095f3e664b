SPECIFICATION FairSpec
CONSTANTS
  NumVMs = 3
  AllClients = TRUE
  NumThreads = 1
  CleanupFiles = FALSE
  TestChCap = 1
  ConsensusCap = 4
  NumTests = 1
  Hashes <- TwoHashes
  SlowRuns <- NormalSpeed
  VMErrors = TRUE
PROPERTIES DisagreementInvestigated
