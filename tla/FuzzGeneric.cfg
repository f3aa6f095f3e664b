SPECIFICATION FairSpec
CONSTANTS
  NumVMs = 3
  AllClients = FALSE
  NumThreads = 1
  CleanupFiles = TRUE
  TestChCap = 1
  ConsensusCap = 2
  NumTests = 3
  Hashes <- TwoHashes
  SlowRuns <- NormalSpeed
  VMErrors = FALSE
INVARIANTS TypeOK ReadyPartition ResultHasEntry VerdictSound OnlyAgreedRemoved InvestigatesAlone FlawSendNeverBlocks
PROPERTIES DisagreementInvestigated
