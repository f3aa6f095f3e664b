SPECIFICATION FairSpec
CONSTANTS
  Tests <- TwoTests
  Batchers <- AllBatchers
  Exec <- Execution
  Requests <- AllRequests
  MaxCalls = 4
  MaxCrashes = 1
INVARIANTS TypeOK OwnOutput NothingLeftOver
PROPERTIES CallReturns
