SPECIFICATION BenchSpec
CONSTANTS
  Suites <- MCSuites
  MaxWorkers = 3
INVARIANTS BenchTypeOK OneToken PassedCounts AllPassed NobodyLeft NothingLeftOn FlagOwned
PROPERTIES ImplementsCampaign ReportersEnd Ends
CHECK_DEADLOCK FALSE
