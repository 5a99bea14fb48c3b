SPECIFICATION FairSpec
CONSTANTS
  Corpora <- UpToThree
  Executors <- AllExecutors
  Results <- SomeResults
  Registered <- RegisteredKeys
  HotKeyMinTxs = 2
  FailOnDivergence = TRUE
  MaxFaults = 2
INVARIANTS
  TypeOK
  SummaryMatchesReports
  ExitReflectsReports
  ResourcesReleased
  IndexIsPosition
  ReportedPrefix
  HeightsFollowCorpus
  CoverageOfExecuted
PROPERTIES
  FollowsContract
  RunHarnessTerminates
