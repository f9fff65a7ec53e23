\* Three calls, two connections that end, a refusal; coverage is given up
\* while there is a connection only.
CONSTANTS
  MaxAttempts = 1
  MaxCalls = 3
  MaxDrops = 2
  MaxRefusals = 1
  OfflineDisable = FALSE
SPECIFICATION FairSpec
INVARIANTS
  CoverageSurvives
  ClosedIsClean
PROPERTIES
  SentOnceWhileWaiting
  Recovers
CHECK_DEADLOCK FALSE
