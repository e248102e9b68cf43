SPECIFICATION FairSpec
CONSTANTS
  MaxRuns = 2
  MaxApprovals = 1
  MaxRestarts = 1
  MaxDeletes = 1
CHECK_DEADLOCK FALSE
INVARIANTS
  EveryTaskCanBeStopped
  ApprovalsHaveWaiters
PROPERTIES
  RunsGoForward
  EverythingEnds
