SPECIFICATION FairSpec
CONSTANTS
  Tasks = {t1}
  NoTask = none
  Calls = {c1, c2}
  TokenLimit = 8
  LlmCallLimit = 2
  ToolCallLimit = 3
  MaxCallsPerWorker = 1
  ResearchShare = 60
  RepairShare = 15
  Ceilings = {}
  Estimates = {4}
  Overrun = 0
  WaveSizes = {1}
  ToolBatches = {3}
  FastPathToolCap = 3
  SyncsUsage = TRUE
  PriorUsage <- SomePriorUsage
CHECK_DEADLOCK FALSE
INVARIANTS
  UsageIsRemembered
PROPERTIES
  NoInitialResearchOnceForced
  ReservationsDrain
