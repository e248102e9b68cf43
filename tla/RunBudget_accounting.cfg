SPECIFICATION Spec
CONSTANTS
  Tasks = {t1, t2}
  NoTask = none
  Calls = {c1, c2, c3}
  TokenLimit = 11
  LlmCallLimit = 2
  ToolCallLimit = 3
  MaxCallsPerWorker = 2
  ResearchShare = 70
  RepairShare = 15
  Ceilings = {6}
  Estimates = {4, 7}
  Overrun = 1
  WaveSizes = {}
  ToolBatches = {}
  FastPathToolCap = 2
  SyncsUsage = FALSE
  PriorUsage <- NoPriorUsage
SYMMETRY Symmetry
CHECK_DEADLOCK FALSE
INVARIANTS
  ReservationAccounting
  LimitsHold
  ChargedExactlyOnce
  SharesKept
