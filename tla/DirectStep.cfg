SPECIFICATION DirectSpec
CONSTANTS
  MaxRetries = 1
  MaxProvider = 2
  StepTimeout = 2
  WallTimeout = 3
  IdleTimeout = 2
  HitlTimeout = 1
  ToolCap = 1
  MaxRounds = 2
  MaxArtifacts = 1
  Gated = TRUE
  Interrupts = TRUE
INVARIANTS
  ReportIsTrue
PROPERTIES
  CallsNeedALease
  WorkerEnds
