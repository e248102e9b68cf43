SPECIFICATION FairSpec
CONSTANTS
  LastStep = 0
  Engines = {"harness", "v2", "simple"}
  Slots = {1, 2}
  Kinds = {"search", "fetch", "batch"}
  SearchLimit = 1
  FetchLimit = 2
  ToolLimit = 3
  RunToolCap = 3
  CallLimit = 5
CHECK_DEADLOCK FALSE
INVARIANTS CallsAreAccountedFor WorkIsKept
PROPERTY WorkersEnd
