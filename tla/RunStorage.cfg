SPECIFICATION Spec
CONSTANTS
  MaxRuns = 2
  Earlier = {2}
  Batches <- MCBatches
  MaxJobs = 1
  MaxRequests = 1
  MaxCrashes = 1
CHECK_DEADLOCK FALSE
INVARIANTS CascadeIsComplete PublishedResultIsStored
PROPERTIES MemoryIsKept
