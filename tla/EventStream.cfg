CONSTANTS
    MaxRuns = 2
    MaxSeq = 2
    MaxEvents = 2
    MaxWire = 1
    MaxFaults = 1
SPECIFICATION FairSpec
INVARIANTS ViewIsComplete
PROPERTIES CatchesUp
CHECK_DEADLOCK FALSE
