SPECIFICATION FairSpec
CONSTANTS
  MaxJobs = 5
  Procs = {0, 1, 2, 3}
CHECK_DEADLOCK FALSE
INVARIANTS
  ReportNeverBlocks
PROPERTIES
  Returns
  KeepsPromise
