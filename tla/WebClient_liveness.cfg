SPECIFICATION FairSpec
CONSTANTS
  Stoppers = {s1}
  Nobody = Nobody
  MaxChunks = 1
  MaxResets = 1
  MaxFailures = 0
PROPERTY EveryStopReturns
CHECK_DEADLOCK FALSE
