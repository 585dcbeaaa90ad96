SPECIFICATION FairSpec
CONSTANTS
  NTracks = 2
  Timestamps = {0, 1, 2}
  MaxDelayedPackets = 2
  MaxTimescaleDelay = 1
  DropOutdated = TRUE
  MaxFrames = 5
INVARIANT OutputIsSorted
INVARIANT EveryFrameIsSomewhere
PROPERTY InterceptReturns
CHECK_DEADLOCK FALSE
