SPECIFICATION FairSpec
CONSTANTS
  ChunkDuration = 3
  Durations = {1, 2}
  Hevc = TRUE
  HasAudio = TRUE
  Closers = {c1, c2}
  NoCloser = NoCloser
  MaxFrames = 4
  MaxFailures = 1
  Base = 4
  Units <- MCUnits
INVARIANT EveryFrameIsInOneFile
 
INVARIANT TimestampsAreMediaTime
INVARIANT UnitsAreFound
PROPERTY EachFileIsClosedOnce
PROPERTY StopClosesEverything
CHECK_DEADLOCK FALSE
