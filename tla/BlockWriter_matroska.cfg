SPECIFICATION Spec
CONSTANTS
  Tracks = {video, audio}
  MainTrack = video
  Timestamps = {0, 1, 2, 4}
  ChanCap = 2
  MaxInt16 = 2
  Word = 64
  MaxKeyframeInterval = 100
  OffsetSeekHeader = 1
  OffsetCluster = 3
  OnErrorPanics = TRUE
  OnFatalPanics = TRUE
  NoTs = NoTs
  NoPos = NoPos
  MaxFrames = 3
  MaxFaults = 1
INVARIANT TypeOK
INVARIANT BlocksFollowWrites
INVARIANT TimestampsDecode
 
INVARIANT CompleteWhenClean
PROPERTY ImplementsRecording
CHECK_DEADLOCK FALSE
