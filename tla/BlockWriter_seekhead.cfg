SPECIFICATION Spec
CONSTANTS
  Tracks = {video, audio}
  MainTrack = video
  Timestamps = {0, 1}
  ChanCap = 2
  MaxInt16 = 2
  Word = 64
  MaxKeyframeInterval = 100
  OffsetSeekHeader = 1
  OffsetCluster = 3
  OnErrorPanics = TRUE
  OnFatalPanics = TRUE
  NoTs = NoTs
  NoPos = NoPos
  MaxFrames = 1
  MaxFaults = 0
INVARIANT SeekHeadPointsAtCues
CHECK_DEADLOCK FALSE
