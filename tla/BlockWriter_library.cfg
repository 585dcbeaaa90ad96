SPECIFICATION FairSpec
CONSTANTS
  Tracks = {video, audio, extra}
  MainTrack = video
  Timestamps = {0, 1, 3}
  ChanCap = 2
  MaxInt16 = 2
  Word = 64
  MaxKeyframeInterval = 1
  OffsetSeekHeader = 1
  OffsetCluster = 3
  OnErrorPanics = FALSE
  OnFatalPanics = FALSE
  NoTs = NoTs
  NoPos = NoPos
  MaxFrames = 2
  MaxFaults = 1
INVARIANT NothingDisappears
INVARIANT LastCloseWaits
PROPERTY EveryCloseReturns
CHECK_DEADLOCK FALSE
