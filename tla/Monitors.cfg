SPECIFICATION FairSpec
CONSTANTS
  FullSize = 4
  OtherSize = 2
  Benign = 1
  Shapes <- MCShapes
  MaxFrames = 3
  Intervals = {1}
  ByteValues = 8
  MaxSilence = 10
  AccessUnits <- MCAccessUnits
  Steps = {1, 3}
  MaxUnits = 3
  Kinds = {"dvrip", "rtsp"}
  FrameRates <- MCFrameRates
 
INVARIANT KeepAliveInTime
INVARIANT DurationsFollowTheClock
INVARIANT FramesDescribeTheStream
PROPERTY GetFrameReturns
CHECK_DEADLOCK FALSE
