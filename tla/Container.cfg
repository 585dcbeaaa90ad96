CONSTANTS
  OctetBits = 5
  Files = {f1, f2}
  TaggedFiles = {f2}
  Privates <- MCPrivates
  Widths = {40}
  Durations = {0, 7}
  PrivateVoid = 6
  VideoVoid = 8
  HeaderVoid = 12
  Recorded <- MCRecorded
  Others <- MCOthers
  CutOffs <- MCCutOffs
  Numbers <- MCNumbers
  Samples <- MCSamples
SPECIFICATION Spec
INVARIANT CodecsRoundTrip
 
 
INVARIANT FramesReachTheirReader
PROPERTY ReadersEnd
CHECK_DEADLOCK FALSE
