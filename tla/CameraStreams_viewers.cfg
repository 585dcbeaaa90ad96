SPECIFICATION FairSpec
CONSTANTS
  Nodes = {n1, n2, n3}
  Handlers = {h1, h2}
  Camera = Camera
  Nobody = Nobody
  IDs = {0, 1}
  Save <- SaveMain
  WebCast = {1}
  MaxErrors = 0
  Ends = {}
CHECK_DEADLOCK FALSE
PROPERTY CameraStandsBy
PROPERTY RequestsAreAnswered
INVARIANT NoMonitorIsForgotten
INVARIANT OneCasterPerStream
