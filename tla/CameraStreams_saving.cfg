SPECIFICATION FairSpec
CONSTANTS
  Nodes = {n1, n2, n3}
  Handlers = {}
  Camera = Camera
  Nobody = Nobody
  IDs = {0, 1}
  Save <- SaveMain
  WebCast = {0}
  MaxErrors = 2
  Ends = {"context", "credentials"}
CHECK_DEADLOCK FALSE
PROPERTY SavedStreamsComeBack
PROPERTY InterruptEndsCamera
INVARIANT TypeOK
INVARIANT OneMonitorPerStream
