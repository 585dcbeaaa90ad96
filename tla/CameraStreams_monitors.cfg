SPECIFICATION Spec
CONSTANTS
  Nodes = {n1, n2}
  Handlers = {h1}
  Camera = Camera
  Nobody = Nobody
  IDs = {0, 1}
  Save <- SaveMain
  WebCast = {0}
  MaxErrors = 0
  Ends = {}
CHECK_DEADLOCK FALSE
INVARIANT OneMonitorPerStream
