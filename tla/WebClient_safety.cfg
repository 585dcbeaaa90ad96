SPECIFICATION Spec
CONSTANTS
  Stoppers = {s1}
  Nobody = Nobody
  MaxChunks = 3
  MaxResets = 1
  MaxFailures = 1
INVARIANT FragmentsFollowTheirInit
INVARIANT MutexProtectsConnection
PROPERTY EndedClientIsSilent
CHECK_DEADLOCK FALSE
