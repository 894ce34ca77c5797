CONSTANTS
  MaxScans = 3
  MaxLen = 3
  BufSize = 2
  MaxNodes = 3
  GrabSize = 2
  NULL = NULL
SPECIFICATION MCSpec
INVARIANTS
  ScanSafe
PROPERTIES
  ThreadsAndGrabs
