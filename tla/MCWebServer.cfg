CONSTANTS
  w1 = w1
  t1 = t1
  b1 = b1
  b2 = b2
  Workers <- OneWorker
  Connections = 4
  Requests = {"page", "fail", "stop", "reload"}
  Slots = 2
  MaxStarts = 2
  NONE = NONE
SPECIFICATION MCSpec
INVARIANTS
  ServerSafe
  Answered
PROPERTIES
  ServedAndStopped
  NodeProgress
CHECK_DEADLOCK FALSE
