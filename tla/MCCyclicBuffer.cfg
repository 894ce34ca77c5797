CONSTANTS
  w1 = w1
  w2 = w2
  r1 = r1
  r2 = r2
  NoMsg = NoMsg
  Writers <- TwoWriters
  Readers <- TwoReaders
  Size = 2
  MaxWrites = 2
  Users <- ThreeUsers
  Elems = {1, 2}
  MaxPops = 1
  NIL = NIL
  Callers <- TwoCallers
  Enqueuers <- OneEnqueuer
  QueueElems = {1, 2, 3}
  MaxOps = 3
  Garbage = {0}
  NoElem = NIL
  Lens = {1, 2}
  BufferLen = 2
  MaxQueues = 3
  MaxMessages = 4
  MaxCleanups = 1
  MaxCrashes = 2
SPECIFICATION MCSpec
CHECK_DEADLOCK FALSE
INVARIANTS
  Conservation
  LossNoticed
  MqueueSafe
  FreelistRight
  QueueRight
PROPERTIES
  ImplementsDropOldest
  BuffersProgress
