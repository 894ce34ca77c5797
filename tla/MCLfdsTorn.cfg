CONSTANTS
  t1 = t1
  t2 = t2
  Callers <- TwoThreads
  Enqueuers <- TwoThreads
  QueueElems = {1, 2, 3}
  MaxOps = 3
  Garbage = {0}
  NoElem = NULL
SPECIFICATION QueueSpec
CHECK_DEADLOCK FALSE
INVARIANT
  DequeueIsRight
