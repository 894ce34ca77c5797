CONSTANTS
  t1 = t1
  t2 = t2
  b1 = b1
  b2 = b2
  Triggers <- OneTriggers
  Blocks <- TwoBlocks
  TrigBlocks <- OneTrigBlocks
SPECIFICATION Spec
CHECK_DEADLOCK FALSE
INVARIANT NoStepDuringNodeCleanup
