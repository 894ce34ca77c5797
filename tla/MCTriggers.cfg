CONSTANTS
  NSEC_PER_SEC = 3
  Triggers <- TwoTriggers
  Blocks <- OneBlock
  TrigBlocks <- TwoTrigBlocks
  ListedBlocks = {"a", "b"}
  Lists <- SomeLists
  NULL = NULL
  Scripts <- BothScripts
  Size = 2
  MaxScans = 5
  MaxGens = 5
  MaxStops = 2
  Settled = 2
  MaxNow = 8
  MaxGen = 1
  MaxRounds = 3
  t1 = t1
  t2 = t2
  b1 = b1
SPECIFICATION MCSpec
CHECK_DEADLOCK FALSE
INVARIANTS
  NoStepAfterFree
  TeardownInOrder
  AtMostOneLateRound
  TriggerRight
  PlansRight
