CONSTANTS
  j1 = j1
  j2 = j2
  Joints <- TwoJoints
  Positions <- SomePositions
  Commands <- SomeCommands
  SCALE_START = 80
  SCALE_END = 85
  MoveIn = 10
  RefPos = 10
SPECIFICATION MCSpec
INVARIANTS
  ReferenceAtLimits
  SoftLimits
  ErrorStops
PROPERTIES
  EveryCalibrationEnds
