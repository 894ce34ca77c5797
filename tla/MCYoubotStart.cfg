CONSTANTS
  w1 = w1
  w2 = w2
  Wheels <- TwoWheels
  BASE_TIMEOUT = 2
  TicksPerSec = 2
  MaxSec = 4
SPECIFICATION Spec
SYMMETRY Symmetry
PROPERTY OldCommandsReset
