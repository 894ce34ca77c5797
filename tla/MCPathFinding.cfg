CONSTANTS
  Goal = 3
  Slots = 6
  Tables <- SomeTables
  PTS = 4
  MaxClusters = 3
  MaxScans = 2
  MapPoints <- SomePlaces
  ClusterCounts = {1, 2, 3}
SPECIFICATION MCSpec
CHECK_DEADLOCK FALSE
INVARIANTS
  Optimal
  PathIsDriven
  KMeansSafe
  NewtonRight
PROPERTIES
  ImplementsShortestRoute
  StepsEnd
  ControllerRight
