SPECIFICATION FairSpec
CONSTANTS
  Capacities = {1, 2}
  MaxLines = 4
  MaxTicks = 2
  MaxDisplay = 2
  FindingLines = {1, 3, 4}
PROPERTIES
  RefusedMeansRunning
CHECK_DEADLOCK FALSE
