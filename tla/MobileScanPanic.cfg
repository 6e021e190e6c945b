SPECIFICATION Spec
CONSTANTS
  Clients = {c1, c2}
  NoClient = NoClient
  MaxScans = 2
  MaxEvents = 2
  Configs <- MCConfigs
PROPERTY WaitMeansRunning
CHECK_DEADLOCK FALSE
