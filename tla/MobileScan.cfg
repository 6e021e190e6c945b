SPECIFICATION FairSpec
CONSTANTS
  Clients = {c1, c2}
  NoClient = NoClient
  MaxScans = 2
  MaxEvents = 2
  Configs <- MCConfigs
INVARIANTS
  TypeOK
  BoundsKept
  OneWorker
  StreamInOrder
  StatusCoherent
PROPERTIES
  EndMeansDrained
  StopReturns
  ImplementsChannel
CHECK_DEADLOCK FALSE
