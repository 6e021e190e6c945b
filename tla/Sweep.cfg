SPECIFICATION FairSpec
CONSTANTS
  Base = 3
  Width = 3
  None = None
  TargetLen = 2
  FixedLen = None
  CommandLines <- MCCommandLines

CHECK_DEADLOCK FALSE
INVARIANTS TypeOK RangesTile WorkersSearchAlike
PROPERTIES ImplementsCoverage SupervisorEnds
