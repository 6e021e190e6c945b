SPECIFICATION Spec
CONSTANTS
  Base = 3
  Width = 3
  None = None
  TargetLen = 2
  FixedLen = 2
  CommandLines <- MCDefaultEnd
INVARIANT SweepComplete
CHECK_DEADLOCK FALSE
