SPECIFICATION Spec
CONSTANTS
  Base = 2
  Width = 2
  None = None
  TargetLen = 2
  FixedLen = None
  Configs <- MCParallel
  Outcomes <- MCOutcomes
  Capacity = 1
  MaxRuns = 2
INVARIANT ParallelResumeLeavesNoGap
CHECK_DEADLOCK FALSE
