SPECIFICATION FairSpec
CONSTANTS
  Base = 2
  Width = 2
  None = None
  TargetLen = 2
  FixedLen = None
  Configs <- MCConfigs
  Outcomes <- MCOutcomes
  Capacity = 1
  MaxRuns = 3
INVARIANTS TypeOK SyncIsComplete DoneIsComplete ResumeChangesStart
           ResumeLeavesNoGap
PROPERTY SifterEnds
CHECK_DEADLOCK FALSE
