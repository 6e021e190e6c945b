SPECIFICATION FairSpec
CONSTANTS
  Hosts <- AllHosts
  X86Instructions <- MCX86
  ArmInstructions <- MCArm
  MaxLength = 3
  PageEnd = 4
  Wrap = 4
INVARIANTS TypeOK ObservationIsOurs NothingLeft
PROPERTY ExecutionReturns
CHECK_DEADLOCK FALSE
