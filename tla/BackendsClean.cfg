SPECIFICATION Spec
CONSTANTS
  Hosts = {"android"}
  X86Instructions <- MCX86
  ArmInstructions <- MCArm
  MaxLength = 3
  PageEnd = 4
  Wrap = 4
INVARIANT CleanMeansRan
CHECK_DEADLOCK FALSE
