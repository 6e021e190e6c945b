SPECIFICATION CorpusSpec
CONSTANTS
  Base = 3
  Width = 4
  NoCandidate = NoCandidate
  Unlimited = Unlimited
  Configs <- MCConfigs
  Outcomes <- MCOutcomes
  Prefixes = {1}
  Reach <- MCReach
  TwoByte = 2
  Maps = {1}
  Invalid = 4
  OpcodeBlacklist <- MCOpcodes
  PrefixBlacklist = {}
  NoConfig = NoConfig
  BuildConfigs <- MCBuildConfigs
  KeyLen = 2
  MaxCount = 4
  ArmOutcomes <- MCArmOutcomes
  MaxDraws = 6
INVARIANTS CorpusTypeOK InRange PrefixesBounded 
PROPERTIES BruteLeavesNoGap TunnelVisitsSiblings SearchEnds
CHECK_DEADLOCK FALSE
