SPECIFICATION FairChainSpec
CONSTANTS
  NoStatus = NoStatus
  NoPose = NoPose
  Trees = {"test"}
  Hps = {0}
  Zones = {FALSE}
  Poses <- MCPoses
  Files <- NoFile
  Interval = 0
  WaitTicks = 1
  Near <- MCNear
  MaxCrashes = 0
  Prompt = TRUE
  TopicDepth = 2
  MaxGoals = 5
  MaxFaults = 2
PROPERTIES
  LowHpGetsHome
CHECK_DEADLOCK FALSE
