SPECIFICATION ChainSpec
CONSTANTS
  NoStatus = NoStatus
  NoPose = NoPose
  Trees = {"basic_tree"}
  Hps = {0, 400}
  Zones = {FALSE}
  Poses <- MCPoses
  Files <- NoFile
  Interval = 1
  WaitTicks = 1
  Near <- MCNear
  MaxCrashes = 1
  Prompt = FALSE
  TopicDepth = 2
  MaxGoals = 3
  MaxFaults = 0
INVARIANTS
  DrivesWhereWanted
  RetreatDrivesHome
CHECK_DEADLOCK FALSE
