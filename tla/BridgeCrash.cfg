SPECIFICATION FairSpec
CONSTANTS
  ap1 = ap1
  ap1b = ap1b
  home = home
  NoPose = NoPose
  Poses <- MCPoses
  Near <- MCNear
  MaxGoals = 3
  MaxFaults = 0
  MaxCrashes = 1
  Prompt = TRUE
PROPERTIES
  KeepsRetrying
CHECK_DEADLOCK FALSE
