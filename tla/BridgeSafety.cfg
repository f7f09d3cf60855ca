SPECIFICATION Spec
CONSTANTS
  ap1 = ap1
  ap1b = ap1b
  home = home
  NoPose = NoPose
  Poses <- MCPoses
  Near <- MCNear
  MaxGoals = 3
  MaxFaults = 2
  MaxCrashes = 1
  Prompt = FALSE
INVARIANTS
  IndInv
  NewestNeverCanceled
  HandleIsLive
  SuppressionIsRedundant
  DrivesWhereHeard
PROPERTIES
  OwnsOneGoal
CHECK_DEADLOCK FALSE
