SPECIFICATION FairSpec
CONSTANTS
  ap1 = ap1
  ap1b = ap1b
  home = home
  NoPose = NoPose
  Poses <- TwoPoses
  Near <- TwoNear
  MaxGoals = 4
  MaxFaults = 2
  MaxCrashes = 0
  Prompt = TRUE
PROPERTIES
  KeepsRetrying
CHECK_DEADLOCK FALSE
