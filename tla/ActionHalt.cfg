SPECIFICATION FairSpec
CONSTANTS
  MaxGoals = 4
  MaxFaults = 2
  MaxLate = 1
PROPERTIES
  HaltIsSurvived
CHECK_DEADLOCK FALSE
