SPECIFICATION FairSpec
CONSTANTS
  MaxGoals = 4
  MaxFaults = 2
  MaxLate = 1
INVARIANTS
  OwnsItsGoal
PROPERTIES
  ReportsOwnResult
  Reports
CHECK_DEADLOCK FALSE
