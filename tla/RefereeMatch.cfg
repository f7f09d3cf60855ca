SPECIFICATION FairSpec
CONSTANTS
  MaxHp = 150
  MaxAmmo = 20
  HeatLimit = 40
  PreparationTime = 1
  SelfCheckTime = 1
  RunningTime = 2
  Depth = 2
  MaxCommands = 1
  MaxGoals = 3
  MaxFaults = 1
INVARIANTS
  DecisionIsCurrent
  NoStrayRetreat
  RetreatIsNotCancelled
  RunningIsKnown
PROPERTIES
  GameOverShutsDown
CHECK_DEADLOCK FALSE
