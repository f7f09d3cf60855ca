SPECIFICATION FairSpec
CONSTANTS
  NoStatus = NoStatus
  NoPose = NoPose
  Trees = {"singlenav_basic", "basic_tree", "singlenav_tree", "test"}
  Hps <- FewHps
  Zones = {TRUE, FALSE}
  Poses <- MCPoses
  Files <- TwoFiles
  Interval = 3
  WaitTicks = 2
INVARIANTS
  WaitsForStatus
PROPERTIES
  HomeHasPriority
  AdvancesAfterWait
  KeepsPublishing
  ReactiveBranchSendsHome
  PatrolGoesOn
