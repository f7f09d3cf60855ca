SPECIFICATION FairSpec
CONSTANTS
  Capacity = 2
  Word = 4
  LidarCount = 1
  Configured = {}
  Options <- MCOptions
  ImuLidars = {1}
  MaxImu = 1
INVARIANTS
  TypeOK
  FrameIsIntact
  SamplingIsConfigured
PROPERTIES
  PushedIsPublished
  FullRingDrains
  ShutdownEnds
CHECK_DEADLOCK FALSE
