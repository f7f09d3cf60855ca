SPECIFICATION FairSpec
CONSTANTS
  ScanTimes = {0, 4, 8, 12, 16}
  ImuTimes = {3, 6, 12, 15, 20}
  Sizes = {1, 6}
  Offsets = {1, 4}
  MAX_INI_COUNT = 1
  Heap = {0, 30}
  Skew = 4
  MaxJumps = 1
  MaxBack = 4
INVARIANTS
  ScanKeepsItsStamp
  OdometryMovesOn
PROPERTIES
  PredictsToScanEnd
  RegistersTheScan
  ScanIsTaken
CHECK_DEADLOCK FALSE
