SPECIFICATION FairSpec
CONSTANTS
  Classes = {h1, h2}
  max_number_classes = 3
  max_number_plans_in_current_class = 2
  Invalid = Invalid
  None = None
INVARIANTS
  ClassesAreAligned
  PrefersPlansClass
  CandidatesAreDistinct
  CommandIsFeasible
PROPERTIES
  CycleEnds
CHECK_DEADLOCK FALSE
