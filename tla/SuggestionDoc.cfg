SPECIFICATION Spec
CONSTANTS
  StepCount = 5
  StepType <- Template
  MaxPanels = 1
  Scenes <- EmptySchedules
  MaxRows = 3
  Horizon = 3
  ApiCap = 1
INVARIANTS
  SuggestionIsFree
CHECK_DEADLOCK FALSE
