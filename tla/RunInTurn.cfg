\* Users only answer the run's pauses .
SPECIFICATION InTurnSpec
CONSTANTS
  StepCount = 7
  StepType <- FullTemplate
  MaxPanels = 3
  Options <- AllOptions
  PanelCounts = {1, 3}
  Costs = {1}
  Overrides <- PlainOverride
  MaxCommands = 3
INVARIANTS
  TypeOK
  CompletedMeansAllDone
  NoBlankPanel
  PauseCanResume
PROPERTIES
  ChargedOnce
  RunSettles
\* A run stops when it is completed, failed or cancelled.
CHECK_DEADLOCK FALSE
