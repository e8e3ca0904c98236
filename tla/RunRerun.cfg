\* Users regenerate any step, reassemble and resume while answers are still on the way.
SPECIFICATION Spec
CONSTANTS
  StepCount = 4
  StepType <- PublishTemplate
  MaxPanels = 2
  Options <- RerunOptions
  PanelCounts = {2}
  Costs = {1}
  Overrides <- ImageOverrides
  MaxCommands = 3
INVARIANTS
  RunningHasOpenAttempt
  EndsForAReason
  GatedStepsAreCommanded
  RegenerateFlagsDownstream
PROPERTIES
  CancelledIsFinal
  CapStopsAnswers
\* A run stops when it is completed, failed or cancelled.
CHECK_DEADLOCK FALSE
