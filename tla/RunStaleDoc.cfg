\* Is a step whose upstream has moved on always flagged stale?
SPECIFICATION Spec
CONSTANTS
  StepCount = 4
  StepType <- PublishTemplate
  MaxPanels = 2
  Options <- RerunOptions
  PanelCounts = {2}
  Costs = {1}
  Overrides <- ImageOverrides
  MaxCommands = 2
INVARIANT
  StaleWhenUpstreamMoves
CHECK_DEADLOCK FALSE
