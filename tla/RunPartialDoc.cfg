\* Does a partial regeneration in a sequential mode walk every panel?
SPECIFICATION Spec
CONSTANTS
  StepCount = 4
  StepType <- PublishTemplate
  MaxPanels = 2
  Options <- RerunOptions
  PanelCounts = {2}
  Costs = {1}
  Overrides <- ImageOverrides
  MaxCommands = 2
INVARIANT
  PartialRegenWalksAll
CHECK_DEADLOCK FALSE
