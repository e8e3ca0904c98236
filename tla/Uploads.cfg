SPECIFICATION FairSpec
CONSTANTS
  StepCount = 5
  StepType <- Template
  MaxPanels = 1
  Scenes <- AllScenes
  MaxRows = 3
  Horizon = 3
  ApiCap = 1
INVARIANTS
  TypeOK
  SuccessWasPosted
  WithinLimitButForRaces
  NoStrandedRow
  SuggestionPassesCheck
PROPERTIES
  UsersWordIsFinal
  QuotaKept
  UploadsSettle
\* Nothing is left to do once every result is applied.
CHECK_DEADLOCK FALSE
