SPECIFICATION FairSpec
CONSTANTS
  None = None
  Project = {"p1", "p2"}
  Account = {"a1", "a2", "a3"}
  Session = {"s1", "s2"}
  Platform = {"youtube_selenium", "tiktok_selenium", "twitter"}
  Port = {1, 2}
  Track = {"k1", "k2"}
  Sheet = {"s1", "s2", "s3"}
  Template = {"t1", "t2"}
  FormatId = {"manga", "mine"}
  Defaults <- AllDefaults
  StepLists <- AllStepLists
  Run = {"r1", "r2", "r3"}
  InProcess = {"youtube_selenium"}
  WithWorker = {"tiktok_selenium"}
  Batch = 2
  Command <- AllCommands
  KindOf <- KindOfCommand
  Scene <- AllNames
  SceneNamed <- AllScenes
INVARIANTS
  TypeOK
  NothingLeaks
  TrackHasObject
  OneDefaultButForRaces
  NothingLost
  DeadlocksNeedDeletion
  EndIsComplete
PROPERTIES
  RunAsAsked
  DueIsFetched
CHECK_DEADLOCK FALSE
