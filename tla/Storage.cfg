SPECIFICATION Spec
CONSTANTS
  Nil = Nil
  RecordedFiles = {"f1", "f2"}
  CameraOf <- OneEach
  MaxWrites = 2
  MaxIndexes = 1
  MaxLists = 2
  MaxServerStarts = 2
  NFiles = 2
  Grace = 1
  MaxAge = 2
  MaxTotal = 2
  MinFree = 2
  Capacity = 4
  MaxTime = 5
  MaxEvents = 1
  MaxSize = 2
  Threads = {"r1", "r2"}
  Lag = 1
  Slow = 1
  MissTtl = 1
  MinAge = 3
  MaxMinute = 4
  MaxThumbs = 4
  Gap = 2
  Longest = 2
  MaxClock = 3
  MaxCommands = 3
  MaxAnswers = 1
  MaxBack = 1
  MaxWriteFaults = 1
  Keys = {"enabled", "tune", "other"}
  Values = {0, 1, 2}
  LeastTuning = 1
  On = 1
  Json <- TheJson
  JsonOrder <- TheOrder
  JsonCams <- OneCamera
  Defaults <- TheDefaults
  Registers = {"c", "d"}
  Tables = 2
  MaxBoots = 2
  MaxPosts = 2
  MediaFiles = 3
  MaxBlocks = 2
  MaxInstant = 5
  Assumed = 2
  Wanted = {1, 2}
  MaxFetches = 3
  Step = 2
  Behind = 2
  Window = 3
  Backfill = 0
  Jump = 2
  MergeGap = 1
  Ceilings = {1, 3}
  Models = {"m1"}
  SaveEvery = 2
  Delay = 1
  MaxToday = 5
  MaxReels = 2
  MaxStarts = 2
  MaxChanges = 1
INVARIANTS
  IndexCacheSafe
  
  TimelineTells
  InteractionsSafe
  AnalyticsSafe
PROPERTIES
  RetentionSafe
  MediaApiSafe
  SettingsSafe
CHECK_DEADLOCK FALSE
