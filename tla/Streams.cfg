SPECIFICATION Spec
CONSTANTS
  Nil = Nil
  NoPass = NoPass
  Units <- SixUnits
  MaxLost = 2
  MaxFlight = 5
  Offsets = {0, 1}
  Brake = 2
  MaxObjects = 2
  MaxOrders = 2
  MaxRegisters = 1
  MaxUnanswered = 1
  MaxSets = 1
  Reels <- ThreeFiles
  MaxPts = 4
  MaxRequests = 5
  MaxWait = 1
  MaxLag = 1
  Stall = 1
  Recording <- TwoFragments
  Target = 2
  MaxOpens = 2
  MaxAsked = 4
  MaxFetchFaults = 1
  MaxPauses = 1
  Threads = {"r1", "r2"}
  Lists <- Posts
  MaxViews = 3
  MaxListSaves = 1
  Books <- TwoBooks
  Validity = 2
  Slow = 1
  MaxBookSaves = 1
  MaxStarts = 2
  Grids = {2, 3}
  Levels = {0, 9}
  Top = 9
  Unit = 16
  Alpha = 6
  Delta = 2
  Threshold = 20
  Scene = 85
  MaxGap = 2
  Gaps = {1, 3}
  Left <- SixFrames
  MaxFrames = 7
INVARIANTS
  SeenThrough
  
  AppLiveSafe
  ServerBookSafe
  StillSettles

  
  
  
CHECK_DEADLOCK FALSE
