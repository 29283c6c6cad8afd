SPECIFICATION FairSpec
CONSTANTS
  Clients = {c1}
  Cap = 2
  MaxBytes = 9
  BufferMs = 1
  Sizes = {1}
  VFormats <- TwoCodecs
  AFormats = {A1}
  NoFormat = NoFormat
  NoItem = NoItem
  MaxSeq = 3
  MaxGen = 1
  MaxNow = 1

  
  
  
PROPERTIES
  EventuallyServed
CHECK_DEADLOCK FALSE
