SPECIFICATION RingSpec
CONSTANTS
  Cap = 3
  MaxBytes = 4
  BufferMs = 1
  Sizes = {1, 3}
  VFormats = {V1, V2}
  AFormats = {A1}
  NoFormat = NoFormat
  NoItem = NoItem
  MaxSeq = 5
  MaxGen = 1
  MaxNow = 3
INVARIANTS
  RingCounts
  RingFaithful
  OneFormat
CHECK_DEADLOCK FALSE
