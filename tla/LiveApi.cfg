SPECIFICATION Spec
CONSTANTS
  Players = {p1}
  MaxSamples = 1
  LiveMs = 1
  MaxRuns = 2
  Cap = 2
  MaxBytes = 9
  BufferMs = 1
  Sizes = {1}
  VFormats = {V1, V2}
  AFormats = {A1}
  NoFormat = NoFormat
  NoItem = NoItem
  MaxSeq = 4
  MaxGen = 1
  MaxNow = 1
INVARIANTS
  FragmentsFollow
CHECK_DEADLOCK FALSE
