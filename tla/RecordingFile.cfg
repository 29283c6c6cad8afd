SPECIFICATION Spec
CONSTANTS
  MaxBlocks = 5
  Scenarios <- Ordinary
  BatchBlocks = 2
  MaxIndex = 4
  BlkLen = 2
  FtrLen = 2
INVARIANTS
  FileSound
  RepairedIsClosed
PROPERTIES
  NothingGoesEarly
  ViewSpec
  EventuallyClosed
