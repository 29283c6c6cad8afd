SPECIFICATION Spec
CONSTANTS
  MaxBlocks = 3
  Scenarios <- PowerAndMore
  BatchBlocks = 1
  MaxIndex = 3
  BlkLen = 2
  FtrLen = 2
INVARIANTS
  RepairedIsClosed
