SPECIFICATION RecorderSpec
CONSTANTS
  RecordAudio = TRUE
  WaitAudioMs = 1
  RotateMs = 1
  GraceMs = 1
  BlockSamples = 2
  BlockMs = 2
  MaxPending = 2
  MaxTaken = 5
  MaxSessions = 2
  MaxFaults = 1
  MaxNow = 4
INVARIANTS
  FilesSound
  LostToFaults
CHECK_DEADLOCK FALSE
