SPECIFICATION Spec
CONSTANTS
  Nil = Nil
  Transports <- UdpThenTcp
  MaxWire = 2
  MaxFaults = 1
  NoRtp = 2
  KeepEvery = 2
  MaxTime = 3
  Clients = {"r1", "r2"}
  Addresses = {"a", "b"}
  Commands = {"left", "up"}
  Fallback = "left"
  MaxSaves = 2
  MaxDrops = 1
  MaxAsked = 2
  Pages = {"p1", "p2"}
  MaxTalks = 2
  MaxPosts = 3
  Frame = 2
  Fill = 4
  QueueMax = 5
  Pieces = {1, 4}
  IdleSteps = 1
  Kinds <- TheKinds
  MaxMessages = 3
  LineMax = 2
  HeadMax = 3
  BodyMax = 1
INVARIANT
  WireSafe
PROPERTIES
  RtspCameraSafe
  PtzSafe
  TalkSafe
  
CHECK_DEADLOCK FALSE
