SPECIFICATION FairSpec
CONSTANTS
  Camera = {c1, c2}
  Saved = {c1}
  Request = {r1, r2}
  AtFirst = AtFirst
  Blank = {TRUE}
  MaxEndpoints = 1
  MaxAttempts = 2
  MaxFaults = 1
INVARIANTS
  RegisterSound
  OneSession
  GivesUpWhenDry
PROPERTIES
  EventuallyStops
CHECK_DEADLOCK FALSE
