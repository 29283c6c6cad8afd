SPECIFICATION Spec
CONSTANTS
  Camera = {c1}
  Saved = {c1}
  Request = {r1, r2}
  AtFirst = AtFirst
  Blank = {TRUE}
  MaxEndpoints = 1
  MaxAttempts = 1
  MaxFaults = 0
INVARIANT BlankKeepsPassword
CHECK_DEADLOCK FALSE
