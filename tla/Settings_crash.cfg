SPECIFICATION SettingSpec
CONSTANTS
  Keys = {"enabled", "tune"}
  Values = {0, 1}
  Least = 1
  Json <- TheJson
  JsonOrder <- TheOrder
  Defaults <- TheDefaults
  Cameras = {"c"}
  JsonCams <- TheCams
  Tables = 2
  Requests = {r1}
  MaxStarts = 2
  MaxPosts = 1
  On = 1
  None = None
INVARIANT StartsAgain
CHECK_DEADLOCK FALSE
