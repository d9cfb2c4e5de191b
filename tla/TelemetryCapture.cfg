SPECIFICATION Spec
CONSTANTS
  Readings = {1, 3}
  Window = 4
  Deadband = 1
  NoWeight = NoWeight
  WifiMaxAge = 1
  CmdTimeout = 1
  SleepEnabled = TRUE
  Interval = 1
  IdleInterval = 3
  IdleAfter = 3
  Confirm = 1
  Work = 1
INVARIANTS
  PacketsKeepComing
  SleepFollowsMovement
  WeightIsOfNow
  WifiIsRecent
