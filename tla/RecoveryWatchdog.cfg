SPECIFICATION FairSpec
CONSTANTS
  Enabled = TRUE
  Inactive = 6
  OffConfirm = 3
  WeightMaxAge = 1
  HealthyAge = 1
  HealthyConfirm = 4
  LoopGap = 2
  FileMayRot = TRUE
INVARIANTS
  TypeOK
  OneRebootPerOutage
  LatchIsDurable
PROPERTIES
  RebootWeightIsRecent
  OutageGetsItsReboot
  LastingRecoveryUnlatches
