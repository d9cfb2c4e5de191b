SPECIFICATION FairSpec
CONSTANTS
  Grace = 2
  RestartCooldown = 2
  UsbGrace = 3
  CycleCooldown = 4
  RunLimit = 2
  CycleEnabled = TRUE
INVARIANT
  ServicesRestored
PROPERTIES
  CycleLimitBetweenBoots
  RecoveriesGoOn
