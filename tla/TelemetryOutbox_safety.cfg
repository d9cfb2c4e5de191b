SPECIFICATION CadenceSpec
CONSTANTS
  MaxPackets = 4
  MaxBatch = 3
  MaxBackoff = 3
  Poison = {}
  StorageFaults = TRUE
  CreditCap = 2
INVARIANTS
  TypeOK
  NoLoss
  NoMissedWakeup
  NoForgottenFailure
  LiveLabelHonest
  NoRequestFlood
PROPERTY
  ImplementsDelivery
