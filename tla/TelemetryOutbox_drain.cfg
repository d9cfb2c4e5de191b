SPECIFICATION FairSpec
CONSTANTS
  MaxPackets = 4
  MaxBatch = 2
  MaxBackoff = 1
  Poison = {}
  StorageFaults = TRUE
PROPERTY
  BacklogDrains
