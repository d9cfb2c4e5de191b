SPECIFICATION FairSpec
CONSTANTS
  MaxPackets = 3
  MaxBatch = 2
  MaxBackoff = 1
  Poison = {1}
  StorageFaults = FALSE
PROPERTY
  MalformedPacketDoesNotBlock
