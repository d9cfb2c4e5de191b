SPECIFICATION FairSpec
CONSTANTS
  MaxEvents = 3
  QueueSize = 1
  DrainMax = 2
  MaxRows = 1
  FlushBatch = 2
  Bad = {2}
  StorageFaults = TRUE
  MayCrash = TRUE
INVARIANTS
  TypeOK
  SettledOnce
  TableBounded
PROPERTIES
  ImplementsEventDelivery
  QueueIsNotBlocked
