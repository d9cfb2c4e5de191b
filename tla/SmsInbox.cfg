SPECIFICATION FairSpec
CONSTANTS
  Long = {1}
  Plain = {}
  Commands = {3}
  Garbled = {4}
  Capacity = 2
  DirectReads = TRUE
INVARIANTS
  NoPartVanishes
  NothingTwice
  EventsAreWhole
PROPERTY
  MessageIsReported
