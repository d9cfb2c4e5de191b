SPECIFICATION FairFramingSpec
CONSTANTS
  Items = {"nmea", "ubx", "binary", "broken", "torn", "huge", "sync", "dollar", "long"}
  MaxItems = 3
  MaxPayload = 2
  MaxLine = 3
INVARIANTS
  FramingTypeOK
  FrameIsFound
PROPERTY
  FeedReturns
CHECK_DEADLOCK FALSE
