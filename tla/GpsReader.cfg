SPECIFICATION FairSpec
CONSTANTS
  MaxAge = 1
  Backlog = 1
  UartSize = 2
  ValidateSource = TRUE
INVARIANTS
  TypeOK
  ValidPositionIsRecent
  SpeedIsRecent
PROPERTY
  PositionRecovers
