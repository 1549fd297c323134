SPECIFICATION FairSpec
CONSTANTS
  Sides = {left, right}
  ServerSides = {left, right}
  AutoEnable = TRUE
  SendTimeout = 1
  JoinTimeout = 3
  TactileSides = {left}
  MaxFrames = 2
INVARIANTS TypeOK LatestOnly DisableComesLast DisabledBeforeClose
PROPERTIES CachedFrameIsTaken ShutdownEndsCold
