SPECIFICATION Spec
CONSTANTS
  Sides = {left}
  ServerSides = {left}
  AutoEnable = TRUE
  SendTimeout = 1
  JoinTimeout = 3
  TactileSides = {left}
  MaxFrames = 1
PROPERTY VibrationCleared
