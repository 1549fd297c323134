SPECIFICATION Spec
CONSTANTS
  Hands = {left}
  MaxLines = 3
  OutRoom = 1
  MaxPushes = 1
INVARIANT OneObjectPerLine
