SPECIFICATION Spec
CONSTANTS
  HapticScale = 4
  Deadband = 1
  FieldTypes <- MCTypes
  Official <- MCOfficial
  NotFinite = NotFinite
  Wanted <- MCWanted
  Addresses = {a1, a2}
  Devices = {"L", "R"}
  Handedness <- MCHandedness
  Fingers = {"thumb"}
  Tips <- MCTips
  Infos <- MCInfos
  Touches = {2, 6}
INVARIANTS TypeOK RightHand NothingLeftBehind TouchIsReal
CHECK_DEADLOCK FALSE
