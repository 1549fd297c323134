SPECIFICATION Spec
CONSTANTS
  Sessions = {s1, s2}
  Watchdog = Watchdog
  Hands = {left, right}
  Faulty = {}
  None = None
  MaxBuffer = 1
  MaxSignals = 1
INVARIANT ExitDisables
CHECK_DEADLOCK FALSE
