\* Two sessions, two hands, two signals on top of the calls from finally and
\* atexit.
SPECIFICATION FairSpec
CONSTANTS
  Sessions = {s1, s2}
  Watchdog = Watchdog
  Hands = {left, right}
  Faulty = {left}
  None = None
  MaxBuffer = 1
  MaxSignals = 2
INVARIANTS TypeOK ColdExit
PROPERTIES SignalEndsProcess DeadlockKeepsDeadman
CHECK_DEADLOCK FALSE
