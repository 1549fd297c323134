\* Two clients, one side, two commands and a tick: the replay windows,
\* stale and future stamps, and the deadman under fairness.
SPECIFICATION FairSpec
CONSTANTS
  Clients = {c1, c2}
  Watchdog = Watchdog
  Sides = {left}
  None = None
  Timeout = 1
  MaxAge = 0
  MaxSkew = 0
  Seqs = {1, 2}
  Stamps = {0, 1}
  MaxBatch = 1
  MaxClock = 1
INVARIANTS TypeOK
PROPERTIES StampNeverBack ImplementsLease SilentSideEnds
CHECK_DEADLOCK FALSE
