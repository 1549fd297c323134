\* Two clients, two sides: busy arms, partial failures and rollbacks.  One
\* command per side and lease is enough here.
SPECIFICATION Spec
CONSTANTS
  Clients = {c1, c2}
  Watchdog = Watchdog
  Sides = {left, right}
  None = None
  Timeout = 1
  MaxAge = 1
  MaxSkew = 0
  Seqs = {1}
  Stamps = {0}
  MaxBatch = 1
  MaxClock = 1
SYMMETRY ClientSymmetry
INVARIANTS LeaseInv RequestInv LeaseEndsWithSession
PROPERTIES DroppedByRight
CHECK_DEADLOCK FALSE
