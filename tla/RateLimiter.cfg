CONSTANTS
  Addrs = {a1, a2, a3}
  BLOCK_DURATION_SECS = 3
  WINDOW_SECS = 2
  RATE_LIMIT = 3
  MAX_SIZE = 2
  Times <- MCTimes
SPECIFICATION HSpec
SYMMETRY Symmetry
INVARIANTS TypeOK SizeBounded SlidingWindow HistoryInv
PROPERTIES BlockHolds ExpiredIsServed BlockIsJustified
