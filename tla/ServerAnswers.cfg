CONSTANTS
  a1 = a1
  a2 = a2
  d1 = d1
  lower = lower
  lowerDot = lowerDot
  upper = upper
  v1 = v1
  v2 = v2
  None = None
  RawDomains = {d1}
  RawNames = {lower, lowerDot, upper}
  Domains = {d1}
  Names = {lower, upper}
  Values = {v1, v2}
  QueryNames = {lower, upper}
  TrimDots <- MCTrimDots
  CaseFold <- MCCaseFold
  HasIpV4 = TRUE
  HasIpV6 = FALSE
  MAX_LEN = 2
  Addrs = {a1}
  BLOCK_DURATION_SECS = 2
  WINDOW_SECS = 1
  RATE_LIMIT = 2
  MAX_SIZE = 2
  Times <- MCTimes
  Conns = {c1}
  Requests <- MCChanges
  Sockets = {UDP_SOCKET_4}
  Datagrams <- MCQueries
  BACKLOG = 1
  RCVBUF = 1
  MAX_FAULTS = 1
SPECIFICATION Spec
INVARIANTS TypeOK NothingWithheld NothingInvented NoLostWakeup
PROPERTIES PromiseKept
