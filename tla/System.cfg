CONSTANTS
  d1 = d1
  n1 = n1
  v1 = v1
  v2 = v2
  None = None
  RawDomains = {d1}
  RawNames = {n1}
  Domains = {d1}
  Names = {n1}
  Values = {v1, v2}
  QueryNames = {n1}
  TrimDots <- MCIdentity
  CaseFold <- MCCaseFold
  HasIpV4 = FALSE
  HasIpV6 = FALSE
  MAX_LEN = 2
  Addrs = {}
  BLOCK_DURATION_SECS = 2
  WINDOW_SECS = 1
  RATE_LIMIT = 2
  MAX_SIZE = 2
  Times = {0, 1}
  Conns = {c1, c2}
  Requests <- MCRequests
  Sockets = {}
  Datagrams = {}
  BACKLOG = 1
  RCVBUF = 1
  MAX_FAULTS = 1
  Orders <- MCOrders
SPECIFICATION PluginSpec
INVARIANTS SysTypeOK ConfirmedIsRegistered DeletedStaysAway
PROPERTIES RunsEnd
