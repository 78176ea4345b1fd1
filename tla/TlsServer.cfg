SPECIFICATION FairSpec
CONSTANTS
  Conns = {c1, c2, c3}
  MaxConnections = 2
  Expiry = 6
  HandshakeTimeout = 2
  ReadTimeout = 3
  WriteTimeout = 2
  DrainTimeout = 2
  Horizon = 7
INVARIANTS TypeOK NothingServedExpired KeyOutlivesTasks
PROPERTIES CutOnlyOverdue Stops
CHECK_DEADLOCK FALSE
