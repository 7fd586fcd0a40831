SPECIFICATION Spec
CONSTANTS
  QueueSize = 1
  MaxConn = 3
  MaxOut = 2
  MaxIn = 1
  MaxAsk = 1
  MaxUnacked = 0
  MayWait = FALSE
  MayCut = FALSE
  MayCloseEarly = FALSE
  MayStop = TRUE
INVARIANTS
  DownstreamDelivery
  UpstreamProcessing
  SessionRegistry
PROPERTY ExpiresOnlyHibernating
CHECK_DEADLOCK FALSE
