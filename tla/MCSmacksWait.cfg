SPECIFICATION Spec
CONSTANTS
  QueueSize = 2
  MaxConn = 2
  MaxOut = 2
  MaxIn = 1
  MaxAsk = 1
  MaxUnacked = 0
  MayWait = TRUE
  MayCut = TRUE
  MayCloseEarly = FALSE
  MayStop = FALSE
INVARIANT DownstreamDelivery
CHECK_DEADLOCK FALSE
