SPECIFICATION Spec
CONSTANTS
  QueueSize = 1
  MaxConn = 2
  MaxOut = 2
  MaxIn = 0
  MaxAsk = 0
  MaxUnacked = 0
  MayWait = FALSE
  MayCut = FALSE
  MayCloseEarly = FALSE
  MayStop = FALSE
INVARIANT HibernatingHasWatchdog
CHECK_DEADLOCK FALSE
