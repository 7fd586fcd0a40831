SPECIFICATION FairSpec
CONSTANTS
  QueueSize = 2
  MaxConn = 2
  MaxOut = 2
  MaxIn = 1
  MaxAsk = 0
  MaxUnacked = 0
  MayWait = TRUE
  MayCut = FALSE
  MayCloseEarly = FALSE
  MayStop = FALSE
PROPERTY StanzasSettle
CHECK_DEADLOCK FALSE
