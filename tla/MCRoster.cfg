SPECIFICATION FairSpec
CONSTANTS
  MaxOps = 6
  MayRemove = TRUE
  MayPreapprove = TRUE
INVARIANTS
  RosterInv
  QuietMeansAgreed
PROPERTY ExchangeEnds
CHECK_DEADLOCK FALSE
