SPECIFICATION FairSpec
CONSTANTS
  r1 = r1
  r2 = r2
  Runner <- MCRunner
  MaxItems = 3
  MaxNum = 2
  MayFail = TRUE
INVARIANTS
  RunnerInv
  ItemsOnceInOrder
  GuardExclusive
  WakeupsMatch
PROPERTY ItemsStart
CHECK_DEADLOCK FALSE
