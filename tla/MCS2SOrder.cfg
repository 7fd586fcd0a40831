SPECIFICATION S2sSpec
CONSTANTS
  a = a
  b = b
  Host <- MCHost
  External <- MCOnlyA
  Forged <- MCNone
  Bidi = TRUE
  SendqSize = 2
  MaxConn = 1
  MaxMsg <- MCMsg
  MaxBreak = 0
INVARIANT InOrder
CHECK_DEADLOCK FALSE
