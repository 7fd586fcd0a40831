SPECIFICATION S2sSpec
CONSTANTS
  a = a
  b = b
  Host <- MCHost
  External <- MCOnlyA
  Forged <- MCOnlyB
  Bidi = TRUE
  SendqSize = 2
  MaxConn = 2
  MaxMsg <- MCMsg
  MaxBreak = 1
INVARIANTS
  OneRoute
  SentOrBounced
  OnlyVouched
  NoDialbackDeadlock
  OutboundOrder
CHECK_DEADLOCK FALSE
