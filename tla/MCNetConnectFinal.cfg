SPECIFICATION ConnectSpec
CONSTANT
  Addresses <- MCAddresses
INVARIANT FailureIsFinal
CHECK_DEADLOCK FALSE
