SPECIFICATION MCSpec
CONSTANTS
  Addresses <- MCAddresses
  MaxFd = 2
  MaxWatched = 2
  MaxEvents = 2
  Sig <- MCSig
  MaxPending = 2
  MaxSfd = 2
  MaxArrive = 4
INVARIANTS
  NoLeak
  CallerIsTold
  PollerMatchesLoop
  BatchCompleteThenTimers
  HookKeepsSignals
  DescriptorKeepsSignals
PROPERTY NoFailAfterSuccess
CHECK_DEADLOCK FALSE
