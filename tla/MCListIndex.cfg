SPECIFICATION ListSpec
CONSTANTS
  Entry <- MCEntry
  MaxEntries = 3
INVARIANT MismatchDropsIndex
CHECK_DEADLOCK FALSE
