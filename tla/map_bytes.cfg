SPECIFICATION ImageSpec
CONSTANTS
  MemWords = 2
  Files <- MCFiles
INVARIANT ImageLoaded
CHECK_DEADLOCK FALSE
