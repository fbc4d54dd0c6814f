SPECIFICATION SocSpec
CONSTANTS
  MemWords = 4
  Calls <- MCCalls
  Depth = 2
  Chars <- MCChars
  MaxTyped = 2
  Delays = TRUE
INVARIANTS SocTypeOK IssuedIsFront DeviceAsserts FifoKept
PROPERTIES ImplementsSerial ImplementsDevice FenceEnds
CHECK_DEADLOCK FALSE
