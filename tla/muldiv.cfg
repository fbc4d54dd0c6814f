SPECIFICATION MdSpec
CONSTANTS
  Half = 3
  Askers = 2
  Offered <- MCOffered
INVARIANTS ResultCorrect DivisionHolds ProductHolds
PROPERTIES ImplementsControl Answers
CHECK_DEADLOCK FALSE
