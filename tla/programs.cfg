SPECIFICATION CoreFairSpec
CONSTANTS
  AddrSpace = 1024
  PcInit = 4
  PageSize = 64
  Fanout = 2
  TlbSize = 2
  NumInputs = 2
  NumMasters = 2
  Pte <- ProgramsPte
  Op <- ProgramsOp
  Outcome <- ProgramsOutcome
  CsrArg <- ProgramsCsrArg
  LoadUse <- ProgramsLoadUse
  IrqLine = {TRUE, FALSE}
INVARIANTS PremisesHold LoadOwn StoreOnce MduOwn TlbCurrent LineCurrent
PROPERTIES InstructionStream ImplementsIsa Progress
