SPECIFICATION CoreSpec
CONSTANTS
  AddrSpace = 256
  PcInit = 32
  PageSize = 32
  Fanout = 2
  TlbSize = 2
  NumInputs = 2
  NumMasters = 2
  Pte <- InterruptedPte
  Op <- InterruptedOp
  Outcome <- InterruptedOutcome
  CsrArg <- InterruptedCsrArg
  LoadUse = {}
  IrqLine = {TRUE, FALSE}
PROPERTY InterruptResumes
