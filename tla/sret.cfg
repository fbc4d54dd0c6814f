SPECIFICATION CoreSpec
CONSTANTS
  AddrSpace = 256
  PcInit = 4
  PageSize = 32
  Fanout = 2
  TlbSize = 2
  NumInputs = 2
  NumMasters = 2
  Pte <- NoPte
  Op <- SretOp
  Outcome <- SretOutcome
  CsrArg <- SretCsrArg
  LoadUse = {}
  IrqLine = {FALSE}
PROPERTY SretRedirects
