\* LdrReg of the Rust port before the first store.
SPECIFICATION Spec
CONSTANTS
  Gprs <- MCGprs
  ScratchReg = 20
  SigPointer = 21
  ScratchPointer = 22
  ScratchSize = 16
  AluOps = {"SUB"}
  Imms = {1}
  SplitOffset = 4
  AllocFails = FALSE
  Backends = {"rust"}
  Strategies = {"random"}
  BootstrapCount = 1
  Count = 3
  DumpRegs <- MCDumpRegs
INVARIANTS
  NeverPanics
CHECK_DEADLOCK FALSE
