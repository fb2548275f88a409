\* RawChain as the documents define it.
SPECIFICATION Spec
CONSTANTS
  Gprs <- MCGprs
  ScratchReg = 20
  SigPointer = 21
  ScratchPointer = 22
  ScratchSize = 16
  AluOps = {"SUB"}
  Imms = {1}
  SplitOffset = 4
  AllocFails = FALSE
  Backends = {"cpp"}
  Strategies = {"forwarding_stress"}
  BootstrapCount = 1
  Count = 4
  DumpRegs <- MCDumpRegs
INVARIANTS
  RawChainIsAluToAlu
CHECK_DEADLOCK FALSE
