\* ForwardingAlu of the Zig port.
SPECIFICATION Spec
CONSTANTS
  Gprs <- MCGprs
  ScratchReg = 20
  SigPointer = 21
  ScratchPointer = 22
  ScratchSize = 16
  AluOps = {"SUB"}
  Imms = {1}
  SplitOffset = 4
  AllocFails = FALSE
  Backends = {"zig"}
  Strategies = {"forwarding_stress"}
  BootstrapCount = 1
  Count = 3
  DumpRegs <- MCDumpRegs
PROPERTIES
  ZigForwardingIsBackToBack
CHECK_DEADLOCK FALSE
