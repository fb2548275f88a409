\* All three ports, all six strategies.
SPECIFICATION Spec
CONSTANTS
  Gprs <- MCGprs
  ScratchReg = 20
  SigPointer = 21
  ScratchPointer = 22
  ScratchSize = 16
  AluOps = {"SUB"}
  Imms = {1}
  SplitOffset = 4
  AllocFails = FALSE
  Backends = {"cpp", "rust", "zig"}
  Strategies = {"random", "forwarding_stress", "load_use_stress", "store_to_load_forwarding", "branch_dense", "cache_line_split"}
  BootstrapCount = 1
  Count = 4
  DumpRegs <- MCDumpRegs
INVARIANTS
  TypeOK
  DefBeforeUse
  ReservedUntouched
  AccessesInBounds
  LoadsReadStored
  BranchesSkipOneNop
  EveryIterationEmits
  ReportedIsMeasured
  MeasuredIsReported
PROPERTIES
  ForwardingIsBackToBack
  ImplementsLegalProgram
CHECK_DEADLOCK FALSE
